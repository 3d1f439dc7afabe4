----------------------------- MODULE SlotShare -----------------------------
(***************************************************************************)
(* What prepares the flat form for code generation, vx_llir_prep_lower: a  *)
(* lifetime is computed for every variable, variables whose lifetimes do   *)
(* not collide are merged under one name (so that they share a register or *)
(* a stack slot), the copies that this leaves are inlined, and operands    *)
(* are put in the order two-operand machines want.                         *)
(*                                                                         *)
(* A lifetime is a set of places in the op list, whatever the jumps do.    *)
(* The merge walks the variables in the order of their numbers; each merge *)
(* renames one of them everywhere and unites the two lifetimes.            *)
(***************************************************************************)
EXTENDS LlirExec

CONSTANTS
  Programs,   (* the programs to prepare: sequences of ops                  *)
  Ins,        (* the parameters of the function                             *)
  TypeSize    (* the size of the type of each variable                      *)

(* Lowering lays a structured function out in the order of its text, where *)
(* what is not a parameter is assigned above its first use.                *)
AssignedAbove(p) ==
  \A k \in DOMAIN p, v \in Var \ Ins :
    VarUsed(p[k], v) => \E d \in 1 .. k - 1 : VarInOuts(p[d], v)

ASSUME SlotShareAssumption ==
  /\ Var \subseteq Nat
  /\ Ins \subseteq Var
  /\ DOMAIN TypeSize = Var
  /\ \A p \in Programs :
       /\ p \in Seq(Op) /\ Len(p) <= MaxOps
       /\ \A i \in DOMAIN p : p[i].id = "PLACE" => p[i].a \in Var
       /\ AssignedAbove(p)

VARIABLES
  code,      (* the op of each slot                                         *)
  alive,     (* the slots in the op list                                    *)
  step,      (* the part being run: its place in the schedule               *)
  cur,       (* the variable or the slot it dealt with last, 0 before that  *)
  decl,      (* vars[].decl: the slot of the first op with that output, or 0 *)
  labels,    (* labels[].decl, likewise                                     *)
  typed,     (* the variables whose vars[].ll_type is known                 *)
  placed,    (* those whose vars[].ever_placed is set                       *)
  lifetime,  (* vars[].ll_lifetime: the places where the variable is alive   *)
  renamed,   (* the variables that have been merged into another            *)
  meaning    (* what the program did when it came in, for every input; read *)
             (* by properties only                                          *)

program == <<code, alive>>
tables == <<decl, labels, typed, placed>>
sharing == <<lifetime, renamed>>
vars == <<program, step, cur, tables, sharing, meaning>>

Schedule == <<"fix_decl", "lifetimes", "share_slots", "ll_inlineVars",
              "ll_inlineVars", "ll_binary", "fix_decl">>

Done == step > Len(Schedule)

Running(part) == ~Done /\ Schedule[step] = part

Ends == step' = step + 1 /\ cur' = 0

Declares(j, l) == code[j].id = "LABEL" /\ code[j].label = l

FirstOf(slots) == IF slots = {} THEN 0 ELSE Min(slots)

-----------------------------------------------------------------------------
(* vx_IrBlock_llir_fix_decl *)

PlacedVars == {code[i].a : i \in {j \in alive : code[j].id = "PLACE"}}

FixDecl ==
  /\ Running("fix_decl")
  /\ decl' = [v \in Var |-> FirstOf({i \in alive : VarInOuts(code[i], v)})]
  /\ labels' = [l \in Label |-> FirstOf({i \in alive : Declares(i, l)})]
  /\ typed' = Ins \cup {v \in Var : \E i \in alive : VarInOuts(code[i], v)}
  /\ placed' = PlacedVars
  /\ Ends
  /\ UNCHANGED <<program, sharing, meaning>>

-----------------------------------------------------------------------------
(* vx_IrBlock_lifetimes *)

Mentions(v) ==
  {i \in alive : VarUsed(code[i], v) \/ VarInOuts(code[i], v)}

(* Place k lies between two neighbouring mentions of v with nothing that   *)
(* ends the flow between them.                                             *)
Bridged(v, k) ==
  \E i, j \in Mentions(v) :
    /\ k \in Between(alive, i, j)
    /\ \A n \in Between(alive, i, j) : n \notin Mentions(v) /\ ~EndsFlow(code[n])

(* The arrays are one place longer than the list, because the count of an  *)
(* op's successors includes the op itself (analysis.c:75, ir.c:32).        *)
Places == Slot \cup {End}

(* The last place is never written, and holds whatever was in the memory:  *)
(* set for the variables in "unwritten".  It is read of those only that    *)
(* have a type and are no parameters.                                      *)
Lifetimes ==
  /\ Running("lifetimes")
  /\ \E unwritten \in SUBSET (typed \ Ins) :
       lifetime' = [v \in Var |-> Mentions(v) \cup {k \in alive : Bridged(v, k)}
                                    \cup {k \in {End} : v \in unwritten}]
  /\ placed' = placed \cup PlacedVars
  /\ Ends
  /\ UNCHANGED <<program, decl, labels, typed, renamed, meaning>>

-----------------------------------------------------------------------------
(* vx_IrBlock_ll_share_slots *)

(* Faulty variant: parameters are merged like any other variable. *)
ConsideredWithIns(v) == v \notin renamed /\ v \in typed

(* Parameters, variables without a type and those merged before stay out. *)
Considered(v) == v \notin Ins \cup renamed /\ v \in typed

(* Faulty variant: two lifetimes may have one place in common anywhere. *)
CanMergeTouching(v, w) == Cardinality(lifetime[v] \cap lifetime[w]) <= 1

(* The lifetimes have no place in common, or one ends where the other      *)
(* begins: at an op that reads the one and assigns the other.              *)
CanMerge(v, w) ==
  \/ lifetime[v] \cap lifetime[w] = {}
  \/ Max(lifetime[v]) = Min(lifetime[w])
  \/ Min(lifetime[v]) = Max(lifetime[w])

Partners(v) ==
  {w \in Var \ {v} :
     Considered(w) /\ TypeSize[w] = TypeSize[v] /\ CanMerge(v, w)}

(* calcPriority.  No op modelled here has both an output and arguments (as *)
(* opposed to parameters), which would add to it.                          *)
Heat(v) == Cardinality(lifetime[v])

(* Faulty variant: operands keep their name. *)
RenameVarOutputs(old, new) ==
  /\ code' = [j \in Slot |->
       IF j \in alive /\ VarInOuts(code[j], old)
       THEN [code[j] EXCEPT !.out = new] ELSE code[j]]
  /\ UNCHANGED decl

(* vx_IrBlock_renameVar, of every operand and output. *)
RenameVar(old, new) ==
  /\ code' = [j \in Slot |->
       IF j \in alive
       THEN [Substitute(code[j], old, new) EXCEPT !.out = IF @ = old THEN new ELSE @]
       ELSE code[j]]
  /\ decl' = [decl EXCEPT ![old] = 0, ![new] = IF @ = 0
       THEN FirstOf({i \in alive : VarInOuts(code[i], old)}) ELSE @]

(* Faulty variant: the lifetime of the merged variable is forgotten. *)
MergeKeepingLifetime(old, new) ==
  /\ RenameVar(old, new)
  /\ renamed' = renamed \cup {old}
  /\ UNCHANGED lifetime

(* Faulty variant: the variable that went is not marked. *)
MergeUnmarked(old, new) ==
  /\ RenameVar(old, new)
  /\ lifetime' = [lifetime EXCEPT ![new] = @ \cup lifetime[old]]
  /\ UNCHANGED renamed

Merge(old, new) ==
  /\ RenameVar(old, new)
  /\ renamed' = renamed \cup {old}
  /\ lifetime' = [lifetime EXCEPT ![new] = @ \cup lifetime[old]]

(* Variable v is the next in order, and w the first it can be merged with. *)
Turn(v) ==
  /\ Running("share_slots")
  /\ v \in {u \in Var : u > cur}
  /\ v = Min({u \in Var : u > cur})
  /\ UNCHANGED <<alive, step, labels, typed, placed, meaning>>

FirstPartner(v, w) == Considered(v) /\ w \in Partners(v) /\ w = Min(Partners(v))

(* v is the hotter of the two: it takes over w and is looked at once more. *)
Absorb(v, w) ==
  /\ Turn(v) /\ FirstPartner(v, w)
  /\ Heat(v) > Heat(w)
  /\ Merge(w, v)
  /\ UNCHANGED cur

(* w takes over v, whose turn is over. *)
Join(v, w) ==
  /\ Turn(v) /\ FirstPartner(v, w)
  /\ Heat(v) <= Heat(w)
  /\ Merge(v, w)
  /\ cur' = v

PassOver(v) ==
  /\ Turn(v)
  /\ Considered(v) => Partners(v) = {}
  /\ cur' = v
  /\ UNCHANGED <<code, decl, sharing>>

SharingEnds ==
  /\ Running("share_slots")
  /\ {u \in Var : u > cur} = {}
  /\ Ends
  /\ UNCHANGED <<program, tables, sharing, meaning>>

-----------------------------------------------------------------------------
(* The passes over the op list. *)

Wants(pass, op) ==
  \/ pass = "ll_inlineVars" /\ op.id = "IMM"
  \/ pass = "ll_binary" /\ op.id = "OR"

Wanted(pass) == {i \in After(alive, cur) : Wants(pass, code[i])}

Visits(pass, i) ==
  /\ Running(pass)
  /\ i \in Wanted(pass)
  /\ i = Min(Wanted(pass))
  /\ cur' = i
  /\ UNCHANGED <<step, tables, sharing, meaning>>

PassEnds ==
  /\ Running("ll_inlineVars") \/ Running("ll_binary")
  /\ Wanted(Schedule[step]) = {}
  /\ Ends
  /\ UNCHANGED <<program, tables, sharing, meaning>>

InlineImm(i) ==
  /\ Visits("ll_inlineVars", i)
  /\ alive' = IF CopiesItself(code[i]) THEN alive \ {i} ELSE alive
  /\ code' = IF CopiesItself(code[i]) THEN code ELSE Inlined(code, alive, i)

(* vx_opt_ll_binary: the output is assigned over the first operand. *)
SwapOperands(i) ==
  /\ Visits("ll_binary", i)
  /\ code' = IF code[i].b = code[i].out
             THEN [code EXCEPT ![i].a = code[i].b, ![i].b = code[i].a]
             ELSE code
  /\ UNCHANGED alive

-----------------------------------------------------------------------------
(* The inputs of a run are the values of the parameters. *)
InputEnv == {env \in Env : \A v \in Var \ Ins : env[v] = 0}

Init ==
  \E p \in Programs :
    /\ code = [s \in Slot |-> IF s % 2 = 0 /\ s \div 2 <= Len(p)
                              THEN p[s \div 2] ELSE Unused]
    /\ alive = {2 * i : i \in DOMAIN p}
    /\ step = 1
    /\ cur = 0
    /\ decl = [v \in Var |-> 0]
    /\ labels = [l \in Label |-> 0]
    /\ typed = {}
    /\ placed = {}
    /\ lifetime = [v \in Var |-> {}]
    /\ renamed = {}
    /\ meaning = [env \in InputEnv |-> Outcome(code, alive, env)]

Share == \E v \in Var : PassOver(v) \/ \E w \in Var : Absorb(v, w) \/ Join(v, w)

Rewrite == \E i \in Slot : InlineImm(i) \/ SwapOperands(i)

Terminated == Done /\ UNCHANGED vars

Next ==
  \/ FixDecl \/ Lifetimes
  \/ Share \/ SharingEnds
  \/ Rewrite \/ PassEnds
  \/ Terminated

Spec == Init /\ [][Next]_vars

(* The compiler runs the schedule to its end: nothing it waits for. *)
FairSpec == Spec /\ WF_vars(Next)

-----------------------------------------------------------------------------
(* The programs for which MeaningPreserved is proved.  A conditional move  *)
(* without an ELSE value reads its output too.                             *)
Reads(op, v) ==
  VarUsed(op, v) \/ (op.id = "CMOV" /\ op.b = None /\ VarInOuts(op, v))

Leads(p, i, l) ==
  IsJump(p[i]) /\ p[l].id = "LABEL" /\ p[l].label = p[i].label

(* Op d lies on every way to op k: no jump goes from above d to between.   *)
OnEveryWay(p, d, k) == ~ \E i \in 1 .. d - 1, l \in d + 1 .. k : Leads(p, i, l)

Mentioned(p, v) == {i \in DOMAIN p : VarUsed(p[i], v) \/ VarInOuts(p[i], v)}

(* Jumps lead forward, each to the one label of its name; a local is       *)
(* assigned on every way to where it is read, and is mentioned on one side *)
(* only of an op that ends the flow; nothing is placed in memory.          *)
SafeToShare(p) ==
  /\ \A i \in DOMAIN p :
       /\ OpShape(p[i]) /\ p[i].id \notin {"PLACE", "UNUSED"}
       /\ IsJump(p[i]) =>
            \E l \in i + 1 .. Len(p) :
              Leads(p, i, l) /\ \A m \in DOMAIN p : Leads(p, i, m) => m = l
  /\ \A v \in Var \ Ins :
       /\ \A k \in DOMAIN p : Reads(p[k], v) =>
            \E d \in 1 .. k - 1 : VarInOuts(p[d], v) /\ OnEveryWay(p, d, k)
       /\ \A i, j \in Mentioned(p, v) : ~ \E g \in i + 1 .. j - 1 : EndsFlow(p[g])

-----------------------------------------------------------------------------
TypeOK ==
  /\ code \in [Slot -> Op]
  /\ alive \subseteq Slot
  /\ step \in 1 .. Len(Schedule) + 1
  /\ cur \in {0} \cup Var \cup Slot
  /\ decl \in [Var -> Slot \cup {0}]
  /\ labels \in [Label -> Slot \cup {0}]
  /\ typed \subseteq Var
  /\ placed \subseteq Var
  /\ lifetime \in [Var -> SUBSET Places]
  /\ renamed \subseteq Var \ Ins

(* While variables are being merged, the recorded lifetime of each one     *)
(* still standing covers every op that mentions it, under whatever names   *)
(* it came in, and one that was merged away is mentioned nowhere: the      *)
(* lifetimes are computed once, before the first merge, and every later    *)
(* decision is taken from them.                                            *)
LifetimesCover ==
  Running("share_slots") =>
    \A v \in Var : Mentions(v) \subseteq IF v \in renamed THEN {} ELSE lifetime[v]

(* Merging variables, inlining the copies it leaves and swapping operands  *)
(* is invisible: the program makes the same calls and returns the same     *)
(* value on every input, so no variable is assigned while another one      *)
(* under the same name still has a use ahead.                              *)
MeaningPreserved ==
  \A env \in InputEnv : SameOutcome(meaning[env], Outcome(code, alive, env))

(* When the program goes to the code generator, every variable that an op  *)
(* mentions has a type: the generator looks up its size and its register   *)
(* class there (cg.c:1510), also when the op that declared it has been     *)
(* inlined away.                                                           *)
TypesKnown == Done => {v \in Var : Mentions(v) # {}} \subseteq typed

(* The walk over the variables ends although a merge starts it over for    *)
(* the variable that took another one over.                                *)
Finishes == <>Done

=============================================================================
