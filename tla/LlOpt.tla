------------------------------- MODULE LlOpt --------------------------------
(***************************************************************************)
(* The optimiser of the flat form, vx_opt_ll: a fixed schedule of passes,  *)
(* each of which walks the op list once and rewrites it while it walks.    *)
(* One action is one visit of a pass to an op it is interested in; a pass  *)
(* that finds no further op ends and the next of the schedule starts.      *)
(*                                                                         *)
(* A pass reads what the earlier passes left: the op list, and the table   *)
(* "decl" that names the op declaring each label.  That table is filled    *)
(* before the optimiser starts (fix_decl) and not by its passes, so every  *)
(* one that removes or redirects ops can leave it wrong for those after it.*)
(***************************************************************************)
EXTENDS LlirExec

CONSTANTS
  Programs,             (* the programs to optimise: sequences of ops       *)
  ConstevalIterations,  (* cu->opt.consteval_iterations, 6 by default       *)
  JumpRounds            (* rounds of ll_jumps and ll_dce, 4 in the code     *)

(* Every used label is declared, no label twice. *)
WellFormed(p) ==
  /\ \A i, j \in DOMAIN p :
       /\ p[i].id = "LABEL" /\ p[j].id = "LABEL" /\ p[i].label = p[j].label
       => i = j
  /\ \A i \in DOMAIN p : IsJump(p[i]) =>
       \E j \in DOMAIN p : p[j].id = "LABEL" /\ p[j].label = p[i].label

ASSUME LlOptAssumption ==
  /\ ConstevalIterations \in Nat
  /\ JumpRounds \in Nat
  /\ \A p \in Programs :
       /\ p \in Seq(Op) /\ Len(p) <= MaxOps
       /\ \A i \in DOMAIN p : OpShape(p[i]) /\ p[i].id # "UNUSED"
       /\ WellFormed(p)

VARIABLES
  code,     (* the op of each slot                                          *)
  alive,    (* the slots in the op list                                     *)
  decl,     (* as_root.labels[].decl: the slot declaring each label, or 0   *)
  step,     (* the pass being run: its place in the schedule                *)
  cur,      (* the slot that pass visited last, 0 before its first visit    *)
  meaning   (* what the program did when it came in, for every input; read  *)
            (* by properties only                                           *)

vars == <<code, alive, decl, step, cur, meaning>>

-----------------------------------------------------------------------------
(* The schedule. *)

PassName == {"dce_labels", "dce_flow", "ll_inlineVars", "vars",
             "cmov_expand", "jumps_part1", "jumps_part2"}

Times(n, passes) == [k \in 1 .. n * Len(passes) |->
                       passes[((k - 1) % Len(passes)) + 1]]

InlineAndVars == Times(ConstevalIterations, <<"ll_inlineVars", "vars">>)

JumpsAndDce ==
  Times(JumpRounds, <<"jumps_part1", "jumps_part2", "dce_labels", "dce_flow">>)

Schedule ==
  <<"dce_labels", "dce_flow">> \o InlineAndVars \o <<"cmov_expand">>
    \o JumpsAndDce \o InlineAndVars

Done == step > Len(Schedule)

Running(pass) == step <= Len(Schedule) /\ Schedule[step] = pass

(* The ops a pass acts on; the loop of the pass skips the others. *)
Wants(pass, op) ==
  CASE pass = "dce_labels"    -> op.id = "LABEL"
    [] pass = "dce_flow"      -> EndsFlow(op)
    [] pass = "jumps_part1"   -> IsJump(op)
    [] pass = "jumps_part2"   -> IsJump(op)
    [] pass = "ll_inlineVars" -> op.id = "IMM"
    [] pass = "vars"          -> ~HasSideEffect(op)
    [] pass = "cmov_expand"   -> op.id = "CMOV" /\ op.b # None

Wanted(pass) == {i \in After(alive, cur) : Wants(pass, code[i])}

(* Slot i is where the loop of the pass stops next. *)
Visits(pass, i) ==
  /\ Running(pass)
  /\ i \in Wanted(pass)
  /\ i = Min(Wanted(pass))
  /\ cur' = i
  /\ UNCHANGED <<decl, step, meaning>>

(* The loop of a pass reaches the end of the list. *)
NextPass ==
  /\ ~Done
  /\ Wanted(Schedule[step]) = {}
  /\ step' = step + 1
  /\ cur' = 0
  /\ UNCHANGED <<code, alive, decl, meaning>>

-----------------------------------------------------------------------------
(* vx_opt_ll_dce *)

(* Faulty variant: labels that only a conditional jump names are unlinked. *)
RemoveLabelWithoutGoto(i) ==
  /\ Visits("dce_labels", i)
  /\ alive' = IF \E j \in alive :
                   code[j].id = "GOTO" /\ code[j].label = code[i].label
              THEN alive ELSE alive \ {i}
  /\ UNCHANGED code

(* First loop: a label that no jump names any more is unlinked. *)
RemoveUnusedLabel(i) ==
  /\ Visits("dce_labels", i)
  /\ alive' = IF LabelUsed(code, alive, code[i].label)
              THEN alive ELSE alive \ {i}
  /\ UNCHANGED code

(* Faulty variant: ops with side effects are kept, reached or not. *)
RemovePureAfterFlowEnd(i) ==
  /\ Visits("dce_flow", i)
  /\ alive' = alive \ {j \in Segment(code, alive, i) : ~HasSideEffect(code[j])}
  /\ UNCHANGED code

(* Second loop: what follows an op that ends the flow is unlinked, up to   *)
(* the next label.                                                         *)
RemoveAfterFlowEnd(i) ==
  /\ Visits("dce_flow", i)
  /\ alive' = alive \ Segment(code, alive, i)
  /\ UNCHANGED code

(* vx_opt_ll_jumps *)

(* Faulty variant: a jump backward counts as skipping nothing. *)
SkipsNothingEitherWay(i) ==
  \A j \in Between(alive, i, decl[code[i].label]) : ~HasEffect(code[j])

(* part1: a jump forward over ops without effect is unlinked. *)
SkipsNothing(i) ==
  LET target == decl[code[i].label]
  IN  /\ target > i
      /\ \A j \in Between(alive, i, target) : ~HasEffect(code[j])

RemoveEmptyJump(i) ==
  /\ Visits("jumps_part1", i)
  /\ alive' = IF SkipsNothing(i) THEN alive \ {i} ELSE alive
  /\ UNCHANGED code

(* part2: a jump to a label that is directly followed by a GOTO takes over *)
(* the destination of that GOTO.                                           *)
FollowingOp(i) == NextOf(alive, decl[code[i].label])

(* Faulty variant: the following op is taken for a jump whatever it is. *)
RetargetJumpUnchecked(i) ==
  /\ Visits("jumps_part2", i)
  /\ code' = IF FollowingOp(i) \in alive
             THEN [code EXCEPT ![i].label = code[FollowingOp(i)].label]
             ELSE code
  /\ UNCHANGED alive

RetargetJump(i) ==
  /\ Visits("jumps_part2", i)
  /\ code' = IF /\ FollowingOp(i) \in alive
                /\ code[FollowingOp(i)].id = "GOTO"
             THEN [code EXCEPT ![i].label = code[FollowingOp(i)].label]
             ELSE code
  /\ UNCHANGED alive

(* vx_opt_ll_inlineVars *)

InlineImm(i) ==
  /\ Visits("ll_inlineVars", i)
  /\ alive' = IF CopiesItself(code[i]) THEN alive \ {i} ELSE alive
  /\ code' = IF CopiesItself(code[i]) THEN code ELSE Inlined(code, alive, i)

(* vx_opt_vars: an op without side effect whose output no op reads, or     *)
(* that copies a variable to itself, is unlinked.                          *)
RemoveUnusedOp(i) ==
  /\ Visits("vars", i)
  /\ alive' = IF \/ CopiesItself(code[i])
                 \/ ~BlockVarUsed(code, alive, code[i].out)
              THEN alive \ {i} ELSE alive
  /\ UNCHANGED code

(* vx_IrBlock_ll_cmov_expand: the ELSE value is assigned to the output     *)
(* before the CMOV, which loses its ELSE operand.                          *)
ExpandCmov(i) ==
  /\ Visits("cmov_expand", i)
  /\ alive' = alive \cup {i - 1}
  /\ code' = [code EXCEPT ![i].b = None,
       ![i - 1] = MakeOp("IMM", code[i].out, None, None, code[i].b, None)]

-----------------------------------------------------------------------------
DeclSlot(p, l) ==
  LET d == {i \in DOMAIN p : p[i].id = "LABEL" /\ p[i].label = l}
  IN  IF d = {} THEN 0 ELSE 2 * Max(d)

(* The inputs that matter: of the variables that some op reads. *)
Inputs(p) ==
  {env \in Env : \A v \in Var :
     (\A i \in DOMAIN p : ~VarUsed(p[i], v)) => env[v] = 0}

Init ==
  \E p \in Programs :
    /\ code = [s \in Slot |-> IF s % 2 = 0 /\ s \div 2 <= Len(p)
                              THEN p[s \div 2] ELSE Unused]
    /\ alive = {2 * i : i \in DOMAIN p}
    /\ decl = [l \in Label |-> DeclSlot(p, l)]
    /\ step = 1
    /\ cur = 0
    /\ meaning = [env \in Inputs(p) |-> Outcome(code, alive, env)]

Visit(i) ==
  \/ RemoveUnusedLabel(i)
  \/ RemoveAfterFlowEnd(i)
  \/ RemoveEmptyJump(i)
  \/ RetargetJump(i)
  \/ InlineImm(i)
  \/ RemoveUnusedOp(i)
  \/ ExpandCmov(i)

Terminated == Done /\ UNCHANGED vars

Next == NextPass \/ (\E i \in Slot : Visit(i)) \/ Terminated

Spec == Init /\ [][Next]_vars

(* The programs for which MeaningPreserved is proved: nothing is placed in  *)
(* memory, and a conditional move with an ELSE value assigns a variable    *)
(* that it does not read and that nothing copies, so that no pass can make *)
(* it read its own output.                                                 *)
ElseOutputs(p) ==
  {p[i].out : i \in {j \in DOMAIN p : p[j].id = "CMOV" /\ p[j].b # None}}

SafeToOptimise(p) ==
  \A i \in DOMAIN p :
    /\ p[i].id # "PLACE"
    /\ p[i].id = "IMM" => p[i].a \notin ElseOutputs(p)
    /\ p[i].id = "CMOV" /\ p[i].b # None =>
         p[i].out \notin {p[i].cond, p[i].a} /\ p[i].b \notin ElseOutputs(p)

-----------------------------------------------------------------------------
(* Each variable holds a value of its kind; ops keep the shape their kind  *)
(* has, and the slots for insertion are empty until used.                  *)
TypeOK ==
  /\ code \in [Slot -> Op]
  /\ \A i \in Slot : OpShape(code[i])
  /\ alive \subseteq Slot
  /\ \A i \in alive : code[i].id # "UNUSED"
  /\ decl \in [Label -> Slot \cup {0}]
  /\ step \in 1 .. Len(Schedule) + 1
  /\ cur \in Slot \cup {0}

Declares(j, l) == code[j].id = "LABEL" /\ code[j].label = l

LabelResolved(l) ==
  /\ decl[l] \in alive
  /\ Declares(decl[l], l)
  /\ \A j \in alive : Declares(j, l) => j = decl[l]

(* Whatever passes have run, every jump finds its label: the table names   *)
(* an op that is still in the list and declares that label, and no other   *)
(* op declares it.  part1 asserts the first (ll_jumps.c:16), part2 and the *)
(* tail-call pass dereference it unchecked, and the assembler needs the    *)
(* second.                                                                 *)
JumpsResolved ==
  \A i \in alive : IsJump(code[i]) => LabelResolved(code[i].label)

(* After every visit of every pass, the program makes the same calls with  *)
(* the same values and ends the same way as the one that came in, on every *)
(* input: removing jumps, labels, copies and unreachable code is invisible *)
(* from outside the function.                                              *)
MeaningPreserved ==
  \A env \in DOMAIN meaning : SameOutcome(meaning[env], Outcome(code, alive, env))

(* When the optimiser is done no op is left that control cannot fall into  *)
(* from above: what follows a GOTO or a RETURN is a label.  Emission gives *)
(* every op it finds a register and code, dead or not.                     *)
NoDeadTail ==
  Done => \A i \in alive :
    EndsFlow(code[i]) /\ NextOf(alive, i) # End
      => code[NextOf(alive, i)].id = "LABEL"

=============================================================================
