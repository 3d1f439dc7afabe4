------------------------------ MODULE FrontEnd ------------------------------
(***************************************************************************)
(* From a compilation unit to single-assignment functions: the unit is     *)
(* read from text (vxcc vs2asm) or built by the frontend through the API,  *)
(* and then its functions are made single-assignment one after the other   *)
(* (vx_CU_compile, ir.c:402-414) until the verifier finds one wrong.       *)
(***************************************************************************)
EXTENDS Reader, MakeSsa

CONSTANTS
  Texts,     (* units that are written as text and read again            *)
  CutTexts,  (* units whose text is cut, not in a number, and then read  *)
  Units,     (* units that are built through the API                     *)
  MaxSteps   (* bound: how long runs are watched                         *)

ASSUME FrontEndAssumption == MaxSteps \in Nat

VARIABLE
  current    (* the number of the function that is being compiled *)

vars == <<readerVars, ssaVars, current>>

(* A unit that a frontend has built: nested blocks know the op they are in. *)
Built(u) ==
  [u EXCEPT !.functions = Each(@, LAMBDA f :
     [f EXCEPT !.blocks = Each(@, LAMBDA b :
        [b EXCEPT !.above = IF b.parent = 0 THEN "NULL" ELSE "op"])])]

Build(u) ==
  /\ source = u /\ unit = u
  /\ text = <<>> /\ rest = <<>> /\ open = <<>> /\ tree = <<>> /\ refused = FALSE

Init ==
  /\ \/ \E u \in Texts : ReadText(u, Written(u))
     \/ \E u \in CutTexts : \E n \in 0 .. Len(Written(u)) - 1 :
          ReadText(u, SubSeq(Written(u), 1, n))
     \/ \E u \in Units : Build(Built(u))
  /\ types = {} /\ blocks = <<>> /\ vars_len = 2 /\ decl = <<>>
  /\ passes = <<>> /\ todo = <<>> /\ errors = {}
  /\ current = 0

BeginFunction ==
  /\ HasRead /\ passes = <<>> /\ errors = {} /\ current < Len(unit.functions)
  /\ Enter(unit.functions[current + 1].blocks, TypeNames)
  /\ current' = current + 1
  /\ UNCHANGED readerVars

Finished ==
  \/ refused
  \/ HasRead /\ passes = <<>> /\ (errors # {} \/ current = Len(unit.functions))

Next ==
  \/ ReaderStep /\ UNCHANGED <<ssaVars, current>>
  \/ BeginFunction
  \/ MakeSsaStep /\ UNCHANGED <<readerVars, current>>
  \/ Finished /\ UNCHANGED vars

Spec == Init /\ [][Next]_vars

-----------------------------------------------------------------------------
(* The table of variables covers every variable of the function, which     *)
(* stays in the range the model watches, and the blocks of an op exist.    *)
TypeOK ==
  /\ 2 .. vars_len - 1 \subseteq Var
  /\ \A b \in DOMAIN blocks :
       /\ blocks[b].above \in AboveOp /\ blocks[b].parent \in DOMAIN blocks \cup {0}
       /\ Len(blocks[b].tys) = Len(blocks[b].ins)
       /\ \A k \in DOMAIN blocks[b].ops :
            LET op == blocks[b].ops[k]
            IN  ToSet(Nested(op)) \subseteq DOMAIN blocks /\ Len(op.tys) = Len(op.outs)
  /\ refused \in BOOLEAN /\ current \in Nat

(* While text is read, the nodes read so far print as exactly the part of  *)
(* the text that has been consumed: no token is dropped, cut, or hung into *)
(* another list than the one it stands in (snode_parse).  (A string at the *)
(* end of a cut text prints with the quote that it lacks.)                 *)
RECURSIVE Shown(_)
Shown(lists) ==
  LET outer == Spaced(Each(Head(lists), PrintNode))
      between == IF Head(lists) = <<>> THEN <<"(">> ELSE <<" ", "(">>
  IN  IF Len(lists) = 1 THEN outer ELSE outer \o between \o Shown(Tail(lists))

NothingLost ==
  open # <<>> => \/ \E space \in {<<>>, <<" ">>} : Shown(open) \o space \o rest = text
                 \/ rest = <<>> /\ Front(Shown(open)) = text

(* A unit that is written and read again is the same unit: its options,    *)
(* its types, and every op, value and nested block of its functions        *)
(* (vs2vs, which is there to test this).                                   *)
ReadsBack == HasRead /\ text = Written(source) => unit = source

(* The end of a text closes every list that is still open (snode_parse),   *)
(* so a text that was cut short is not always refused.  What is then read  *)
(* is a unit that ends earlier: types and functions are missing at its     *)
(* end, and of what the last function returns.  No op is missing, and no   *)
(* function that is there calls one that is not.                           *)
EndsEarlier ==
  LET n == Len(unit.functions)
      whole == source.functions
      returned == whole[n].blocks[Root].outs
      last == [whole[n] EXCEPT !.blocks[Root].outs = unit.functions[n].blocks[Root].outs]
  IN  HasRead =>
        /\ unit.opt \in {source.opt, None} /\ IsPrefix(unit.types, source.types)
        /\ n > 0 => /\ IsPrefix(Front(unit.functions), whole)
                    /\ unit.functions[n] = last
                    /\ IsPrefix(last.blocks[Root].outs, returned)

(* The reader gives up on a unit it has been written for in one case: when *)
(* a function names one that is not in front of it, itself included.       *)
NamesLater(u) ==
  \E n \in DOMAIN u.functions :
    LET p == u.functions[n].blocks
        known == {u.functions[m].name : m \in 1 .. n - 1}
    IN  \E q \in ToSet(Walk(p)[Root]) : OpAt(p, q).addr \notin known \cup {None}

RefusesLaterNames ==
  (refused \/ HasRead) /\ text = Written(source) => (refused <=> NamesLater(source))

-----------------------------------------------------------------------------
(* No variable of the function has a number the table would give away as a *)
(* new one.  (Why "fix" has to run first: frontends number as they like.)  *)
VarsOf(p) ==
  UNION {VarsRead(OpAt(p, q)) \cup ToSet(OpAt(p, q).outs) : q \in ToSet(Walk(p)[Root])}
    \cup UNION {ToSet(p[b].ins) \cup ToSet(p[b].outs) : b \in BlocksIn(p, Root)}

TableCovers ==
  blocks # <<>> /\ passes # Compile => VarsOf(blocks) \subseteq 2 .. vars_len - 1

(* The function is as the optimiser gets it. *)
MadeSsa == blocks # <<>> /\ passes \in {<<"verify">>, <<>>}

(* Every variable is assigned by one op, or is an input of one block. *)
SingleAssignment ==
  MadeSsa => /\ IsInjective(Declarations(blocks))
             /\ ToSet(Declarations(blocks)) \cap ToSet(blocks[Root].ins) = {}

(* What is read or handed out has been assigned on the way there, in front *)
(* of it or in front of an op it is nested in.  (The verifier accepts a    *)
(* variable that is assigned anywhere, and does not look at what blocks    *)
(* hand out.)                                                              *)
ScopesRespected ==
  LET inFront(b, k) ==
        ToSet(blocks[b].ins) \cup UNION {ToSet(blocks[b].ops[j].outs) : j \in 1 .. k - 1}
      scoped[b \in DOMAIN blocks, seen \in SUBSET Var] ==
        /\ ToSet(blocks[b].outs) \subseteq seen \cup inFront(b, Len(blocks[b].ops) + 1)
        /\ \A k \in DOMAIN blocks[b].ops :
             LET op == blocks[b].ops[k]
                 known == seen \cup inFront(b, k)
             IN  /\ VarsRead(op) \subseteq known
                 /\ \A n \in ToSet(Nested(op)) : scoped[n, known]
  IN  MadeSsa => scoped[Root, {}]

(* The verifier finds nothing: what the passes make of a function that a   *)
(* frontend may hand over is never turned down (ir.c:411).                 *)
Accepted == errors = {}

(* A value keeps its type on its way through an IF or a loop: the output   *)
(* of the op, what the blocks hand out for it, the inputs and the first    *)
(* value of a state.                                                       *)
TypesAgree ==
  LET types_of(vs) == Each(vs, LAMBDA v : TypeOf(blocks, v))
      agree(op) ==
        /\ op.id = "IF" => \A b \in {op.then, op.els} \ {None} : types_of(blocks[b].outs) = op.tys
        /\ op.id = "WHILE" => /\ types_of(blocks[op.do].outs) = op.tys
                              /\ blocks[op.do].tys = op.tys /\ blocks[op.cond].tys = op.tys
                              /\ types_of(op.args) = op.tys
  IN  MadeSsa => \A q \in ToSet(Walk(blocks)[Root]) : agree(OpAt(blocks, q))

(* After every step of every pass the function still does what it did when *)
(* it was handed over: for every input it makes the same calls with the    *)
(* same values and returns the same, and never uses what has no value.     *)
HandedOver == unit.functions[current].blocks

(* What the inputs of the function may be; no other variable has a value.  *)
Inputs ==
  LET ins == ToSet(HandedOver[Root].ins)
  IN  {[v \in Var |-> IF v \in ins THEN given[v] ELSE Uninit] : given \in [ins -> Imm]}

MeaningPreserved ==
  blocks # <<>> =>
    \A env \in Inputs : SameOutcome(SsaOutcome(HandedOver, env, MaxSteps),
                                    SsaOutcome(blocks, env, MaxSteps))

=============================================================================
