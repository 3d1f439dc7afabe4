------------------------------ MODULE MakeSsa ------------------------------
(***************************************************************************)
(* Making a function single-assignment (ir.c:404-414).  The passes run one *)
(* after the other over the whole function:                                *)
(*   fix          the table of variables learns every variable there is,   *)
(*   normalize    for loops become while loops,                            *)
(*   mksa_states  variables that branches or loops assign become outputs   *)
(*                of the IF or states of the loop,                         *)
(*   mksa_final   every assignment gets a variable of its own,             *)
(*   fix          the table of variables learns who assigns what now,      *)
(*   verify       the result is looked at; compilation ends if it is bad.  *)
(*                                                                         *)
(* The table of variables is its size (new variables take the next free    *)
(* number) and, for each variable, the op that assigns it.  The passes in  *)
(* between keep that up to date too, but none of them reads it before      *)
(* "fix" writes it anew, so only its size changes there.                   *)
(***************************************************************************)
EXTENDS Cir

VARIABLES
  types,     (* the types registered with the compilation unit           *)
  blocks,    (* the function                                             *)
  vars_len,  (* the size of the table of variables                       *)
  decl,      (* vars[].decl, as "fix" left it                            *)
  passes,    (* the passes to run, the current one first                 *)
  todo,      (* what the current pass still has to look at               *)
  errors     (* what the verifier found                                  *)

ssaVars == <<types, blocks, vars_len, decl, passes, todo, errors>>

Compile == <<"fix", "normalize", "mksa_states", "mksa_final", "fix", "verify">>

Current(pass) == passes # <<>> /\ Head(passes) = pass

-----------------------------------------------------------------------------
(* What a pass looks at, in order. *)

(* mksa_states: the outputs of the ops directly in the branches of an IF,  *)
(* without going into them; a WHILE after what is nested in it.            *)
BranchOutputs(p, q) ==
  LET op == OpAt(p, q)
      outputs(b) == IF b = None THEN <<>> ELSE
        FlattenSeq([k \in DOMAIN p[b].ops |->
          [n \in DOMAIN p[b].ops[k].outs |-> [op |-> q, at |-> Place(b, k), out |-> n]]])
  IN  outputs(op.then) \o outputs(op.els)

StateVisits(p) ==
  LET visits[b \in DOMAIN p] ==
        FlattenSeq([k \in DOMAIN p[b].ops |->
          LET op == p[b].ops[k]
              inner == Nested(op)
              nested == FlattenSeq([n \in DOMAIN inner |-> visits[inner[n]]])
          IN  CASE op.id = "IF" -> BranchOutputs(p, Place(b, k))
                [] op.id = "WHILE" ->
                     Append(nested, [op |-> Place(b, k), at |-> None, out |-> 0])
                [] OTHER -> nested])
  IN  visits[Root]

(* Faulty variant: nested ops are left out. *)
FinalVisitsOutside(p) == [k \in DOMAIN p[Root].ops |-> Place(Root, k)]

(* mksa_final: every op, after what is nested in it. *)
FinalVisits(p) ==
  LET visits[b \in DOMAIN p] ==
        FlattenSeq([k \in DOMAIN p[b].ops |->
          LET inner == Nested(p[b].ops[k])
          IN  Append(FlattenSeq([n \in DOMAIN inner |-> visits[inner[n]]]), Place(b, k))])
  IN  visits[Root]

NextPass ==
  /\ passes' = Tail(passes)
  /\ todo' = CASE Current("normalize") -> StateVisits(blocks)
               [] Current("mksa_states") -> FinalVisits(blocks)
               [] OTHER -> <<>>

-----------------------------------------------------------------------------
(* Faulty variant: nested blocks are not searched. *)
MetOutside(p) ==
  [n \in DOMAIN p[Root].ins |-> <<p[Root].ins[n], None>>]
    \o FlattenSeq([k \in DOMAIN p[Root].ops |->
         LET outs == p[Root].ops[k].outs
         IN  [n \in DOMAIN outs |-> <<outs[n], Place(Root, k)>>]])

(* fix: variables are put into the table in the order in which they are    *)
(* met, inputs of blocks without an op, and the last one stays.            *)
Met(p) ==
  LET met[b \in DOMAIN p] ==
        [n \in DOMAIN p[b].ins |-> <<p[b].ins[n], None>>]
          \o FlattenSeq([k \in DOMAIN p[b].ops |->
               LET op == p[b].ops[k]
                   inner == Nested(op)
               IN  [n \in DOMAIN op.outs |-> <<op.outs[n], Place(b, k)>>]
                     \o FlattenSeq([n \in DOMAIN inner |-> met[inner[n]]])])
  IN  met[Root]

Fix ==
  LET met == Met(blocks)
      of(v) == SelectSeq(met, LAMBDA m : m[1] = v)
      size == Max({vars_len} \cup {m[1] + 1 : m \in ToSet(met)})
  IN  /\ Current("fix")
      /\ vars_len' = size
      /\ decl' = [v \in {w \in Var : w < size} |->
                    IF of(v) # <<>> THEN Last(of(v))[2]
                    ELSE IF v \in DOMAIN decl THEN decl[v] ELSE None]
      /\ NextPass
      /\ UNCHANGED <<types, blocks, errors>>

-----------------------------------------------------------------------------
(* Faulty variant: the body begins with the end block. *)
WithoutCforEndFirst(p, q) ==
  LET b == q.block
      op == OpAt(p, q)
      list == SubSeq(p[b].ops, 1, q.at - 1) \o p[op.start].ops \o <<While(op.cond, op.do)>>
                \o SubSeq(p[b].ops, q.at + 1, Len(p[b].ops))
  IN  [p EXCEPT ![b].ops = list, ![op.do].ops = p[op.endex].ops \o @,
                ![op.start].ops = <<>>, ![op.endex].ops = <<>>]

(* normalize: a CFOR is replaced by its start block and a WHILE, whose     *)
(* body is the body and the end block of the CFOR.  (The new block takes   *)
(* the number of the body; start and end block are left without ops.)  The *)
(* condition still names the CFOR as the op it is nested in.               *)
WithoutCfor(p, q) ==
  LET b == q.block
      op == OpAt(p, q)
      start == p[op.start].ops
      end == p[op.endex].ops
      moved(ops) == UNION {ToSet(Nested(ops[k])) : k \in DOMAIN ops}
      list == SubSeq(p[b].ops, 1, q.at - 1) \o start \o <<While(op.cond, op.do)>>
                \o SubSeq(p[b].ops, q.at + 1, Len(p[b].ops))
  IN  [c \in DOMAIN p |->
         CASE c = b -> [p[c] EXCEPT !.ops = list]
           [] c = op.do -> MakeCirBlock(b, "op", <<>>, <<>>, p[c].ops \o end, <<>>)
           [] c = op.cond ->
                [p[c] EXCEPT !.parent = b, !.above = IF @ = "op" THEN "gone" ELSE @]
           [] c \in {op.start, op.endex} -> [p[c] EXCEPT !.ops = <<>>]
           [] c \in moved(start) -> [p[c] EXCEPT !.parent = b]
           [] c \in moved(end) -> [p[c] EXCEPT !.parent = op.do]
           [] OTHER -> p[c]]

Cfors == SelectSeq(Walk(blocks)[Root], LAMBDA q : OpAt(blocks, q).id = "CFOR")

Normalize ==
  /\ Current("normalize") /\ Cfors # <<>>
  /\ blocks' = WithoutCfor(blocks, Head(Cfors))
  /\ UNCHANGED <<types, vars_len, decl, passes, todo, errors>>

-----------------------------------------------------------------------------
(* mksa_states, a branch: a variable that an op of the branch assigns and  *)
(* that has been assigned in front of the IF gets a name of its own in     *)
(* each branch and one behind the IF, which becomes an output of the IF    *)
(* (megic).  The name behind the IF goes to what follows the IF in its     *)
(* block and to the outputs of the block with the earlier assignment.      *)
Item == Head(todo)

Visit(pass) == Current(pass) /\ todo # <<>>

(* An IF without ELSE gets one that hands out the variable itself. *)
WithElse(p, q, v) ==
  LET then == OpAt(p, q).then
  IN  IF OpAt(p, q).els # None THEN p
      ELSE Append([p EXCEPT ![q.block].ops[q.at].els = Len(p) + 1],
                  MakeCirBlock(p[then].parent, p[then].above, <<>>, <<>>, <<>>, <<v>>))

WithOutput(p, q, v, ty) ==
  [p EXCEPT ![q.block].ops[q.at].outs = Append(@, v),
            ![q.block].ops[q.at].tys = Append(@, ty)]

HandOut(p, b, v) == [p EXCEPT ![b].outs = Append(@, v)]

(* With v as thenVar and elseVar in the branches and as joined behind. *)
Joined(p, q, v, origin, thenVar, elseVar, joined) ==
  LET op == OpAt(p, q)
      first == OpAt(p, origin)
      inThen == RenameBlock(p, op.then, v, thenVar)
      inElse == RenameBlock(inThen, op.els, v, elseVar)
      behind == Rename(inElse, origin.block, TRUE, q.block, q.at + 1, v, joined)
      given == WithOutput(behind, q, joined, TypeIn(first.outs, first.tys, v))
  IN  HandOut(HandOut(given, op.then, thenVar), op.els, elseVar)

BranchVar == OpAt(blocks, Item.at).outs[Item.out]

EarlierAssignment == DeclaredBefore(blocks, Item.op.block, BranchVar, Item.op.at)

JoinBranches ==
  /\ Visit("mksa_states") /\ Item.at # None /\ EarlierAssignment # None
  /\ blocks' = Joined(WithElse(blocks, Item.op, BranchVar), Item.op, BranchVar,
                      EarlierAssignment, vars_len, vars_len + 1, vars_len + 2)
  /\ vars_len' = vars_len + 3
  /\ todo' = Tail(todo)
  /\ UNCHANGED <<types, decl, passes, errors>>

LeaveLocal ==
  /\ Visit("mksa_states") /\ Item.at # None /\ EarlierAssignment = None
  /\ todo' = Tail(todo)
  /\ UNCHANGED <<types, blocks, vars_len, decl, passes, errors>>

-----------------------------------------------------------------------------
(* mksa_states, a loop: a variable that the body assigns somewhere and     *)
(* that has been assigned in front of the loop becomes a state: an input   *)
(* of condition and body under names of their own, handed out by the body, *)
(* given its first value by the variable and assigned to it in the end.    *)

(* Faulty variant: the input has no type. *)
AddInputUntyped(p, b, v, ty) == [p EXCEPT ![b].ins = Append(@, v)]

AddInput(p, b, v, ty) ==
  [p EXCEPT ![b].ins = Append(@, v), ![b].tys = Append(@, ty)]

(* Faulty variant: the state has no first value. *)
WithStateUnset(p, q, v, condVar, bodyVar) ==
  LET op == OpAt(p, q)
      ty == TypeOf(p, v)
      inCond == RenameBlock(AddInput(p, op.cond, condVar, ty), op.cond, v, condVar)
      inBody == RenameBlock(AddInput(inCond, op.do, bodyVar, ty), op.do, v, bodyVar)
  IN  WithOutput(HandOut(inBody, op.do, bodyVar), q, v, ty)

WithState(p, q, v, condVar, bodyVar) ==
  LET op == OpAt(p, q)
      ty == TypeOf(p, v)
      inCond == RenameBlock(AddInput(p, op.cond, condVar, ty), op.cond, v, condVar)
      inBody == RenameBlock(AddInput(inCond, op.do, bodyVar, ty), op.do, v, bodyVar)
      given == [HandOut(inBody, op.do, bodyVar) EXCEPT
                  ![q.block].ops[q.at].args = Append(@, v)]
  IN  WithOutput(given, q, v, ty)

(* What the body assigns, in order, as far as it is assigned in front. *)
CarriedVars(p, q) ==
  LET assigning == Walk(p)[OpAt(p, q).do]
      all == FlattenSeq([k \in DOMAIN assigning |-> OpAt(p, assigning[k]).outs])
  IN  SelectSeq(all, LAMBDA v : DeclaredBefore(p, q.block, v, q.at) # None)

AddLoopState ==
  /\ Visit("mksa_states") /\ Item.at = None
  /\ CarriedVars(blocks, Item.op) # <<>>
  /\ blocks' = WithState(blocks, Item.op, Head(CarriedVars(blocks, Item.op)),
                         vars_len, vars_len + 1)
  /\ vars_len' = vars_len + 2
  /\ UNCHANGED <<types, decl, passes, todo, errors>>

LeaveLoop ==
  /\ Visit("mksa_states") /\ Item.at = None
  /\ CarriedVars(blocks, Item.op) = <<>>
  /\ todo' = Tail(todo)
  /\ UNCHANGED <<types, blocks, vars_len, decl, passes, errors>>

-----------------------------------------------------------------------------
(* mksa_final: the outputs of an op become new variables, also in what     *)
(* follows in the block and in the outputs of the block.                   *)
WithOwnOutputs(p, q, next) ==
  LET own(r, n) ==
        LET old == OpAt(r, q).outs[n]
            new == next + n - 1
            named == [r EXCEPT ![q.block].ops[q.at].outs[n] = new]
        IN  Rename(named, q.block, FALSE, q.block, q.at + 1, old, new)
  IN  FoldLeft(own, p, [n \in 1 .. Len(OpAt(p, q).outs) |-> n])

OwnOutputs ==
  /\ Visit("mksa_final")
  /\ blocks' = WithOwnOutputs(blocks, Item, vars_len)
  /\ vars_len' = vars_len + Len(OpAt(blocks, Item).outs)
  /\ todo' = Tail(todo)
  /\ UNCHANGED <<types, decl, passes, errors>>

-----------------------------------------------------------------------------
Verify ==
  /\ Current("verify")
  /\ errors' = Errors(blocks, decl, types)
  /\ NextPass
  /\ UNCHANGED <<types, blocks, vars_len, decl>>

EndPass ==
  /\ \/ Current("normalize") /\ Cfors = <<>>
     \/ Current("mksa_states") /\ todo = <<>>
     \/ Current("mksa_final") /\ todo = <<>>
  /\ NextPass
  /\ UNCHANGED <<types, blocks, vars_len, decl, errors>>

Enter(p, registered) ==
  /\ types' = registered /\ blocks' = p /\ vars_len' = 2 /\ decl' = <<>>
  /\ passes' = Compile /\ todo' = <<>> /\ errors' = {}

MakeSsaStep ==
  \/ Fix \/ Normalize \/ JoinBranches \/ LeaveLocal
  \/ AddLoopState \/ LeaveLoop \/ OwnOutputs \/ Verify \/ EndPass

=============================================================================
