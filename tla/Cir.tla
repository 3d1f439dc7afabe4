-------------------------------- MODULE Cir --------------------------------
(***************************************************************************)
(* Functions as a frontend hands them over (CIR): blocks nested in ops,    *)
(* variables that are assigned again, for loops.  This module has what the *)
(* passes that make them single-assignment are built from, the searches    *)
(* (analysis.c) and the renaming (transform.c), and the verifier that      *)
(* looks at their result.                                                  *)
(*                                                                         *)
(* A function is a sequence of blocks as in SsaExec.  Outputs of ops and   *)
(* inputs of blocks have types ("tys", in the same order).  "above" is the *)
(* parent_op of a block: the op it is nested in, NULL (what the reader     *)
(* leaves there), or an op that is gone from its list.                     *)
(***************************************************************************)
EXTENDS SsaExec

CONSTANT
  Uninit  (* the value of a variable that has not been given one *)

ASSUME CirAssumption == Uninit \notin Val \cup {None}

AboveOp == {"op", "NULL", "gone"}

(* An op that also has the start and end blocks of a CFOR and the block a  *)
(* CALL names.                                                             *)
MakeCirOp(op, tys, start, endex, addr) ==
  op @@ [tys |-> tys, start |-> start, endex |-> endex, addr |-> addr]

While(cond, do) ==
  MakeCirOp(MakeSsaOp("WHILE", <<>>, None, None, <<>>, None, None, cond, do),
            <<>>, None, None, None)

MakeCirBlock(parent, above, ins, tys, ops, outs) ==
  MakeBlock(parent, ins, ops, outs) @@ [above |-> above, tys |-> tys]

Place(b, k) == [block |-> b, at |-> k]

Nested(op) ==
  SelectSeq(<<op.then, op.els, op.start, op.cond, op.endex, op.do>>, LAMBDA b : b # None)

-----------------------------------------------------------------------------
(* Searching. *)

(* The ops in block b with those nested in them: an op before what is      *)
(* nested in it.                                                           *)
Walk(p) ==
  LET walk[b \in DOMAIN p] ==
        FlattenSeq([k \in DOMAIN p[b].ops |->
          LET inner == Nested(p[b].ops[k])
          IN  <<Place(b, k)>> \o FlattenSeq([n \in DOMAIN inner |-> walk[inner[n]]])])
  IN  walk

(* The same for the ops of block b from place k to place m. *)
WalkPart(p, b, k, m) ==
  LET walk == Walk(p)
      part(n) == LET inner == Nested(p[b].ops[n])
                 IN  <<Place(b, n)>> \o FlattenSeq([i \in DOMAIN inner |-> walk[inner[i]]])
  IN  FlattenSeq([n \in 1 .. m - k + 1 |-> part(k + n - 1)])

(* The blocks in block b, itself included. *)
BlocksIn(p, b) == {b} \cup UNION {ToSet(Nested(OpAt(p, q))) : q \in ToSet(Walk(p)[b])}

FirstAssigning(p, places, v) ==
  LET found == SelectSeq(places, LAMBDA q : v \in ToSet(OpAt(p, q).outs))
  IN  IF found = <<>> THEN None ELSE Head(found)

(* vx_IrBlock_varDeclRec *)
DeclaredIn(p, b, v) == FirstAssigning(p, Walk(p)[b], v)

(* vx_IrBlock_vardeclOutBefore: the closest op in front of place k of      *)
(* block b that assigns v, itself or in a block nested in it, and then     *)
(* the same in front of the op b is nested in.  Without that op the search *)
(* begins at the last op of the parent; from a removed op nothing is in    *)
(* front.  Inputs of blocks are not looked at.                             *)
DeclaredBefore(p, b, v, k) ==
  LET look[c \in DOMAIN p, n \in Nat] ==
        LET near == {j \in 1 .. n - 1 : FirstAssigning(p, WalkPart(p, c, j, j), v) # None}
            up == p[c].parent
            from == CASE p[c].above = "NULL" -> Len(p[up].ops)
                      [] p[c].above = "gone" -> 0
                      [] OTHER -> CHOOSE j \in DOMAIN p[up].ops : c \in ToSet(Nested(p[up].ops[j]))
        IN  IF near # {} THEN FirstAssigning(p, WalkPart(p, c, Max(near), Max(near)), v)
            ELSE IF up = 0 THEN None
            ELSE look[up, from]
  IN  look[b, k]

(* vx_IrBlock_typeofVar, while the root has no types of its own: an input  *)
(* of a block, or what the first op that assigns v says.                   *)
TypeInFirst(vs, tys, v) == tys[1]  (* faulty variant: of another output *)

TypeIn(vs, tys, v) == tys[CHOOSE n \in DOMAIN vs : vs[n] = v]

TypeOf(p, v) ==
  LET taking == {b \in BlocksIn(p, Root) : v \in ToSet(p[b].ins)}
      b == CHOOSE c \in taking : TRUE
      op == OpAt(p, DeclaredIn(p, Root, v))
  IN  IF taking # {} THEN TypeIn(p[b].ins, p[b].tys, v) ELSE TypeIn(op.outs, op.tys, v)

-----------------------------------------------------------------------------
(* Faulty variant: what blocks hand out keeps its name. *)
RenameInside(p, head, ins, b, k, old, new) ==
  LET reached == ToSet(WalkPart(p, b, k, Len(p[b].ops)))
      in(s) == ReplaceIn(s, old, new)
      one(y) == IF y = old THEN new ELSE y
      renamed(op) == [op EXCEPT !.outs = in(@), !.a = one(@), !.b = one(@), !.args = in(@)]
  IN  [c \in DOMAIN p |->
         [p[c] EXCEPT !.ops = [n \in DOMAIN @ |->
                        IF Place(c, n) \in reached THEN renamed(@[n]) ELSE @[n]]]]

(* vx_IrBlock_renameVar: variable old becomes new in the outputs of block  *)
(* head, also in its inputs if "ins", and in everything in the ops of      *)
(* block b from place k on.  (b is head, unless the caller has hung        *)
(* another list into head.)                                                *)
Rename(p, head, ins, b, k, old, new) ==
  LET reached == ToSet(WalkPart(p, b, k, Len(p[b].ops)))
      below == UNION {ToSet(Nested(OpAt(p, q))) : q \in reached}
      in(s) == ReplaceIn(s, old, new)
      one(y) == IF y = old THEN new ELSE y
      renamed(op) == [op EXCEPT !.outs = in(@), !.a = one(@), !.b = one(@), !.args = in(@)]
  IN  [c \in DOMAIN p |->
         [p[c] EXCEPT
            !.ins  = IF c \in below \/ (c = head /\ ins) THEN in(@) ELSE @,
            !.outs = IF c \in below \cup {head} THEN in(@) ELSE @,
            !.ops  = [n \in DOMAIN @ |->
                        IF Place(c, n) \in reached THEN renamed(@[n]) ELSE @[n]]]]

RenameBlock(p, b, old, new) == Rename(p, b, TRUE, b, 1, old, new)

-----------------------------------------------------------------------------
(* vx_ir_verify: what it finds wrong. *)

(* vx_IrBlock_vardeclIsInIns *)
IsInput(p, b, v) ==
  LET input[c \in DOMAIN p] ==
        v \in ToSet(p[c].ins) \/ (p[c].parent # 0 /\ input[p[c].parent])
  IN  input[b]

IfWrong(p, op) ==
  \/ None \in {op.then, op.els}
  \/ Len(p[op.then].outs) # Len(p[op.els].outs)
  \/ Len(p[op.then].outs) # Len(op.outs)

LoopWrong(p, op) ==
  Len(op.outs) # Len(op.args) \/ op.do = None \/ Len(p[op.do].outs) # Len(op.outs)

(* verify_vardecls_deeptraverse: the outputs of the ops and the inputs of  *)
(* the blocks nested in them.                                              *)
Declarations(p) ==
  LET walk == Walk(p)[Root]
      declared(op) == LET inner == Nested(op)
                      IN  op.outs \o FlattenSeq([n \in DOMAIN inner |-> p[inner[n]].ins])
  IN  FlattenSeq([k \in DOMAIN walk |-> declared(OpAt(p, walk[k]))])

Twice(p, v) == Len(SelectSeq(Declarations(p), LAMBDA w : w = v)) > 1

OpErrors(p, b, op, types) ==
  (IF op.id = "IF" /\ IfWrong(p, op) THEN {"if"} ELSE {})
    \cup (IF op.id \in LoopId /\ LoopWrong(p, op) THEN {"loop"} ELSE {})
    \cup (IF ToSet(op.tys) \subseteq types THEN {} ELSE {"type"})
    \cup (IF \A c \in ToSet(Nested(op)) : p[c].parent = b THEN {} ELSE {"parent"})
    \cup (IF \A v \in VarsRead(op) : DeclaredIn(p, Root, v) # None \/ IsInput(p, b, v)
          THEN {} ELSE {"undeclared"})

(* A variable that the table of declarations has no op for may be assigned *)
(* as often as it likes.                                                   *)
Errors(p, decl, types) ==
  UNION {OpErrors(p, q.block, OpAt(p, q), types) : q \in ToSet(Walk(p)[Root])}
    \cup (IF \E v \in DOMAIN decl : decl[v] # None /\ Twice(p, v) THEN {"twice"} ELSE {})

=============================================================================
