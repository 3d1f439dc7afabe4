--------------------------- MODULE MCComparisons ---------------------------
(***************************************************************************)
(* Every comparison of an argument x and constants of two bits, followed   *)
(* by a NOT of its result and by a NOT of that or a second NOT of it.      *)
(***************************************************************************)
EXTENDS Comparisons

CONSTANTS x, o1, o2, o3

MakeOp(id, out, a, b) == [id |-> id, out |-> out, a |-> a, b |-> b]

First == {MakeOp(id, o1, a, b) : id \in CompareId, a \in Imm \cup {x}, b \in Imm \cup {x}}

Not(out, v) == MakeOp("NOT", out, v, None)

Chains(first) ==
  {<<c, Not(o2, o1), Not(o3, v)>> : c \in first, v \in {o1, o2}}

(* The constants have a neighbour where the pass needs one: without it     *)
(* results change (see README).                                            *)
InnerPrograms == Chains({op \in First : HasNeighbour(op)})

=============================================================================
