---------------------------- MODULE MCSlotShare ----------------------------
(***************************************************************************)
(* The programs on which the sharing of slots is checked.  Variables are   *)
(* numbers, as in the code: 2 is the parameter, 3 to 5 are local.          *)
(***************************************************************************)
EXTENDS SlotShare

CONSTANTS la, lb, BodyLen

Imov(o, v)    == MakeOp("IMM", o, None, None, v, None)
Inot(o, v)    == MakeOp("NOT", o, None, None, v, None)
Ior(o, v, w)  == MakeOp("OR", o, None, None, v, w)
Icall(v)      == MakeOp("CALL", None, None, None, v, None)
Ilabel(l)     == MakeOp("LABEL", None, l, None, None, None)
Igoto(l)      == MakeOp("GOTO", None, l, None, None, None)
Icond(l, c)   == MakeOp("COND", None, l, c, None, None)
Iret(v)       == MakeOp("RETURN", None, None, None, v, None)

McOneSize == [v \in Var |-> 1]

OneLabel(p) ==
  \A i, j \in DOMAIN p : p[i].id = "LABEL" /\ p[j].id = "LABEL" => i = j

(* Straight-line code and conditionals without an ELSE branch. *)
LinearOps ==
  {Imov(3, 2), Imov(4, 3), Inot(4, 3), Inot(3, 4), Ior(5, 4, 3), Ior(4, 3, 5),
   Icall(3), Icond(la, 2), Ilabel(la)}

LinearPrograms ==
  {p \in {Append(b, Iret(v)) : b \in [1 .. BodyLen -> LinearOps], v \in {3, 5}} :
     SafeToShare(p) /\ OneLabel(p)}

(* A conditional with two branches, as lowering lays it out: a local from  *)
(* before it is used after it, and each branch may have a local of its own.*)
Branch == {<<Icall(0)>>, <<Imov(4, 0), Icall(4)>>, <<Inot(4, 2), Icall(4)>>}

BranchPrograms ==
  {<<Inot(3, 2), Icond(la, 2)>> \o els \o <<Igoto(lb), Ilabel(la)>> \o then
     \o <<Ilabel(lb), Iret(3)>> : els \in Branch, then \in Branch}

=============================================================================
