------------------------------ MODULE MCLlOpt ------------------------------
(***************************************************************************)
(* The programs on which the optimiser of the flat form is checked.  All   *)
(* of them end with a RETURN, as lowering makes them.                      *)
(***************************************************************************)
EXTENDS LlOpt

CONSTANTS x, y, z, la, lb

Imov(o, v)     == MakeOp("IMM", o, None, None, v, None)
Inot(o, v)     == MakeOp("NOT", o, None, None, v, None)
Ior(o, v, w)   == MakeOp("OR", o, None, None, v, w)
Icmov(o, c, t, e) == MakeOp("CMOV", o, None, c, t, e)
Icall(v)       == MakeOp("CALL", None, None, None, v, None)
Ilabel(l)      == MakeOp("LABEL", None, l, None, None, None)
Igoto(l)       == MakeOp("GOTO", None, l, None, None, None)
Icond(l, c)    == MakeOp("COND", None, l, c, None, None)
Iret(v)        == MakeOp("RETURN", None, None, None, v, None)

(* Label names are interchangeable, and so are the values of calls: the    *)
(* first ones mentioned are la and 0.                                      *)
Canonical(p) ==
  \A i \in DOMAIN p :
    /\ p[i].label = lb => \E j \in 1 .. i - 1 : p[j].label = la
    /\ p[i] = Icall(1) => \E j \in 1 .. i - 1 : p[j] = Icall(0)

Bodies(n, ops) == {p \in [1 .. n -> ops] : WellFormed(p) /\ Canonical(p)}

Has(p, ids) == \E i \in DOMAIN p : p[i].id \in ids

(* Control flow: calls to tell places apart, a condition that can change,  *)
(* two labels with every jump to them, forward and backward.               *)
FlowOps ==
  {Icall(0), Icall(1), Inot(x, x), Ilabel(la), Ilabel(lb),
   Igoto(la), Igoto(lb), Icond(la, x), Icond(lb, x)}

FlowPrograms ==
  {Append(p, Iret(x)) : p \in {q \in Bodies(5, FlowOps) : Has(q, {"GOTO", "COND"})}}

(* Data flow: copies between two variables and of an immediate, ops that   *)
(* read and assign the same variable, and one label with a jump to it; and *)
(* conditional moves into a third variable that nothing copies from, so    *)
(* that no CMOV ever reads its own output.  What is computed last is seen. *)
DataOps ==
  {Imov(x, y), Imov(y, x), Imov(y, 1), Inot(x, x), Inot(y, x),
   Icall(y), Ilabel(la), Icond(la, x),
   Icmov(z, x, y, 0), Icmov(z, y, 1, x), Icall(z)}

DataPrograms ==
  {Append(p, Iret(z)) : p \in {q \in Bodies(4, DataOps) :
     Has(q, {"IMM"}) /\ q[4].id \in {"CALL", "COND", "CMOV"}}}

LlOptPrograms == FlowPrograms \cup DataPrograms

(* The proof that passes keep the meaning is about programs like these.    *)
ASSUME SafePrograms == \A p \in Programs : SafeToOptimise(p)

=============================================================================
