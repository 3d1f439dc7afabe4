----------------------------- MODULE MCCodeGen -----------------------------
(***************************************************************************)
(* Functions for the x86 back end.  Those with two parameters keep all in  *)
(* registers, those with six or seven spill.                               *)
(***************************************************************************)
EXTENDS CodeGen

(* Variables: six parameters of 8 bytes and more, two words, two bytes, of *)
(* which the first has the number of a letter that is a condition code.    *)
a == 1
b == 2
s == 7
t == 8
p == 9
q == 10
u == 11
w == 12
c == 97
d == 14

MCVar == (1 .. 12) \cup {c, d}
MCTypeSize == [v \in MCVar |-> CASE v \in {u, w} -> 4 [] v \in {c, d} -> 1 [] OTHER -> 8]
MCArgRegs == <<"RDI", "RSI", "RDX", "RCX", "R8", "R9">>

One(id, o, x)    == MakeOp(id, o, <<x>>, None, "")
Two(id, o, x, y) == MakeOp(id, o, <<x, y>>, None, "")
Iimm(o, x)       == One("IMM", o, x)
Iload(o, x)      == One("LOAD", o, x)
Istore(x, y)     == MakeOp("STORE", None, <<x, y>>, None, "")
Iplace(o, v)     == One("PLACE", o, V(v))
Icall(o, args)   == MakeOp("CALL", o, args, None, "")
Ilabel(l)        == MakeOp("LABEL", None, <<>>, l, "")
Igoto(l)         == MakeOp("GOTO", None, <<>>, l, "")
Icond(x, l)      == MakeOp("COND", None, <<x>>, l, "")
Iret(v)          == MakeOp("RETURN", None, <<V(v)>>, None, "")

(* Every mention of a variable counts once, as outside of loops; a         *)
(* parameter counts even when no op mentions it.                           *)
Function(ins, code) ==
  [ins |-> ins, ops |-> code,
   outs |-> IF \E k \in DOMAIN code : code[k].id = "RETURN" THEN 1 ELSE 0,
   heat |-> [v \in MCVar |->
     Max({IF v \in ToSet(ins) THEN 1 ELSE 0,
          Cardinality({k \in DOMAIN code : Uses(code[k], v)})
          + Cardinality({k \in DOMAIN code : code[k].out = v})})]]

Few == <<a, b>>
Many == <<a, b, 3, 4, 5, 6>>

-----------------------------------------------------------------------------
(* Sums, differences and bitwise operations, computed from each other. *)
SumFunctions ==
  {Function(Few, <<Two(i, t, V(a), x), Two(j, s, V(t), V(b)), Iret(s)>>) :
     i \in {"ADD", "SUB", "MUL"}, j \in {"SUB", "MUL", "BITWISE_OR"}, x \in {V(b), I(3)}}
  \cup {Function(Many, <<Two(i, t, V(a), x), Two("ADD", p, V(t), V(a)), Two(j, s, V(p), V(t)),
                         Iret(s)>>) :
          i \in {"ADD", "BITWISE_AND"}, j \in {"SUB", "MUL"}, x \in {V(b), I(3)}}
  \cup {Function(Few, <<Two(i, s, V(a), V(b)), Two(j, s, V(a), V(s)), Iret(s)>>) :
          i \in {"SDIV", "SMOD"}, j \in {"ADD", "SUB"}}
  \cup {Function(ins, <<Iimm(t, V(a)), Two(i, t, V(t), x), One("BITWISE_NOT", s, V(t)), Iret(s)>>) :
          ins \in {Few, Many}, i \in {"SHL", "SHR", "ASHR"}, x \in {V(b), I(1)}}
  \cup {Function(Many, <<Iimm(p, V(a)), Iimm(q, V(p)), One("BITWISE_NOT", t, V(q)),
                         Two("SUB", s, V(t), V(p)), Iret(s)>>)}

(* Values of other widths. *)
WidthFunctions ==
  {Function(<<c, u>>, <<One(i, t, V(u)), One("BITCAST", w, V(t)), Two("ADD", w, V(w), V(u)),
                        One("ZEROEXT", p, V(c)), One(j, s, V(w)), Two("BITWISE_AND", s, V(s), V(t)),
                        Two("SUB", s, V(s), V(p)), Iret(s)>>) :
     i, j \in {"ZEROEXT", "SIGNEXT"}}

(* Comparisons that are stored, that choose a value or a way, with         *)
(* something between the comparison and its use.                           *)
Between == {<<>>, <<Istore(V(a), V(p))>>, <<Two("ADD", p, V(p), V(b))>>}

CompareFunctions ==
  {Function(Few, <<Two(i, c, V(a), x), One("ZEROEXT", s, V(c)), Iret(s)>>) :
     i \in Compares, x \in {V(b), I(0), I(2)}}
  \cup {Function(ins, <<Two(i, c, I(2), V(b)), One("ZEROEXT", s, V(c)), Iret(s)>>) :
          ins \in {Few, Many}, i \in {"UGT", "SLT"}}
  \cup {Function(ins, <<Iimm(s, V(b)), Iimm(p, I(5)), Two(i, c, V(a), x)>> \o between
                      \o <<Two("CMOV", s, V(c), V(p)), Iret(s)>>) :
          ins \in {Few, Many}, i \in {"ULT", "SLTE"}, x \in {V(b), I(0)}, between \in Between}
  \cup {Function(ins, <<Iimm(p, I(5)), Two(i, c, V(a), V(b))>> \o between
                      \o <<Icond(V(c), 1), Istore(V(b), V(p)), Ilabel(1), Iload(s, V(b)), Iret(s)>>) :
          ins \in {Few, Many}, i \in {"EQ", "SGT"}, between \in Between}
  \cup {Function(<<a, b, c>>, <<Two("UGTE", d, V(a), V(b)), Two(i, c, V(c), V(d)),
                                Iimm(s, V(a)), Two("CMOV", s, V(c), V(b)), Iret(s)>>) :
          i \in {"AND", "OR"}}

(* Loops. *)
LoopFunctions ==
  {Function(ins, <<Iimm(s, V(a)), Ilabel(1), Two("ADD", s, V(s), I(4)), Two(i, c, V(s), V(b)),
                   Icond(V(c), 1), Iret(s)>>) :
     ins \in {Few, Many}, i \in {"ULT", "SLT"}}
  \cup {Function(Many, <<Iimm(p, I(5)), Iimm(q, I(6)), Iimm(s, I(7)), Iimm(t, I(8)),
                         One("BITCAST", w, V(a)), Ilabel(1), Istore(V(a), V(p)), Istore(V(p), V(q)),
                         Istore(V(q), V(s)), Istore(V(s), V(t)), Istore(V(t), V(w)), Igoto(1)>>)}

(* Memory, and variables that are there because their address is taken. *)
MemoryFunctions ==
  {Function(ins, <<MakeOp("LOAD_EA", t, <<V(a), x, I(4)>>, None, ""), Istore(V(t), V(b)),
                   MakeOp("EA", p, <<V(a), x, I(2)>>, None, ""), Iload(s, V(p)),
                   MakeOp("STORE_EA", None, <<V(a), V(b), I(1), V(s)>>, None, ""), Iret(s)>>) :
     ins \in {Few, Many}, x \in {V(b), I(3)}}
  \cup {Function(ins, <<Iimm(q, x), Iplace(p, q), Istore(V(p), V(b)), Iload(t, V(p)),
                        Two("ADD", s, V(q), V(a)), Iret(s)>>) :
          ins \in {Few, Many}, x \in {I(3), Uninit, V(a)}}
  \cup {Function(<<a>>, <<Iimm(q, V(a)), Iplace(p, q), Iload(s, V(p)), Two("ADD", s, V(s), V(a)),
                          Iret(s)>>),
        Function(Few, <<MakeOp("EA", s, <<V(b), V(a), V(b)>>, None, ""), Iret(s)>>),
        Function(Many, <<Iimm(p, V(a)), Iimm(q, V(b)),
                         MakeOp("EA", s, <<V(p), V(q), Absent>>, None, ""), Iret(s)>>)}
  \cup {Function(ins, <<Iplace(p, a), Istore(V(p), V(b)), Iimm(s, V(a)), Iret(s)>>) :
          ins \in {Few, Many, Many \o <<q>>}}

(* Calls, with nothing to keep during one but what has no register. *)
CallFunctions ==
  {Function(ins, <<Icall(t, args), Icall(s, <<V(t)>>), Iret(s)>>) :
     ins \in {Few, <<b, a>>}, args \in {<<V(b)>>, <<V(a), V(b)>>, <<V(b), V(a)>>, <<I(0), V(a)>>}}
  \cup {Function(<<a>>, <<Iimm(q, V(a)), Ilabel(1), Iplace(p, q), Iload(t, V(p)), Icall(None, <<V(t)>>),
                          Igoto(1)>>),
        Function(<<a>>, <<Ilabel(1), Iimm(s, I(3)), Iimm(p, I(4)), Iimm(q, I(5)),
                          Icall(None, <<I(1), I(2), I(0), V(s), V(p), V(q)>>), Igoto(1)>>)}

(* Functions without a RETURN, which end in a call: directly, behind a     *)
(* label, through jumps, with another call or an endless loop of calls     *)
(* where the jump leads.                                                   *)
TailFunctions ==
  {Function(ins, <<Icall(None, args)>>) :
     ins \in {Few, <<b, a>>}, args \in {<<V(b)>>, <<V(a), V(b)>>, <<V(b), V(a)>>}}
  \cup {Function(<<a, b, c>>, <<Icond(V(c), 1), Icall(None, <<V(a)>>)>> \o end) :
          end \in {<<Igoto(2), Ilabel(1), Icall(None, <<V(b)>>), Ilabel(2)>>,
                   <<Igoto(2), Ilabel(1), Icall(s, <<I(1)>>), Ilabel(2), Icall(None, <<I(2)>>)>>,
                   <<Igoto(4), Ilabel(2), Igoto(3), Ilabel(4), Igoto(2), Ilabel(1),
                     Icall(None, <<I(1)>>), Ilabel(3)>>,
                   <<Ilabel(1), Icall(None, <<I(2)>>), Igoto(1)>>}}

MCFunctions ==
  SumFunctions \cup WidthFunctions \cup CompareFunctions \cup LoopFunctions
    \cup MemoryFunctions \cup CallFunctions \cup TailFunctions

-----------------------------------------------------------------------------
(* A conditional move as expansion leaves it: what it falls back on is     *)
(* set between the comparison and the move.                                *)
ElseFunctions ==
  {Function(<<a, b>>, <<Two("ULT", c, V(a), V(b)), Iimm(s, I(n)), Two("CMOV", s, V(c), V(a)), Iret(s)>>) :
     n \in {0, 3}}

=============================================================================
