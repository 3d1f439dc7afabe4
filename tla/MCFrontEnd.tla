----------------------------- MODULE MCFrontEnd -----------------------------
(***************************************************************************)
(* The units on which the front of the compiler is checked.  Left out are  *)
(* functions on which the code is known to go wrong: see README.           *)
(***************************************************************************)
EXTENDS FrontEnd, SsaPrograms

(* Types: variables from 10 on are conditions. *)
int == <<"i", "n", "t">>
bool == <<"b", "o", " ", "l">>
Tys(vs) == Each(vs, LAMBDA v : IF v < 10 THEN int ELSE bool)

Cir(op) == MakeCirOp(op, Tys(op.outs), None, None, None)
C(ops) == Each(ops, Cir)
Ccall(name, v) == [Cir(Scall(v)) EXCEPT !.addr = name]
Cfor(start, cond, endex, do) ==
  MakeCirOp(MakeSsaOp("CFOR", <<>>, None, None, <<>>, None, None, cond, do),
            <<>>, start, endex, None)
Creturn(v) == Cir(Plain("RETURN", <<>>, None, None, <<v>>))
Cuninit(v) == Cir(Simm(v, Uninit))

Body(ops, out) == MakeCirBlock(0, "NULL", <<x, y>>, Tys(<<x, y>>), ops, <<out>>)
In(parent, ops) == MakeCirBlock(parent, "NULL", <<>>, <<>>, ops, <<>>)
Cond(parent, ops, out) == MakeCirBlock(parent, "NULL", <<>>, <<>>, ops, <<out>>)

Type(name, size) == [name |-> name, float |-> FALSE, size |-> size, align |-> size]
Opts(cost, iterations, loops, ifs) ==
  [cost |-> cost, iterations |-> iterations, loops |-> loops, ifs |-> ifs]
Func(name, export, blockss) == [name |-> name, export |-> export, blocks |-> blockss]
Unit(functions) ==
  [target |-> <<"amd64">>, opt |-> Opts(4, 6, TRUE, TRUE),
   types |-> <<Type(int, 4), Type(bool, 1)>>, functions |-> functions]
Single(p) == Unit(<<Func(<<"f">>, TRUE, p)>>)

-----------------------------------------------------------------------------
(* Variables that are assigned again, and read in between. *)
Straight ==
  {<<Body(C(<<Simm(4, a), o, Simm(4, 5), p, Simm(6, 4)>>), out)>> :
     a \in {x, 1}, o \in {Snot(5, 4), Sor(5, 4, y)},
     p \in {Scall(4), Snot(4, 4), Sor(5, 5, 4)}, out \in {4, 5, 6}}

(* A variable that both branches assign, each in its way, before they read *)
(* it.                                                                     *)
Arms == {C(<<Simm(4, x)>>), C(<<Simm(4, 1), Scall(4), Snot(4, 4)>>),
         C(<<Snot(5, y), Simm(4, 5)>>), C(<<Simm(4, x), Snot(11, 4), Simm(4, 11)>>)}

Branches ==
  {<<Body(<<first, Cir(Snot(10, x)), Cir(Sif(<<>>, c, 2, 3))>> \o after, 4), In(1, t), In(1, e)>> :
     first \in {Cuninit(4), Cir(Simm(4, y))}, c \in {x, 10},
     t \in Arms, e \in Arms, after \in {<<>>, C(<<Scall(4), Snot(4, 4)>>)}}

(* Several variables of two types, IFs one after the other, and a branch   *)
(* that returns.                                                           *)
MoreBranches ==
  {<<Body(C(<<Simm(4, 0), Snot(10, y), Sif(<<>>, x, 2, 3), Sor(6, 4, 10),
             Sif(<<>>, 6, 4, 5), Scall(4)>>), 10),
     In(1, C(t)), In(1, C(<<Snot(10, x), Simm(4, y)>>)),
     In(1, C(<<Simm(4, y), Snot(10, 4), Scall(4)>>)), In(1, u)>> :
     t \in {<<Simm(4, 1), Snot(10, 4)>>, <<Sor(10, x, y), Simm(4, 10)>>},
     u \in {C(<<Snot(10, 6), Simm(4, x)>>), C(<<Simm(4, 0), Snot(10, 4)>>) \o <<Creturn(6)>>}}

(* Branches with variables of their own, or without ops. *)
LocalBranches ==
  {<<Body(C(<<Simm(4, x), Sif(<<>>, c, 2, 3), Scall(4)>>), 4),
     In(1, C(<<Snot(5, 4), Scall(5)>>)), In(1, C(o))>> :
     c \in {4, y}, o \in {<<>>, <<Simm(6, 4), Snot(6, 6), Scall(6)>>}}

-----------------------------------------------------------------------------
(* Loops that carry one variable, or two, from round to round; others are  *)
(* only used in a round.                                                   *)
Rounds == {C(<<Scall(4), Snot(4, 4)>>), C(<<Snot(6, 4), Simm(4, 6), Scall(6)>>),
           C(<<Simm(5, 4), Sor(4, 4, y), Snot(4, 5)>>),
           C(<<Simm(6, 5), Snot(5, 4), Simm(4, 6)>>), C(<<Simm(4, 0), Snot(5, 5)>>)}

Loops ==
  {<<Body(C(<<Simm(4, a), Simm(5, y)>>) \o <<While(2, 3)>> \o C(<<Scall(4)>>), out),
     Cond(1, C(c[1]), c[2]), In(1, do)>> :
     a \in {x, 1}, c \in {<< <<>>, 4>>, << <<Sor(10, 4, 5), Snot(11, 10), Snot(10, 11)>>, 10>>},
     do \in Rounds, out \in {4, 5}}

(* for (4 = a; c; end) do, behind another assignment of the variable or    *)
(* not, and with a loop or an IF in it.                                    *)
Fors ==
  {<<Body(before \o <<Cfor(2, 3, 4, 5)>> \o C(<<Scall(4), Simm(4, 5)>>), 4),
     In(1, C(start)), Cond(1, C(<<Snot(10, 4)>>), 10), In(1, C(end)), In(1, C(do))>> :
     before \in {C(<<Simm(5, x)>>), C(<<Simm(4, 0), Snot(5, 4)>>)},
     start \in {<<Simm(4, x)>>, <<Simm(4, 1), Snot(4, 4)>>}, end \in {<<Snot(4, 4)>>, <<Simm(4, 1)>>},
     do \in {<<Scall(5)>>, <<Snot(5, 5), Scall(4)>>, <<Simm(6, 4), Sor(5, 6, 5)>>}}

NestedFors ==
  {<<Body(C(<<Simm(4, x), Simm(5, y)>>) \o <<Cfor(2, 3, 4, 5)>> \o C(<<Scall(5)>>), 4),
     In(1, <<>>), Cond(1, <<>>, 4), In(1, C(<<Simm(4, 0)>>)),
     In(1, <<Cfor(6, 7, 8, 9)>> \o C(<<Scall(6)>>)),
     In(5, C(<<Simm(6, 0)>>)), Cond(5, C(<<Snot(10, 6)>>), 10), In(5, C(<<Simm(6, 1)>>)),
     In(5, C(do))>> :
     do \in {<<Scall(6)>>, <<Snot(5, 5)>>, <<Simm(5, 4), Snot(7, 5), Scall(7)>>}}

(* A loop in whose rounds both branches assign a variable of the round,    *)
(* and an IF behind the loop.                                              *)
BranchInLoop ==
  {<<Body(C(<<Simm(4, x)>>) \o <<While(2, 3)>>
            \o C(<<Simm(6, 0), Sif(<<>>, y, 6, 7), Sor(6, 6, 4)>>), 6),
     Cond(1, <<>>, 4), In(1, C(<<Simm(5, 4), Sif(<<>>, c, 4, 5), Scall(5), Simm(4, v)>>)),
     In(3, C(t)), In(3, C(<<Simm(5, y)>>)), In(1, C(<<Simm(6, 1)>>)), In(1, C(<<Simm(6, y)>>))>> :
     c \in {4, y}, v \in {0, 5}, t \in {<<Simm(5, 0)>>, <<Simm(5, 1), Scall(5), Snot(5, 5)>>}}

Programs ==
  Straight \cup Branches \cup MoreBranches \cup LocalBranches
    \cup Loops \cup Fors \cup NestedFors \cup BranchInLoop

ApiUnits ==
  {Single(p) : p \in Programs}
    \cup {Unit(<<Func(<<"f">>, TRUE, p), Func(<<"g">>, FALSE, q)>>) :
            p \in NestedFors, q \in LocalBranches}

-----------------------------------------------------------------------------
(* Units as text.  A function calls the one of that name. *)
Calling(name) == <<Body(<<Cir(Simm(4, x)), Ccall(name, 4)>>, y)>>

f == <<"f">>
g == <<"g", " ", "g", "(">>

TextUnits ==
  {Unit(<<Func(f, export, Calling(n)), Func(g, ~export, Calling(m))>>) :
     export \in BOOLEAN, n \in {None, f, g}, m \in {None, f, g}}
    \cup {Single(p) : p \in NestedFors \cup LocalBranches \cup MoreBranches}
    \cup {[Unit(<<>>) EXCEPT !.opt = Opts(0, 60, loops, ifs), !.types = tys] :
            loops \in BOOLEAN, ifs \in BOOLEAN, tys \in {<<>>, <<Type(bool, 1)>>}}

(* Units whose text is cut at every place.  (Options come first, then      *)
(* types, then functions, each of which can be the last that is whole.)    *)
CutUnits == {Unit(<<Func(f, TRUE, Calling(None)), Func(g, FALSE, Calling(f))>>)}

(* v = y; if (x) v = 1; else {} *)
OneBranchUnits ==
  {Single(<<Body(C(<<Simm(4, y), Sif(<<>>, x, 2, 3), Scall(4)>>), 4),
            In(1, C(<<Simm(4, 1)>>)), In(1, <<>>)>>)}

=============================================================================
