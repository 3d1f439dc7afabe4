------------------------------ MODULE MCSsaOpt ------------------------------
(***************************************************************************)
(* The programs on which the optimiser of the structured form is checked.  *)
(* Left out are those on which the code is known to go wrong: see README.  *)
(***************************************************************************)
EXTENDS SsaOpt, SsaPrograms

Sreturn(v) == Plain("RETURN", <<>>, None, None, <<v>>)

Case(program, ifEval, cmovOpt) ==
  [program |-> program, ifEval |-> ifEval, cmovOpt |-> cmovOpt]

-----------------------------------------------------------------------------
(* One block: copies of copies, constants that fold, computations that are *)
(* made twice, results that are used and not, code after a RETURN.         *)
StraightCases ==
  {Case(<<Function(<<o1, o2, o3>>, out)>>, TRUE, FALSE) :
     o1 \in {Simm(4, x), Simm(4, 1), Snot(4, x), Sor(4, x, y)},
     o2 \in {Simm(5, 4), Snot(5, 4), Snot(5, x), Sor(5, 4, 0), Sreturn(4)},
     o3 \in {Scall(4), Sor(6, x, y), Sor(6, 4, 0), Simm(6, 4)},
     out \in {4, x}}
  \cup
  {Case(<<Function(<<Snot(4, c), Sor(5, 4, d), Snot(6, 5), o>>, out)>>, FALSE, TRUE) :
     c \in {0, 1, x}, d \in {0, 1, 4, y}, o \in {Scall(5), Snot(7, 5)}, out \in {5, 6}}

(* An IF that stays: its branches compute what has been computed around    *)
(* it, pass on what is not theirs, or have an effect.                      *)
BranchBodies(t, u) ==
  {<< <<Snot(t, x)>>, t>>, << <<Simm(t, 4)>>, t>>, << <<>>, 4>>,
   << <<Simm(t, 1), Sor(u, t, 4), Scall(u)>>, u>>,
   << <<Snot(t, x), Scall(t), Snot(u, x)>>, u>>}

BranchCases ==
  {Case(<<Function(<<o, Sif(<<5>>, c, 2, 3), Scall(v)>>, 5),
          Branch(1, t[1], <<t[2]>>), Branch(1, e[1], <<e[2]>>)>>, FALSE, cmov) :
     o \in {Snot(4, x), Simm(4, 1), Simm(4, x)}, c \in {4, y}, v \in {4, 5},
     t \in BranchBodies(6, 7), e \in {<< <<Simm(8, x), Scall(8)>>, 8>>, << <<Snot(8, 4)>>, 8>>},
     cmov \in BOOLEAN}

-----------------------------------------------------------------------------
(* IFs whose condition is known: constants, copies of them, and what folds *)
(* to one.  A branch may return, and both may have results of their own or *)
(* pass on those from outside.                                             *)
KnownConditions ==
  {<< <<>>, 0>>, << <<>>, 1>>, << <<Simm(4, 0)>>, 4>>, << <<Simm(4, 1)>>, 4>>,
   << <<Simm(4, 0), Snot(5, 4)>>, 5>>, << <<Simm(4, 1), Simm(5, 4), Snot(6, 5)>>, 6>>}

KnownIfCases ==
  {Case(<<Function(c[1] \o <<Sif(<<7, 8>>, c[2], 2, 3), Sor(9, 7, 8), Scall(9)>>, out),
          Branch(1, <<Snot(10, x), Scall(10)>> \o t, <<10, y>>),
          Branch(1, e, outs)>>, TRUE, FALSE) :
     c \in KnownConditions, out \in {7, 8},
     t \in {<<>>, <<Sreturn(y)>>},
     e \in {<<Snot(11, y)>>, <<Snot(11, x), Sreturn(11)>>},
     outs \in {<<11, x>>, <<y, 11>>}}

(* IFs in each other, of which the inner one is decided by what is around  *)
(* the outer one, or empty.                                                *)
InnerIfCases ==
  {Case(<<Function(<<Simm(4, c), Sif(<<5>>, d, 2, 3), Scall(5)>>, 5),
          Branch(1, <<Snot(6, x), Sif(<<7>>, 4, 4, 5), Sor(8, 7, y)>>, <<out>>),
          Branch(1, <<Sif(<<>>, y, 6, b)>>, <<x>>),
          Branch(2, <<Scall(6)>>, <<6>>), Branch(2, <<Snot(9, y)>>, <<9>>),
          Branch(3, <<>>, <<>>), Branch(3, <<>>, <<>>)>>, TRUE, FALSE) :
     c \in {0, 1}, d \in {0, 1, 4}, out \in {7, 8}, b \in {7, None}}

(* IFs with one branch. *)
OneBranchCases ==
  {Case(<<Function(<<Sif(<<>>, c, b[1], b[2]), Scall(y)>>, x),
          Branch(1, <<Scall(x)>>, <<>>)>>, TRUE, FALSE) :
     c \in {0, 1}, b \in {<<2, None>>, <<None, 2>>}}

-----------------------------------------------------------------------------
(* Loops: around copies and constants, with results that are used or not,  *)
(* left and continued from a branch that is known or not.                  *)
LoopCases ==
  {Case(<<Function(<<Simm(4, a), Swhile(<<5>>, <<4>>, 2, 3), Scall(v)>>, x),
          MakeBlock(1, <<6>>, cond[1], <<cond[2]>>),
          MakeBlock(1, <<9>>, do[1], <<do[2]>>)>>, TRUE, FALSE) :
     a \in {x, 1}, v \in {5, y},
     cond \in {<< <<>>, 6>>, << <<Snot(7, 6), Snot(8, 7)>>, 8>>, << <<Sor(7, 6, 4)>>, 7>>},
     do \in {<< <<Scall(9), Snot(10, 9)>>, 10>>, << <<Simm(10, 9), Snot(11, 10), Scall(11)>>, 11>>,
             << <<Simm(10, 0), Sor(11, 10, 0), Scall(y)>>, 11>>}}

(* A loop without effect, which is removed when nothing uses its result.   *)
UnusedLoopCases ==
  {Case(<<Function(<<Swhile(<<5>>, <<x>>, 2, 3), Scall(v)>>, y),
          MakeBlock(1, <<6>>, <<>>, <<6>>),
          MakeBlock(1, <<7>>, <<Snot(8, 7)>>, <<8>>)>>, TRUE, FALSE) : v \in {5, y}}

LeaveCases ==
  {Case(<<Function(<<Swhile(<<5>>, <<x>>, 2, 3), Scall(5)>>, 5),
          MakeBlock(1, <<6>>, <<>>, <<6>>),
          MakeBlock(1, <<7>>, <<Snot(8, 7), Sif(<<9>>, c[1], 4, 5), Scall(9)>>, <<9>>),
          Branch(3, t, <<7>>),
          Branch(3, <<Simm(10, 8), Scall(10)>>, <<10>>)>>, c[2], FALSE) :
     c \in {<<0, TRUE>>, <<1, TRUE>>, <<0, FALSE>>, <<7, FALSE>>, <<y, FALSE>>},
     t \in {<<Sbreak(<<8>>)>>, <<Simm(11, y), Scontinue(<<8>>)>>, <<Sreturn(8)>>,
            <<Sbreak(<<8>>), Scall(x)>>}}

EndlessCases ==
  {Case(<<Function(<<Sloop(<<5>>, <<x>>, 2)>>, 5),
          MakeBlock(1, <<6>>, <<Scall(6), Snot(7, 6), Sif(<<>>, 1, 3, 4), Scall(7)>>, <<7>>),
          Branch(2, t, <<>>), Branch(2, <<>>, <<>>)>>, TRUE, FALSE) :
     t \in {<<Sbreak(<<7>>)>>, <<Scall(y)>>, <<Sreturn(7), Scall(y)>>}}

SsaOptCases ==
  StraightCases \cup BranchCases \cup KnownIfCases \cup InnerIfCases \cup OneBranchCases
    \cup LoopCases \cup UnusedLoopCases \cup LeaveCases \cup EndlessCases

(* if (x) call(x) else call(y) *)
UnknownIfCases ==
  {Case(<<Function(<<Sif(<<>>, x, 2, 3)>>, x),
          Branch(1, <<Scall(x)>>, <<>>), Branch(1, <<Scall(y)>>, <<>>)>>, TRUE, FALSE)}

=============================================================================
