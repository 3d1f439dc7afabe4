------------------------------ MODULE MCLower ------------------------------
(***************************************************************************)
(* The programs on which lowering is checked: IFs with one and two         *)
(* branches and results, loops that end by their condition and by BREAK    *)
(* and CONTINUE, and both nested in each other.  All pass what they        *)
(* computed to a CALL and return it.                                       *)
(***************************************************************************)
EXTENDS Lower, SsaPrograms

-----------------------------------------------------------------------------
(* Branches with one result, made of the variables t and u: it is computed *)
(* last, is read again, is computed from another, or is not of the branch. *)
Branches(t, u) ==
  {<< <<Snot(t, x)>>, <<t>> >>,
   << <<Snot(t, x), Sor(u, t, y), Scall(u)>>, <<t>> >>,
   << <<Snot(t, y), Sor(u, t, x)>>, <<u>> >>,
   << <<Scall(x)>>, <<y>> >>}

IfPrograms ==
  {<<Function(<<Sif(<<4>>, c, 2, 3), Scall(4)>>, 4),
     Branch(1, t[1], t[2]), Branch(1, e[1], e[2])>> :
       c \in {x, y}, t \in Branches(5, 6), e \in Branches(7, 8)}

(* One branch or none, on a condition that is computed. *)
OneBranchPrograms ==
  {<<Function(<<Snot(4, x), Sif(<<>>, 4, b[1], b[2]), Scall(y)>>, 4),
     Branch(1, <<Sif(<<>>, y, c[1], c[2]), Scall(x)>>, <<>>),
     Branch(2, <<Scall(4)>>, <<>>)>> :
       b \in {<<2, None>>, <<None, 2>>},
       c \in {<<3, None>>, <<None, 3>>, <<None, None>>}}

(* Two results, and a branch in a branch, which reads the result of the    *)
(* outer one.                                                              *)
NestedIfPrograms ==
  {<<Function(<<Sif(<<4, 5>>, x, 2, 3), Scall(4)>>, 5),
     Branch(1, <<Snot(6, y), Snot(7, 6), Sif(<<8>>, y, 4, 5)>>, outs),
     Branch(1, <<>>, <<y, x>>),
     Branch(2, <<Sor(9, v, x)>>, <<9>>),
     Branch(2, <<Snot(10, x)>>, <<w>>)>> :
       outs \in {<<6, 7>>, <<7, 6>>, <<7, 8>>, <<8, y>>},
       v \in {6, 7}, w \in {10, 7}}

-----------------------------------------------------------------------------
(* A loop block computes its states' next values after everything that     *)
(* reads a state: the output of the block is renamed to the state when it  *)
(* has been written.                                                       *)
WhilePrograms ==
  {<<Function(<<Swhile(<<4>>, <<arg>>, 2, 3), Scall(4)>>, 4),
     MakeBlock(1, <<5>>, <<Sor(6, 5, z)>>, <<6>>),
     MakeBlock(1, <<7>>, ops, <<8>>)>> :
       arg \in {x, 1}, z \in {0, y},
       ops \in {<<Scall(7), Snot(8, 7)>>,
                <<Snot(8, 7), Sor(9, 8, y), Scall(9)>>,
                <<Snot(9, 7), Sor(8, 9, 0)>>}}

(* Two states, of which the second may stay what it is. *)
TwoStatePrograms ==
  {<<Function(<<Swhile(<<4, 5>>, <<x, y>>, 2, 3), Scall(5)>>, 4),
     MakeBlock(1, <<6, 7>>, <<>>, <<6>>),
     MakeBlock(1, <<8, 9>>, <<Scall(9), Sor(11, 8, 9), Snot(10, 8)>>, outs)>> :
       outs \in {<<10, 11>>, <<10, 9>>}}

(* A loop that is left and continued from a branch of an IF, which has as  *)
(* many outputs as the loop has states.                                    *)
LeavePrograms ==
  {<<Function(<<Sloop(<<4>>, <<x>>, 2), Scall(4)>>, 4),
     MakeBlock(1, <<5>>, <<Snot(6, 5), Sif(<<7>>, c, 3, 4), Scall(y)>>, <<7>>),
     Branch(2, t, <<5>>),
     Branch(2, <<Sor(8, 6, y)>>, <<8>>)>> :
       c \in {5, 6, y},
       t \in {<<Sbreak(<<5>>)>>, <<Sbreak(<<6>>)>>, <<Scontinue(<<6>>)>>,
              <<Sbreak(<<y>>), Scall(x)>>}}

(* A loop in a loop, whose result is the next state of the outer one, and  *)
(* a loop in a branch.                                                     *)
NestedLoopPrograms ==
  {<<Function(<<Swhile(<<4>>, <<x>>, 2, 3), Scall(4)>>, 4),
     MakeBlock(1, <<5>>, <<>>, <<5>>),
     MakeBlock(1, <<6>>, <<Scall(6), Swhile(<<7>>, <<arg>>, 4, 5)>>, <<7>>),
     MakeBlock(3, <<8>>, <<Sor(9, 8, z)>>, <<9>>),
     MakeBlock(3, <<10>>, <<Scall(10), Snot(11, 10)>>, <<11>>)>> :
       arg \in {6, y}, z \in {0, y}}
  \cup
  {<<Function(<<Sif(<<4>>, y, b[1], b[2]), Scall(4)>>, 4),
     Branch(1, <<Swhile(<<5>>, <<x>>, 4, 5)>>, <<5>>),
     Branch(1, <<Snot(6, x)>>, <<6>>),
     MakeBlock(2, <<7>>, <<>>, <<7>>),
     MakeBlock(2, <<8>>, <<Scall(8), Snot(9, 8)>>, <<9>>)>> :
       b \in {<<2, 3>>, <<3, 2>>}}

(* Loops in each other that are both left by BREAK, the inner one or both  *)
(* also by CONTINUE.                                                       *)
NestedLeavePrograms ==
  {<<Function(<<Sloop(<<4>>, <<x>>, 2), Scall(4)>>, 4),
     MakeBlock(1, <<5>>, <<Sloop(<<6>>, <<5>>, 3), Snot(7, 6),
                           Sif(<<8>>, 6, 4, 5)>>, <<8>>),
     MakeBlock(2, <<9>>, <<Scall(9), Snot(10, 9), Sif(<<11>>, c, 6, 7)>>, <<11>>),
     Branch(2, <<Sbreak(<<7>>)>>, <<5>>),
     Branch(2, e, <<y>>),
     Branch(3, <<Sbreak(<<10>>)>>, <<9>>),
     Branch(3, i, <<10>>)>> :
       c \in {9, y}, e \in {<<>>, <<Scontinue(<<1>>)>>},
       i \in {<<>>, <<Scall(y), Scontinue(<<10>>)>>}}

LoweredPrograms ==
  IfPrograms \cup OneBranchPrograms \cup NestedIfPrograms \cup WhilePrograms
    \cup TwoStatePrograms \cup LeavePrograms \cup NestedLoopPrograms
    \cup NestedLeavePrograms

=============================================================================
