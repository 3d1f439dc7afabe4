----------------------------- MODULE SsaPrograms -----------------------------
(***************************************************************************)
(* How structured programs are written down where they are checked.        *)
(***************************************************************************)
EXTENDS SsaExec

(* The inputs of a function. *)
x == 2
y == 3

Plain(id, outs, a, b, args) ==
  MakeSsaOp(id, outs, a, b, args, None, None, None, None)
Simm(o, a)     == Plain("IMM", <<o>>, a, None, <<>>)
Snot(o, a)     == Plain("NOT", <<o>>, a, None, <<>>)
Sor(o, a, b)   == Plain("OR", <<o>>, a, b, <<>>)
Scall(v)       == Plain("CALL", <<>>, None, None, <<v>>)
Sbreak(vs)     == Plain("BREAK", <<>>, None, None, vs)
Scontinue(vs)  == Plain("CONTINUE", <<>>, None, None, vs)
Sif(os, c, t, e) == MakeSsaOp("IF", os, c, None, <<>>, t, e, None, None)
Swhile(os, args, c, d) ==
  MakeSsaOp("WHILE", os, None, None, args, None, None, c, d)
Sloop(os, args, d) ==
  MakeSsaOp("INFINITE", os, None, None, args, None, None, None, d)

Function(ops, out) == MakeBlock(0, <<x, y>>, ops, <<out>>)
Branch(parent, ops, outs) == MakeBlock(parent, <<>>, ops, outs)

=============================================================================
