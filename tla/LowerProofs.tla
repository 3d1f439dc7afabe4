----------------------------- MODULE LowerProofs -----------------------------
(***************************************************************************)
(* Proofs about lowering, for every program that is well formed.           *)
(***************************************************************************)
EXTENDS Lower, FiniteSetTheorems, WellFoundedInduction, TLAPS

BranchRole == {"els", "then", "only"}

FrameType ==
  [role : BranchRole \cup {"root", "loop"}, block : Nat, at : Nat, jump : Nat,
   used : SUBSET Nat, cont : Label \cup {None}, brk : Label \cup {None},
   states : Seq(Var)]

DeclaredIn(code, l) == {k \in DOMAIN code : code[k].id = "LABEL" /\ code[k].label = l}

(* A label is declared once, and labels are numbered as they are made. *)
LabelsNew ==
  /\ \A k \in DOMAIN dest : dest[k].id = "LABEL" =>
       dest[k].label \in Label /\ dest[k].label < nextLabel
  /\ \A j, k \in DOMAIN dest :
       dest[j].id = "LABEL" /\ dest[k].id = "LABEL" /\ dest[j].label = dest[k].label => j = k

OpenLoops == {d \in DOMAIN stack : stack[d].role = "loop"}

(* The label for the breaks of an open loop has been made, but is not      *)
(* declared yet, and is of that loop only.                                 *)
BreaksOpen ==
  /\ \A d \in OpenLoops :
       /\ stack[d].brk \in Label /\ stack[d].brk < nextLabel
       /\ DeclaredIn(dest, stack[d].brk) = {}
  /\ \A d, e \in OpenLoops : stack[d].brk = stack[e].brk => d = e

(* A jump has a label that is declared or will be at the end of a loop, or *)
(* is to get one at the end of a branch.                                   *)
JumpsLead ==
  \A k \in DOMAIN dest : IsJump(dest[k]) =>
    IF dest[k].label = None THEN \E d \in DOMAIN stack : stack[d].jump = k
    ELSE \/ DeclaredIn(dest, dest[k].label) # {}
         \/ \E d \in OpenLoops : stack[d].brk = dest[k].label

(* The frame at depth d is of a block nested in the op that the frame      *)
(* below stands at.                                                        *)
FrameNested(d) ==
  LET f == stack[d]
      op == OpAt(blocks, stack[d - 1])
  IN  /\ stack[d - 1].at \in DOMAIN blocks[stack[d - 1].block].ops
      /\ f.block \in BlocksOf(op)
      /\ f.role \in BranchRole => op.id = "IF" /\ f.used \subseteq DOMAIN op.outs
      /\ f.role = "els" => op.then # None
      /\ f.role = "loop" => op.id = "INFINITE"

(* What it keeps: the jump that waits for a label, and the labels of the   *)
(* loop around.                                                            *)
FrameKeeps(d) ==
  LET f == stack[d]
  IN  /\ f.block \in DOMAIN blocks /\ f.at > 0
      /\ f.used \subseteq DOMAIN blocks[f.block].outs
      /\ f.role \in BranchRole => f.jump \in DOMAIN dest /\ IsJump(dest[f.jump])
      /\ f.role \notin BranchRole => f.jump = 0
      /\ f.role = "loop" => f.cont # None /\ Len(f.states) = Len(blocks[f.block].outs)
      /\ f.cont # None => DeclaredIn(dest, f.cont) # {}
      /\ f.brk # None => \E e \in OpenLoops : e <= d /\ stack[e].brk = f.brk

Frames ==
  /\ stack \in Seq(FrameType)
  /\ \A d \in DOMAIN stack :
       /\ FrameKeeps(d)
       /\ IF d = 1 THEN stack[d].role = "root" /\ stack[d].block = Root
          ELSE stack[d].role # "root" /\ FrameNested(d)

(* Whoever may leave a loop knows its labels. *)
LoopsKnown(loops) ==
  \A d \in DOMAIN stack : stack[d].block \in loops => stack[d].cont # None /\ stack[d].brk # None

DeclsRight ==
  /\ decl \in [Var -> [block : Nat, at : Nat]]
  /\ \A v \in Var : decl[v] # NoDecl =>
       decl[v].block \in DOMAIN blocks /\ decl[v].at \in DOMAIN blocks[decl[v].block].ops

Tables ==
  /\ phase \in {"loops", "swap", "ifs", "lower", "done"} /\ turned \subseteq Var
  /\ dest \in Seq(Op)
  /\ DeclsRight
  /\ nextVar \in Nat /\ nextVar - 1 \in Var
  /\ nextLabel \in Nat \ {0} /\ nextLabel - 1 \in Label \cup {1}

LowerInv ==
  /\ Tables /\ Structured(blocks)
  /\ LabelsNew /\ BreaksOpen /\ JumpsLead /\ Frames
  /\ phase \in {"loops", "swap", "ifs"} => dest = <<>>
  /\ phase # "lower" => stack = <<>>
  /\ phase = "lower" => stack # <<>>
  /\ \E loops \in SUBSET (DOMAIN blocks \ {Root}) :
       LeavesWithin(blocks, loops) /\ LoopsKnown(loops)

-----------------------------------------------------------------------------
(* Repeating a step, as the functions of the model do that are defined by  *)
(* recursion over the number of rounds.                                    *)

Rounds(h, N, base, step) ==
  h = [n \in 0 .. N |-> IF n = 0 THEN base ELSE step[<<h[n - 1], n>>]]

LEMMA RoundsExist ==
  ASSUME NEW N \in Nat, NEW S, NEW base \in S, NEW step \in [S \X (1 .. N) -> S]
  PROVE  \E h \in [0 .. N -> S] : Rounds(h, N, base, step)
<1> DEFINE Run(m, h) == /\ h \in [0 .. m -> S]
                        /\ h = [n \in 0 .. m |-> IF n = 0 THEN base ELSE step[<<h[n - 1], n>>]]
           Bad == {m \in 0 .. N : ~ \E h : Run(m, h)}
           R == {ss \in Nat \X Nat : ss[1] < ss[2]}
<1>1. SUFFICES ASSUME Bad # {} PROVE FALSE
  <2>1. \A h : Run(N, h) => h \in [0 .. N -> S] /\ Rounds(h, N, base, step)
    BY DEF Rounds
  <2>2. N \in Bad \/ \E h : Run(N, h)
    <3> HIDE DEF Run
    <3> QED OBVIOUS
  <2> HIDE DEF Run, Bad
  <2> QED BY <2>1, <2>2
<1>2. PICK m \in Bad : \A k \in Bad : ~ (<<k, m>> \in R)
  <2>1. IsWellFoundedOn(R, Nat)
    BY NatLessThanWellFounded DEF OpToRel
  <2>2. Bad \subseteq Nat
    OBVIOUS
  <2> HIDE DEF R, Bad
  <2> QED BY <1>1, <2>1, <2>2, WFMin
<1>3. m # 0
  <2>1. Run(0, [n \in 0 .. 0 |-> base])
    OBVIOUS
  <2> HIDE DEF Run
  <2> QED BY <2>1
<1>4. m - 1 \in 0 .. N /\ <<m - 1, m>> \in R /\ m \in 1 .. N
  BY <1>3
<1>5. PICK g : Run(m - 1, g)
  <2> HIDE DEF R, Run
  <2> QED BY <1>2, <1>4
<1> DEFINE h == [n \in 0 .. m |-> IF n = m THEN step[<<g[m - 1], m>>] ELSE g[n]]
<1>6. h \in [0 .. m -> S]
  <2>1. g[m - 1] \in S
    BY <1>4, <1>5
  <2>2. <<g[m - 1], m>> \in S \X (1 .. N)
    BY <2>1, <1>4
  <2>3. step[<<g[m - 1], m>>] \in S
    BY <2>2
  <2> QED BY <2>3, <1>4, <1>5
<1>7. \A n \in 0 .. m : h[n] = IF n = 0 THEN base ELSE step[<<h[n - 1], n>>]
  <2> SUFFICES ASSUME NEW n \in 0 .. m
               PROVE  h[n] = IF n = 0 THEN base ELSE step[<<h[n - 1], n>>]
    OBVIOUS
  <2>1. CASE n = m
    <3>1. m - 1 \in 0 .. m /\ m - 1 # m /\ n # 0
      BY <1>3, <2>1
    <3>2. h[m - 1] = g[m - 1] /\ h[n] = step[<<g[m - 1], m>>]
      BY <3>1, <2>1
    <3> HIDE DEF h
    <3> QED BY <3>1, <3>2, <2>1
  <2>2. CASE n # m
    <3>1. n \in 0 .. m - 1 /\ (n # 0 => n - 1 \in 0 .. m /\ n - 1 # m)
      BY <2>2, <1>4
    <3>2. g[n] = IF n = 0 THEN base ELSE step[<<g[n - 1], n>>]
      BY <3>1, <1>5
    <3>3. h[n] = g[n] /\ (n # 0 => h[n - 1] = g[n - 1])
      BY <3>1, <2>2
    <3> HIDE DEF h
    <3> QED BY <3>2, <3>3
  <2> QED BY <2>1, <2>2
<1>8. Run(m, h)
  <2>1. h = [n \in 0 .. m |-> h[n]]
    OBVIOUS
  <2> HIDE DEF h
  <2> QED BY <1>6, <1>7, <2>1
<1> QED
  <2> HIDE DEF h, Run
  <2> QED BY <1>8

LEMMA RoundsStay ==
  ASSUME NEW N \in Nat, NEW S, NEW f, f[0] \in S,
         \A n \in 1 .. N : f[n - 1] \in S => f[n] \in S
  PROVE  f[N] \in S
<1> DEFINE Bad == {m \in 0 .. N : f[m] \notin S}
           R == {ss \in Nat \X Nat : ss[1] < ss[2]}
<1>1. SUFFICES ASSUME Bad # {} PROVE FALSE
  OBVIOUS
<1>2. PICK m \in Bad : \A k \in Bad : ~ (<<k, m>> \in R)
  <2>1. IsWellFoundedOn(R, Nat)
    BY NatLessThanWellFounded DEF OpToRel
  <2>2. Bad \subseteq Nat
    OBVIOUS
  <2> HIDE DEF R, Bad
  <2> QED BY <1>1, <2>1, <2>2, WFMin
<1>3. m \in 1 .. N /\ m - 1 \in 0 .. N /\ <<m - 1, m>> \in R
  OBVIOUS
<1>4. f[m - 1] \in S
  <2> HIDE DEF R
  <2> QED BY <1>2, <1>3
<1> QED BY <1>3, <1>4

-----------------------------------------------------------------------------
(* What is written. *)

LEMMA OpsWritten ==
  ASSUME NEW id \in OpId, NEW label \in Label \cup {None}, NEW cond \in Val \cup {None},
         NEW out \in Var \cup {None}, NEW a \in Val \cup {None}, NEW b \in Val \cup {None}
  PROVE  /\ MakeOp(id, out, label, cond, a, b) \in Op
         /\ Jump(id, label, cond) \in Op
         /\ Jump(id, label, cond).id = id /\ Jump(id, label, cond).label = label
         /\ MakeOp(id, out, label, cond, a, b).id = id
BY DEF Jump, MakeOp, Op

(* Copies of known values are ops. *)
Copies == {s \in Seq(Op) : \A k \in DOMAIN s : s[k].id = "IMM"}

LEMMA MovesAreCopies ==
  ASSUME NEW outs \in Seq(Var), NEW values, NEW which,
         \A n \in (DOMAIN outs) \cap which : values[n] \in Val
  PROVE  Moves(outs, values, which) \in Copies
<1> DEFINE N == Len(outs)
           e(s, n) == IF n \in which THEN Append(s, MoveOp(outs[n], values[n])) ELSE s
           step == [sn \in Copies \X (1 .. N) |-> e(sn[1], sn[2])]
           body(g) == [n \in 0 .. N |-> IF n = 0 THEN <<>> ELSE e(g[n - 1], n)]
           f == CHOOSE g : g = body(g)
<1>1. N \in Nat /\ DOMAIN outs = 1 .. N /\ <<>> \in Copies
  BY DEF Copies
<1>2. ASSUME NEW s \in Copies, NEW n \in 1 .. N
      PROVE  e(s, n) \in Copies
  <2>1. CASE n \in which
    <3> DEFINE op == MoveOp(outs[n], values[n])
    <3>1. op \in Op /\ op.id = "IMM"
      <4>1. outs[n] \in Var /\ values[n] \in Val
        BY <1>1, <2>1
      <4> QED BY <4>1 DEF MoveOp, MakeOp, Op, OpId
    <3> HIDE DEF op
    <3>2. s \in Seq(Op) /\ \A k \in DOMAIN s : s[k].id = "IMM"
      BY DEF Copies
    <3>3. Append(s, op) \in Seq(Op) /\ \A k \in DOMAIN Append(s, op) : Append(s, op)[k].id = "IMM"
      BY <3>1, <3>2
    <3>4. Append(s, op) \in Copies
      BY <3>3 DEF Copies
    <3> QED BY <3>4, <2>1 DEF op
  <2> QED BY <2>1
<1>3. step \in [Copies \X (1 .. N) -> Copies]
  <2> HIDE DEF e
  <2> QED BY <1>2
<1>4. PICK h \in [0 .. N -> Copies] : Rounds(h, N, <<>>, step)
  <2> HIDE DEF step, N
  <2> QED BY <1>1, <1>3, RoundsExist
<1>5. \A n \in 1 .. N : <<h[n - 1], n>> \in Copies \X (1 .. N)
  <2> HIDE DEF N
  <2> QED BY <1>1
<1>6. \A n \in 1 .. N : step[<<h[n - 1], n>>] = e(h[n - 1], n)
  <2> HIDE DEF e
  <2> QED BY <1>5
<1>7. h = body(h)
  <2>1. h = [n \in 0 .. N |-> h[n]]
    OBVIOUS
  <2>2. \A n \in 0 .. N : h[n] = IF n = 0 THEN <<>> ELSE step[<<h[n - 1], n>>]
    <3> HIDE DEF step, N
    <3> QED BY <1>4 DEF Rounds
  <2>3. \A n \in 0 .. N : h[n] = IF n = 0 THEN <<>> ELSE e(h[n - 1], n)
    <3> SUFFICES ASSUME NEW n \in 0 .. N
                 PROVE  h[n] = IF n = 0 THEN <<>> ELSE e(h[n - 1], n)
      OBVIOUS
    <3>1. CASE n = 0
      BY <2>2, <3>1
    <3>2. CASE n # 0
      <4>1. n \in 1 .. N
        <5> HIDE DEF N
        <5> QED BY <1>1, <3>2
      <4> HIDE DEF step, e, N
      <4> QED BY <1>6, <2>2, <3>2, <4>1
    <3> QED BY <3>1, <3>2
  <2>4. body(h) = [n \in 0 .. N |-> IF n = 0 THEN <<>> ELSE e(h[n - 1], n)]
    <3> HIDE DEF e, N
    <3> QED OBVIOUS
  <2> HIDE DEF body, N, e
  <2> QED BY <2>1, <2>3, <2>4
<1>8. f = body(f)
  <2>1. f = CHOOSE g : g = body(g)
    OBVIOUS
  <2> HIDE DEF body, f
  <2> QED BY <1>7, <2>1
<1>9. f[0] = <<>> /\ \A n \in 1 .. N : f[n] = e(f[n - 1], n)
  <2> HIDE DEF f, e
  <2> QED BY <1>1, <1>8
<1>10. f[N] \in Copies
  <2> HIDE DEF f, e, N
  <2>1. \A n \in 1 .. N : f[n - 1] \in Copies => f[n] \in Copies
    <3> SUFFICES ASSUME NEW n \in 1 .. N, f[n - 1] \in Copies
                 PROVE  f[n] \in Copies
      OBVIOUS
    <3> QED BY <1>2, <1>9
  <2>2. f[0] \in Copies /\ N \in Nat
    BY <1>1, <1>9
  <2> HIDE DEF Copies
  <2> QED BY <2>1, <2>2, RoundsStay
<1> QED BY <1>10 DEF Moves

-----------------------------------------------------------------------------
(* Renaming does not change the shape of a program.                        *)

SameOp(op, new) ==
  /\ new.id = op.id
  /\ Len(new.outs) = Len(op.outs) /\ Len(new.args) = Len(op.args)
  /\ new.then = op.then /\ new.els = op.els /\ new.cond = op.cond /\ new.do = op.do

SameBlock(b, c) ==
  /\ Len(c.ins) = Len(b.ins) /\ Len(c.outs) = Len(b.outs)
  /\ DOMAIN c.ops = DOMAIN b.ops
  /\ \A k \in DOMAIN b.ops : SameOp(b.ops[k], c.ops[k])

SameShape(p, q) ==
  /\ DOMAIN q = DOMAIN p
  /\ \A b \in DOMAIN p : SameBlock(p[b], q[b])

Shaped(p) == {q \in Seq(SsaBlock) : SameShape(p, q)}

LEMMA SameBlocks ==
  ASSUME NEW op, NEW new, SameOp(op, new)
  PROVE  BlocksOf(new) = BlocksOf(op)
BY DEF SameOp, BlocksOf

LEMMA ShapeReflexive ==
  ASSUME NEW p \in Seq(SsaBlock)
  PROVE  p \in Shaped(p)
BY DEF Shaped, SameShape, SameBlock, SameOp

LEMMA ShapeTransitive ==
  ASSUME NEW p, NEW q, NEW r, SameShape(p, q), SameShape(q, r)
  PROVE  SameShape(p, r)
<1>1. DOMAIN r = DOMAIN p
  BY DEF SameShape
<1>2. ASSUME NEW b \in DOMAIN p PROVE SameBlock(p[b], r[b])
  <2>1. SameBlock(p[b], q[b]) /\ SameBlock(q[b], r[b])
    BY DEF SameShape
  <2> QED BY <2>1 DEF SameBlock, SameOp
<1> QED BY <1>1, <1>2 DEF SameShape

LEMMA BlockFields ==
  ASSUME NEW p \in Seq(SsaBlock), NEW b \in DOMAIN p
  PROVE  /\ p[b] \in SsaBlock
         /\ p[b].parent \in Nat /\ p[b].ins \in Seq(Var) /\ p[b].outs \in Seq(Var)
         /\ p[b].ops \in Seq(SsaOp)
         /\ b \in Nat \ {0} /\ b \in 1 .. Len(p)
<1>1. p[b] \in SsaBlock /\ b \in 1 .. Len(p)
  OBVIOUS
<1> QED BY <1>1 DEF SsaBlock

LEMMA OpFields ==
  ASSUME NEW op \in SsaOp
  PROVE  /\ op.id \in SsaOpId /\ op.outs \in Seq(Var) /\ op.args \in Seq(Val)
         /\ op.a \in Val \cup {None} /\ op.b \in Val \cup {None}
         /\ op.then \in Nat \cup {None} /\ op.els \in Nat \cup {None}
         /\ op.cond \in Nat \cup {None} /\ op.do \in Nat \cup {None}
BY DEF SsaOp

LEMMA OpsOfBlocks ==
  ASSUME NEW p \in Seq(SsaBlock), NEW b \in DOMAIN p, NEW k \in DOMAIN p[b].ops
  PROVE  p[b].ops[k] \in SsaOp /\ k \in Nat \ {0} /\ k \in 1 .. Len(p[b].ops)
<1>1. p[b].ops \in Seq(SsaOp)
  BY BlockFields
<1> QED BY <1>1

LEMMA ShapeKeepsLowerable ==
  ASSUME NEW p \in Seq(SsaBlock), NEW q \in Seq(SsaBlock), SameShape(p, q),
         NEW b \in DOMAIN p, NEW k \in DOMAIN p[b].ops, Lowerable(p, b, p[b].ops[k])
  PROVE  Lowerable(q, b, q[b].ops[k])
<1> DEFINE op == p[b].ops[k]
           new == q[b].ops[k]
<1>1. SameOp(op, new) /\ BlocksOf(new) = BlocksOf(op)
  BY SameBlocks DEF SameShape, SameBlock
<1>2. DOMAIN q = DOMAIN p /\ \A c \in DOMAIN p : SameBlock(p[c], q[c])
  BY DEF SameShape
<1>3. \A c \in DOMAIN p : /\ Len(q[c].outs) = Len(p[c].outs) /\ Len(q[c].ins) = Len(p[c].ins)
                         /\ DOMAIN q[c].ops = DOMAIN p[c].ops
                         /\ \A j \in DOMAIN p[c].ops : q[c].ops[j].id = p[c].ops[j].id
  BY <1>2 DEF SameBlock, SameOp
<1>4. \A c \in DOMAIN p : p[c].outs # <<>> => q[c].outs # <<>>
  <2>1. \A c \in DOMAIN p : p[c].outs \in Seq(Var) /\ q[c].outs \in Seq(Var)
    BY <1>2, BlockFields
  <2> QED BY <2>1, <1>3
<1>5. Len(new.outs) = Len(op.outs) /\ Len(new.args) = Len(op.args) /\ new.id = op.id
      /\ new.cond = op.cond /\ new.do = op.do
  BY <1>1 DEF SameOp
<1>13. new.then = op.then /\ new.els = op.els
  BY <1>1 DEF SameOp
<1>6. Lowerable(p, b, op)
  OBVIOUS
<1> HIDE DEF op, new
<1>7. BlocksOf(op) \subseteq DOMAIN p \ {Root, b}
  BY <1>6 DEF Lowerable
<1>8. new.id = "IF" => \A c \in BlocksOf(new) : Len(q[c].outs) = Len(new.outs)
  BY <1>1, <1>3, <1>5, <1>6, <1>7 DEF Lowerable
<1>9. new.id \in LoopId =>
       /\ new.do \in DOMAIN q /\ new.then = None /\ new.els = None
       /\ Len(new.args) = Len(new.outs)
       /\ Len(q[new.do].ins) = Len(new.outs) /\ Len(q[new.do].outs) = Len(new.outs)
  BY <1>2, <1>3, <1>5, <1>6, <1>13 DEF Lowerable
<1>10. new.id = "WHILE" =>
       /\ new.cond \in DOMAIN q \ {new.do}
       /\ Len(q[new.cond].ins) = Len(new.outs) /\ q[new.cond].outs # <<>>
       /\ \A j \in DOMAIN q[new.cond].ops : q[new.cond].ops[j].id \notin LeaveId
  <2> SUFFICES ASSUME op.id = "WHILE"
               PROVE  /\ op.cond \in DOMAIN p \ {op.do}
                      /\ Len(p[op.cond].ins) = Len(op.outs) /\ p[op.cond].outs # <<>>
                      /\ \A j \in DOMAIN p[op.cond].ops : p[op.cond].ops[j].id \notin LeaveId
    <3> SUFFICES ASSUME op.cond \in DOMAIN p \ {op.do},
                        Len(p[op.cond].ins) = Len(op.outs), p[op.cond].outs # <<>>,
                        \A j \in DOMAIN p[op.cond].ops : p[op.cond].ops[j].id \notin LeaveId
                 PROVE  /\ new.cond \in DOMAIN q \ {new.do}
                        /\ Len(q[new.cond].ins) = Len(new.outs) /\ q[new.cond].outs # <<>>
                        /\ \A j \in DOMAIN q[new.cond].ops : q[new.cond].ops[j].id \notin LeaveId
      BY <1>5
    <3>1. new.cond \in DOMAIN q \ {new.do}
      BY <1>2, <1>5
    <3>2. Len(q[new.cond].ins) = Len(new.outs)
      BY <1>3, <1>5
    <3>3. q[new.cond].outs # <<>>
      BY <1>4, <1>5
    <3>4. \A j \in DOMAIN q[new.cond].ops : q[new.cond].ops[j].id \notin LeaveId
      BY <1>3, <1>5, ZenonT(60)
    <3> QED BY <3>1, <3>2, <3>3, <3>4
  <2> QED BY <1>6 DEF Lowerable
<1>11. new.id \in LeaveId => Len(new.args) >= Len(q[b].outs)
  BY <1>3, <1>5, <1>6 DEF Lowerable
<1>12. Lowerable(q, b, new)
  BY <1>1, <1>2, <1>7, <1>8, <1>9, <1>10, <1>11 DEF Lowerable
<1> QED BY <1>12 DEF new

LEMMA ShapeKeepsStructure ==
  ASSUME NEW p, Structured(p), NEW q \in Shaped(p)
  PROVE  /\ Structured(q)
         /\ \A loops : LeavesWithin(p, loops) => LeavesWithin(q, loops)
<1>1. p \in Seq(SsaBlock) /\ q \in Seq(SsaBlock) /\ SameShape(p, q)
  BY DEF Structured, Shaped
<1>2. DOMAIN q = DOMAIN p /\ \A b \in DOMAIN p : DOMAIN q[b].ops = DOMAIN p[b].ops
  BY <1>1 DEF SameShape, SameBlock
<1>3. ASSUME NEW b \in DOMAIN p, NEW k \in DOMAIN p[b].ops
      PROVE  /\ q[b].ops[k].id = p[b].ops[k].id
             /\ BlocksOf(q[b].ops[k]) = BlocksOf(p[b].ops[k])
  <2>1. SameOp(p[b].ops[k], q[b].ops[k])
    BY <1>1 DEF SameShape, SameBlock
  <2> QED BY <2>1, SameBlocks DEF SameOp
<1>4. Root \in DOMAIN q /\ q[Root].outs # <<>>
  <2>1. Root \in DOMAIN p /\ p[Root].outs # <<>>
    BY DEF Structured
  <2>2. Len(q[Root].outs) = Len(p[Root].outs)
    BY <1>1, <2>1 DEF SameShape, SameBlock
  <2>3. p[Root].outs \in Seq(Var) /\ q[Root].outs \in Seq(Var)
    BY <1>1, <1>2, <2>1, BlockFields
  <2> QED BY <1>2, <2>1, <2>2, <2>3
<1>5. \A b \in DOMAIN q : \A k \in DOMAIN q[b].ops : Lowerable(q, b, q[b].ops[k])
  BY <1>1, <1>2, ShapeKeepsLowerable DEF Structured
<1>6. NestedOnce(q)
  <2> SUFFICES ASSUME NEW b \in DOMAIN p, NEW c \in DOMAIN p,
                      NEW k \in DOMAIN p[b].ops, NEW j \in DOMAIN p[c].ops,
                      BlocksOf(q[b].ops[k]) \cap BlocksOf(q[c].ops[j]) # {}
               PROVE  b = c /\ k = j
    BY <1>2 DEF NestedOnce
  <2>1. BlocksOf(p[b].ops[k]) \cap BlocksOf(p[c].ops[j]) # {}
    BY <1>3
  <2> QED BY <2>1 DEF Structured, NestedOnce
<1>7. \A loops : LeavesWithin(p, loops) => LeavesWithin(q, loops)
  BY <1>2, <1>3 DEF LeavesWithin
<1> QED BY <1>1, <1>4, <1>5, <1>6, <1>7 DEF Structured

LEMMA SequencesRenamed ==
  ASSUME NEW S, NEW xs \in Seq(S), NEW old, NEW new \in S
  PROVE  RenamedAll(xs, old, new) \in Seq(S) /\ Len(RenamedAll(xs, old, new)) = Len(xs)
BY DEF RenamedAll, Renamed

LEMMA OpRenamed ==
  ASSUME NEW op \in SsaOp, NEW old, NEW new \in Var
  PROVE  RenameOp(op, old, new) \in SsaOp /\ SameOp(op, RenameOp(op, old, new))
<1>1. RenamedAll(op.outs, old, new) \in Seq(Var) /\ Len(RenamedAll(op.outs, old, new)) = Len(op.outs)
  BY OpFields, SequencesRenamed
<1>2. RenamedAll(op.args, old, new) \in Seq(Val) /\ Len(RenamedAll(op.args, old, new)) = Len(op.args)
  BY OpFields, SequencesRenamed DEF Val
<1>3. Renamed(op.a, old, new) \in Val \cup {None} /\ Renamed(op.b, old, new) \in Val \cup {None}
  BY OpFields DEF Renamed, Val
<1> QED BY <1>1, <1>2, <1>3 DEF RenameOp, SsaOp, SameOp

LEMMA VariableRenamed ==
  ASSUME NEW p \in Seq(SsaBlock), NEW b, NEW old, NEW new \in Var
  PROVE  RenameVar(p, b, old, new) \in Shaped(p)
<1> DEFINE q == RenameVar(p, b, old, new)
           ren(c) == [p[c] EXCEPT !.ins = RenamedAll(@, old, new),
                                  !.outs = RenamedAll(@, old, new),
                                  !.ops = [k \in DOMAIN @ |-> RenameOp(@[k], old, new)]]
<1>1. ASSUME NEW c \in DOMAIN p PROVE ren(c) \in SsaBlock /\ SameBlock(p[c], ren(c))
  <2> DEFINE ops == [k \in DOMAIN p[c].ops |-> RenameOp(p[c].ops[k], old, new)]
  <2>1. /\ RenamedAll(p[c].ins, old, new) \in Seq(Var)
        /\ Len(RenamedAll(p[c].ins, old, new)) = Len(p[c].ins)
        /\ RenamedAll(p[c].outs, old, new) \in Seq(Var)
        /\ Len(RenamedAll(p[c].outs, old, new)) = Len(p[c].outs)
    BY BlockFields, SequencesRenamed
  <2>2. \A k \in DOMAIN p[c].ops : ops[k] \in SsaOp /\ SameOp(p[c].ops[k], ops[k])
    BY OpsOfBlocks, OpRenamed
  <2>3. ops \in Seq(SsaOp)
    <3>1. p[c].ops \in Seq(SsaOp)
      BY BlockFields
    <3>2. DOMAIN ops = 1 .. Len(p[c].ops) /\ Len(p[c].ops) \in Nat
      BY <3>1
    <3>3. ops \in [1 .. Len(p[c].ops) -> SsaOp]
      BY <2>2, <3>2
    <3> QED BY <3>2, <3>3
  <2>4. ren(c) = [p[c] EXCEPT !.ins = RenamedAll(p[c].ins, old, new),
                              !.outs = RenamedAll(p[c].outs, old, new), !.ops = ops]
    OBVIOUS
  <2>5. p[c] \in SsaBlock
    BY BlockFields
  <2> HIDE DEF ops
  <2>6. ren(c) \in SsaBlock
    BY <2>1, <2>3, <2>4, <2>5 DEF SsaBlock
  <2>7. /\ ren(c).ins = RenamedAll(p[c].ins, old, new)
        /\ ren(c).outs = RenamedAll(p[c].outs, old, new)
        /\ ren(c).ops = ops
    BY <2>4, <2>5 DEF SsaBlock
  <2>8. DOMAIN ops = DOMAIN p[c].ops
    BY DEF ops
  <2> HIDE DEF ren
  <2> QED BY <2>1, <2>2, <2>6, <2>7, <2>8 DEF SameBlock
<1>2. q = [c \in DOMAIN p |-> IF c \notin Inside(p, b) THEN p[c] ELSE ren(c)]
  BY DEF RenameVar
<1>3. ASSUME NEW c \in DOMAIN p PROVE q[c] \in SsaBlock /\ SameBlock(p[c], q[c])
  <2>1. p[c] \in SsaBlock /\ SameBlock(p[c], p[c])
    BY BlockFields DEF SameBlock, SameOp
  <2>2. q[c] = p[c] \/ q[c] = ren(c)
    <3> HIDE DEF q, ren
    <3> QED BY <1>2
  <2> HIDE DEF q, ren
  <2> QED BY <1>1, <2>1, <2>2
<1>4. DOMAIN q = DOMAIN p /\ q \in Seq(SsaBlock)
  <2> HIDE DEF q, ren
  <2>1. DOMAIN q = 1 .. Len(p) /\ Len(p) \in Nat /\ DOMAIN p = 1 .. Len(p)
    BY <1>2
  <2>2. q = [c \in 1 .. Len(p) |-> q[c]]
    BY <1>2, <2>1
  <2>3. q \in [1 .. Len(p) -> SsaBlock]
    BY <2>1, <2>2, <1>3
  <2> QED BY <2>1, <2>3
<1> HIDE DEF q, ren
<1>5. q \in Shaped(p)
  BY <1>3, <1>4 DEF Shaped, SameShape
<1> QED BY <1>5 DEF q

LEMMA StatesAreNamed ==
  ASSUME NEW p \in Seq(SsaBlock), NEW b, NEW olds, NEW news \in Seq(Var)
  PROVE  StatesNamed(p, b, olds, news) \in Shaped(p)
<1> DEFINE N == Len(news)
           e(s, n) == RenameVar(s, b, olds[n], news[n])
           step == [sn \in Shaped(p) \X (1 .. N) |-> e(sn[1], sn[2])]
           body(g) == [n \in 0 .. N |-> IF n = 0 THEN p ELSE e(g[n - 1], n)]
           f == CHOOSE g : g = body(g)
<1>1. N \in Nat /\ DOMAIN news = 1 .. N /\ p \in Shaped(p)
  BY ShapeReflexive
<1>2. ASSUME NEW s \in Shaped(p), NEW n \in 1 .. N
      PROVE  e(s, n) \in Shaped(p)
  <2>1. s \in Seq(SsaBlock) /\ SameShape(p, s) /\ news[n] \in Var
    BY <1>1 DEF Shaped
  <2>2. e(s, n) \in Shaped(s)
    BY <2>1, VariableRenamed
  <2> QED BY <2>1, <2>2, ShapeTransitive DEF Shaped
<1>3. step \in [Shaped(p) \X (1 .. N) -> Shaped(p)]
  <2> HIDE DEF e
  <2> QED BY <1>2
<1>4. PICK h \in [0 .. N -> Shaped(p)] : Rounds(h, N, p, step)
  <2> HIDE DEF step, N
  <2> QED BY <1>1, <1>3, RoundsExist
<1>5. \A n \in 1 .. N : <<h[n - 1], n>> \in Shaped(p) \X (1 .. N)
  <2> HIDE DEF N
  <2> QED BY <1>1
<1>6. \A n \in 1 .. N : step[<<h[n - 1], n>>] = e(h[n - 1], n)
  <2> HIDE DEF e
  <2> QED BY <1>5
<1>7. h = body(h)
  <2>1. h = [n \in 0 .. N |-> h[n]]
    OBVIOUS
  <2>2. \A n \in 0 .. N : h[n] = IF n = 0 THEN p ELSE step[<<h[n - 1], n>>]
    <3> HIDE DEF step, N
    <3> QED BY <1>4 DEF Rounds
  <2>3. \A n \in 0 .. N : h[n] = body(h)[n]
    <3> SUFFICES ASSUME NEW n \in 0 .. N PROVE h[n] = body(h)[n]
      OBVIOUS
    <3>1. body(h)[n] = IF n = 0 THEN p ELSE e(h[n - 1], n)
      OBVIOUS
    <3>2. n # 0 => n \in 1 .. N
      BY <1>1
    <3> HIDE DEF step, e, body
    <3> QED BY <1>6, <2>2, <3>1, <3>2
  <2>4. body(h) = [n \in 0 .. N |-> body(h)[n]]
    OBVIOUS
  <2> HIDE DEF body, N
  <2> QED BY <2>1, <2>3, <2>4
<1>8. f = body(f)
  <2>1. f = CHOOSE g : g = body(g)
    OBVIOUS
  <2> HIDE DEF body, f
  <2> QED BY <1>7, <2>1
<1>9. f[0] = p /\ \A n \in 1 .. N : f[n] = e(f[n - 1], n)
  <2> HIDE DEF f, e
  <2>1. \A n \in 0 .. N : f[n] = IF n = 0 THEN p ELSE e(f[n - 1], n)
    BY <1>8
  <2>2. 0 \in 0 .. N /\ \A n \in 1 .. N : n \in 0 .. N /\ n # 0
    BY <1>1
  <2> QED BY <2>1, <2>2
<1>10. f[N] \in Shaped(p)
  <2> HIDE DEF f, e, N
  <2> DEFINE S == Shaped(p)
  <2>1. f[0] \in S
    BY <1>1, <1>9
  <2>2. \A n \in 1 .. N : f[n - 1] \in S => f[n] \in S
    BY <1>2, <1>9
  <2> HIDE DEF S
  <2>3. f[N] \in S
    BY <1>1, <2>1, <2>2, RoundsStay
  <2> QED BY <2>3 DEF S
<1> QED BY <1>10 DEF StatesNamed

(* Nor do jumps and labels change with the names of variables.             *)
SameJump(op, new) == new.id = op.id /\ new.label = op.label

Rewritten(code) ==
  {d \in Seq(Op) : DOMAIN d = DOMAIN code /\ \A k \in DOMAIN code : SameJump(code[k], d[k])}

LEMMA FlatRenamed ==
  ASSUME NEW op \in Op, NEW old, NEW new \in Var
  PROVE  RenameFlat(op, old, new) \in Op /\ SameJump(op, RenameFlat(op, old, new))
<1>1. /\ Renamed(op.out, old, new) \in Var \cup {None}
      /\ Renamed(op.cond, old, new) \in Val \cup {None}
      /\ Renamed(op.a, old, new) \in Val \cup {None}
      /\ Renamed(op.b, old, new) \in Val \cup {None}
  BY DEF Renamed, Op, Val
<1> QED BY <1>1 DEF RenameFlat, Op, SameJump

LEMMA CodeIsNamed ==
  ASSUME NEW code \in Seq(Op), NEW olds, NEW news \in Seq(Var)
  PROVE  CodeNamed(code, olds, news) \in Rewritten(code)
<1> DEFINE N == Len(news)
           e(s, n) == [k \in DOMAIN code |-> RenameFlat(s[k], olds[n], news[n])]
           step == [sn \in Rewritten(code) \X (1 .. N) |-> e(sn[1], sn[2])]
           body(g) == [n \in 0 .. N |-> IF n = 0 THEN code ELSE e(g[n - 1], n)]
           f == CHOOSE g : g = body(g)
<1>1. N \in Nat /\ DOMAIN news = 1 .. N /\ code \in Rewritten(code)
  BY DEF Rewritten, SameJump
<1>2. ASSUME NEW s \in Rewritten(code), NEW n \in 1 .. N
      PROVE  e(s, n) \in Rewritten(code)
  <2>1. /\ s \in Seq(Op) /\ DOMAIN s = DOMAIN code /\ news[n] \in Var
        /\ \A k \in DOMAIN code : SameJump(code[k], s[k])
    BY <1>1 DEF Rewritten
  <2>2. \A k \in DOMAIN code : e(s, n)[k] = RenameFlat(s[k], olds[n], news[n])
    OBVIOUS
  <2>3. DOMAIN e(s, n) = DOMAIN code /\ DOMAIN code = 1 .. Len(code) /\ Len(code) \in Nat
    OBVIOUS
  <2>4. \A k \in DOMAIN code : e(s, n)[k] \in Op /\ SameJump(s[k], e(s, n)[k])
    <3> HIDE DEF e
    <3> QED BY <2>1, <2>2, FlatRenamed
  <2>5. e(s, n) = [k \in 1 .. Len(code) |-> e(s, n)[k]]
    BY <2>3
  <2> HIDE DEF e
  <2>6. e(s, n) \in [1 .. Len(code) -> Op]
    BY <2>3, <2>4, <2>5
  <2>7. e(s, n) \in Seq(Op)
    BY <2>3, <2>6
  <2> QED BY <2>1, <2>3, <2>4, <2>7 DEF Rewritten, SameJump
<1>3. step \in [Rewritten(code) \X (1 .. N) -> Rewritten(code)]
  <2> HIDE DEF e
  <2> QED BY <1>2
<1>4. PICK h \in [0 .. N -> Rewritten(code)] : Rounds(h, N, code, step)
  <2> HIDE DEF step, N
  <2> QED BY <1>1, <1>3, RoundsExist
<1>5. \A n \in 1 .. N : <<h[n - 1], n>> \in Rewritten(code) \X (1 .. N)
  <2> HIDE DEF N
  <2> QED BY <1>1
<1>6. \A n \in 1 .. N : step[<<h[n - 1], n>>] = e(h[n - 1], n)
  <2> HIDE DEF e
  <2> QED BY <1>5
<1>7. h = body(h)
  <2>1. h = [n \in 0 .. N |-> h[n]]
    OBVIOUS
  <2>2. \A n \in 0 .. N : h[n] = IF n = 0 THEN code ELSE step[<<h[n - 1], n>>]
    <3> HIDE DEF step, N
    <3> QED BY <1>4 DEF Rounds
  <2>3. \A n \in 0 .. N : h[n] = body(h)[n]
    <3> SUFFICES ASSUME NEW n \in 0 .. N PROVE h[n] = body(h)[n]
      OBVIOUS
    <3>1. body(h)[n] = IF n = 0 THEN code ELSE e(h[n - 1], n)
      OBVIOUS
    <3>2. n # 0 => n \in 1 .. N
      BY <1>1
    <3> HIDE DEF step, e, body
    <3> QED BY <1>6, <2>2, <3>1, <3>2
  <2>4. body(h) = [n \in 0 .. N |-> body(h)[n]]
    OBVIOUS
  <2> HIDE DEF body, N
  <2> QED BY <2>1, <2>3, <2>4
<1>8. f = body(f)
  <2>1. f = CHOOSE g : g = body(g)
    OBVIOUS
  <2> HIDE DEF body, f
  <2> QED BY <1>7, <2>1
<1>9. f[0] = code /\ \A n \in 1 .. N : f[n] = e(f[n - 1], n)
  <2> HIDE DEF f, e
  <2>1. \A n \in 0 .. N : f[n] = IF n = 0 THEN code ELSE e(f[n - 1], n)
    BY <1>8
  <2>2. 0 \in 0 .. N /\ \A n \in 1 .. N : n \in 0 .. N /\ n # 0
    BY <1>1
  <2> QED BY <2>1, <2>2
<1>10. f[N] \in Rewritten(code)
  <2> HIDE DEF f, e, N
  <2> DEFINE S == Rewritten(code)
  <2>1. f[0] \in S
    BY <1>1, <1>9
  <2>2. \A n \in 1 .. N : f[n - 1] \in S => f[n] \in S
    BY <1>2, <1>9
  <2> HIDE DEF S
  <2>3. f[N] \in S
    BY <1>1, <2>1, <2>2, RoundsStay
  <2> QED BY <2>3 DEF S
<1> QED BY <1>10 DEF CodeNamed

LEMMA EndsAreNamed ==
  ASSUME NEW block \in SsaBlock, NEW olds, NEW news \in Seq(Var)
  PROVE  EndsNamed(block, olds, news) \in {c \in SsaBlock : SameBlock(block, c)}
<1> DEFINE N == Len(news)
           e(s, n) == [s EXCEPT !.ins = RenamedAll(@, olds[n], news[n]),
                              !.outs = RenamedAll(@, olds[n], news[n])]
           step == [sn \in {c \in SsaBlock : SameBlock(block, c)} \X (1 .. N) |-> e(sn[1], sn[2])]
           body(g) == [n \in 0 .. N |-> IF n = 0 THEN block ELSE e(g[n - 1], n)]
           f == CHOOSE g : g = body(g)
<1>1. N \in Nat /\ DOMAIN news = 1 .. N /\ block \in {c \in SsaBlock : SameBlock(block, c)}
  BY DEF SameBlock, SameOp
<1>2. ASSUME NEW s \in {c \in SsaBlock : SameBlock(block, c)}, NEW n \in 1 .. N
      PROVE  e(s, n) \in {c \in SsaBlock : SameBlock(block, c)}
  <2>1. s \in SsaBlock /\ SameBlock(block, s) /\ news[n] \in Var
    BY <1>1
  <2>2. s.ins \in Seq(Var) /\ s.outs \in Seq(Var)
    BY <2>1 DEF SsaBlock
  <2>3. /\ RenamedAll(s.ins, olds[n], news[n]) \in Seq(Var)
        /\ RenamedAll(s.outs, olds[n], news[n]) \in Seq(Var)
        /\ Len(RenamedAll(s.ins, olds[n], news[n])) = Len(s.ins)
        /\ Len(RenamedAll(s.outs, olds[n], news[n])) = Len(s.outs)
    BY <2>1, <2>2, SequencesRenamed
  <2>4. e(s, n) \in SsaBlock
    BY <2>1, <2>3 DEF SsaBlock
  <2>5. /\ e(s, n).ins = RenamedAll(s.ins, olds[n], news[n])
        /\ e(s, n).outs = RenamedAll(s.outs, olds[n], news[n])
        /\ e(s, n).ops = s.ops
    BY <2>1 DEF SsaBlock
  <2>6. SameBlock(block, e(s, n))
    <3> HIDE DEF e
    <3> QED BY <2>1, <2>3, <2>5 DEF SameBlock
  <2> HIDE DEF e
  <2> QED BY <2>4, <2>6
<1>3. step \in [{c \in SsaBlock : SameBlock(block, c)} \X (1 .. N) -> {c \in SsaBlock : SameBlock(block, c)}]
  <2> HIDE DEF e
  <2> QED BY <1>2
<1>4. PICK h \in [0 .. N -> {c \in SsaBlock : SameBlock(block, c)}] : Rounds(h, N, block, step)
  <2> HIDE DEF step, N
  <2> QED BY <1>1, <1>3, RoundsExist
<1>5. \A n \in 1 .. N : <<h[n - 1], n>> \in {c \in SsaBlock : SameBlock(block, c)} \X (1 .. N)
  <2> HIDE DEF N
  <2> QED BY <1>1
<1>6. \A n \in 1 .. N : step[<<h[n - 1], n>>] = e(h[n - 1], n)
  <2> HIDE DEF e
  <2> QED BY <1>5
<1>7. h = body(h)
  <2>1. h = [n \in 0 .. N |-> h[n]]
    OBVIOUS
  <2>2. \A n \in 0 .. N : h[n] = IF n = 0 THEN block ELSE step[<<h[n - 1], n>>]
    <3> HIDE DEF step, N
    <3> QED BY <1>4 DEF Rounds
  <2>3. \A n \in 0 .. N : h[n] = body(h)[n]
    <3> SUFFICES ASSUME NEW n \in 0 .. N PROVE h[n] = body(h)[n]
      OBVIOUS
    <3>1. body(h)[n] = IF n = 0 THEN block ELSE e(h[n - 1], n)
      OBVIOUS
    <3>2. n # 0 => n \in 1 .. N
      BY <1>1
    <3> HIDE DEF step, e, body
    <3> QED BY <1>6, <2>2, <3>1, <3>2
  <2>4. body(h) = [n \in 0 .. N |-> body(h)[n]]
    OBVIOUS
  <2> HIDE DEF body, N
  <2> QED BY <2>1, <2>3, <2>4
<1>8. f = body(f)
  <2>1. f = CHOOSE g : g = body(g)
    OBVIOUS
  <2> HIDE DEF body, f
  <2> QED BY <1>7, <2>1
<1>9. f[0] = block /\ \A n \in 1 .. N : f[n] = e(f[n - 1], n)
  <2> HIDE DEF f, e
  <2> QED BY <1>1, <1>8
<1>10. f[N] \in {c \in SsaBlock : SameBlock(block, c)}
  <2> HIDE DEF f, e, N
  <2> DEFINE S == {c \in SsaBlock : SameBlock(block, c)}
  <2>1. f[0] \in S
    BY <1>1, <1>9
  <2>2. \A n \in 1 .. N : f[n - 1] \in S => f[n] \in S
    BY <1>2, <1>9
  <2> HIDE DEF S
  <2>3. f[N] \in S
    BY <1>1, <2>1, <2>2, RoundsStay
  <2> QED BY <2>3 DEF S
<1> QED BY <1>10 DEF EndsNamed

LEMMA BlockReplaced ==
  ASSUME NEW p \in Seq(SsaBlock), NEW b \in DOMAIN p, NEW c \in SsaBlock, SameBlock(p[b], c)
  PROVE  [p EXCEPT ![b] = c] \in Shaped(p)
<1> DEFINE q == [p EXCEPT ![b] = c]
<1>1. q \in Seq(SsaBlock) /\ DOMAIN q = DOMAIN p
  OBVIOUS
<1>2. \A d \in DOMAIN p : q[d] = IF d = b THEN c ELSE p[d]
  OBVIOUS
<1>3. \A d \in DOMAIN p : SameBlock(p[d], p[d])
  BY DEF SameBlock, SameOp
<1> HIDE DEF q
<1>4. q \in Shaped(p)
  BY <1>1, <1>2, <1>3 DEF Shaped, SameShape
<1> QED BY <1>4 DEF q

(* A set of numbers has a least one. *)
LEMMA LeastExists ==
  ASSUME NEW S \in SUBSET Nat, S # {}
  PROVE  \E n \in S : \A m \in S : n <= m
<1> DEFINE R == {ss \in Nat \X Nat : ss[1] < ss[2]}
<1>1. IsWellFoundedOn(R, Nat)
  BY NatLessThanWellFounded DEF OpToRel
<1>2. PICK n \in S : \A m \in S : ~ (<<m, n>> \in R)
  <2> HIDE DEF R
  <2> QED BY <1>1, WFMin
<1>3. \A m \in S : n <= m
  <2> SUFFICES ASSUME NEW m \in S PROVE n <= m
    OBVIOUS
  <2>1. <<m, n>> \in Nat \X Nat /\ ~ (<<m, n>> \in R)
    BY <1>2
  <2>2. ~ (<<m, n>>[1] < <<m, n>>[2])
    BY <2>1, Zenon
  <2> QED BY <2>2
<1> QED BY <1>3

LEMMA LeastIsIn ==
  ASSUME NEW S \in SUBSET Nat, S # {}
  PROVE  Min(S) \in S
BY LeastExists DEF Min

(* The branch of an IF whose results are renamed is one of the same shape. *)
LEMMA ResultsRenamed ==
  ASSUME blocks \in Seq(SsaBlock), NEW src \in DOMAIN blocks, NEW outs \in Seq(Var), NEW used
  PROVE  WithResults(src, outs, used) \in Shaped(blocks)
<1> DEFINE direct(v) == {n \in DOMAIN outs \ used : blocks[src].outs[n] = v}
           named(v) == IF direct(v) = {} THEN v ELSE outs[Min(direct(v))]
           renamed(op) == [op EXCEPT !.outs = [m \in DOMAIN @ |-> named(@[m])]]
           old == blocks[src].ops
           ops == [k \in DOMAIN old |-> renamed(old[k])]
           c == [blocks[src] EXCEPT !.ops = ops]
<1>1. ASSUME NEW v \in Var PROVE named(v) \in Var
  <2>1. CASE direct(v) # {}
    <3>1. direct(v) \in SUBSET Nat
      OBVIOUS
    <3>2. direct(v) \subseteq DOMAIN outs
      OBVIOUS
    <3>3. Min(direct(v)) \in DOMAIN outs
      <4> HIDE DEF direct
      <4> QED BY <2>1, <3>1, <3>2, LeastIsIn
    <3> HIDE DEF direct
    <3> QED BY <3>3, <2>1
  <2> QED BY <2>1
<1>2. ASSUME NEW op \in SsaOp
      PROVE  renamed(op) \in SsaOp /\ SameOp(op, renamed(op))
  <2> DEFINE news == [m \in DOMAIN op.outs |-> named(op.outs[m])]
  <2>1. op.outs \in Seq(Var)
    BY OpFields
  <2>2. news \in Seq(Var) /\ Len(news) = Len(op.outs)
    <3>1. \A m \in DOMAIN op.outs : named(op.outs[m]) \in Var
      <4> HIDE DEF named
      <4> QED BY <1>1, <2>1
    <3> HIDE DEF named
    <3> QED BY <2>1, <3>1, SMTT(60)
  <2>3. renamed(op) = [op EXCEPT !.outs = news]
    OBVIOUS
  <2> HIDE DEF news, renamed
  <2> QED BY <2>2, <2>3 DEF SsaOp, SameOp
<1>3. old \in Seq(SsaOp) /\ blocks[src] \in SsaBlock
  BY BlockFields
<1>4. \A k \in DOMAIN old : ops[k] \in SsaOp /\ SameOp(old[k], ops[k])
  <2> SUFFICES ASSUME NEW k \in DOMAIN old PROVE ops[k] \in SsaOp /\ SameOp(old[k], ops[k])
    OBVIOUS
  <2>1. old[k] \in SsaOp
    <3> HIDE DEF old
    <3> QED BY <1>3
  <2>2. ops[k] = renamed(old[k])
    <3> HIDE DEF old, renamed
    <3> QED OBVIOUS
  <2> HIDE DEF old, ops, renamed
  <2> QED BY <1>2, <2>1, <2>2
<1>5. ops \in Seq(SsaOp) /\ DOMAIN ops = DOMAIN old
  <2>1. DOMAIN old = 1 .. Len(old) /\ Len(old) \in Nat
    BY <1>3
  <2>2. DOMAIN ops = DOMAIN old
    OBVIOUS
  <2>3. ops = [k \in 1 .. Len(old) |-> ops[k]]
    BY <2>1
  <2> HIDE DEF ops, old
  <2>4. ops \in [1 .. Len(old) -> SsaOp]
    BY <2>1, <2>3, <1>4
  <2> QED BY <2>1, <2>2, <2>4
<1>6. WithResults(src, outs, used) = [blocks EXCEPT ![src] = c]
  BY DEF WithResults
<1> HIDE DEF ops
<1>7. c \in SsaBlock
  BY <1>3, <1>5 DEF SsaBlock
<1>8. c.ins = blocks[src].ins /\ c.outs = blocks[src].outs /\ c.ops = ops
  BY <1>3 DEF SsaBlock
<1> HIDE DEF c
<1>9. SameBlock(blocks[src], c)
  BY <1>4, <1>5, <1>8 DEF SameBlock
<1> QED BY <1>6, <1>7, <1>9, BlockReplaced

-----------------------------------------------------------------------------
(* What one step of writing out keeps.  The code only grows, except that a *)
(* pending jump may get its label; of the frames the first n stay.         *)

Grows(old, new) ==
  /\ new \in Seq(Op)
  /\ \A k \in DOMAIN old :
       /\ k \in DOMAIN new /\ new[k].id = old[k].id
       /\ old[k].id = "LABEL" => new[k].label = old[k].label

(* At most one new label, l, is declared, at the end. *)
EndsWith(l) ==
  /\ DeclaredIn(dest, l) = {}
  /\ \A k \in DOMAIN dest' \ DOMAIN dest : dest'[k].id = "LABEL" =>
       k = Len(dest') /\ dest'[k].label = l /\ l \in Label /\ l < nextLabel'

SameFrame(f, g) ==
  /\ g.role = f.role /\ g.block = f.block /\ g.jump = f.jump /\ g.used = f.used
  /\ g.cont = f.cont /\ g.brk = f.brk /\ g.states = f.states

FramesKept(n) ==
  /\ stack' \in Seq(FrameType)
  /\ n \in 0 .. Len(stack) /\ n <= Len(stack')
  /\ \A d \in 1 .. n : SameFrame(stack[d], stack'[d]) /\ stack'[d].at > 0
  /\ \A d \in 1 .. n : d < n => stack'[d].at = stack[d].at

LEMMA FrameFields ==
  ASSUME NEW s \in Seq(FrameType), NEW d \in DOMAIN s
  PROVE  /\ d \in Nat \ {0} /\ d \in 1 .. Len(s)
         /\ s[d] \in FrameType
         /\ s[d].block \in Nat /\ s[d].at \in Nat /\ s[d].jump \in Nat
         /\ s[d].role \in BranchRole \cup {"root", "loop"}
         /\ s[d].cont \in Label \cup {None} /\ s[d].brk \in Label \cup {None}
         /\ s[d].states \in Seq(Var)
<1>1. s[d] \in FrameType /\ d \in 1 .. Len(s) /\ Len(s) \in Nat
  OBVIOUS
<1> QED BY <1>1 DEF FrameType

LEMMA DeclaredGrows ==
  ASSUME Grows(dest, dest'), NEW l
  PROVE  DeclaredIn(dest, l) \subseteq DeclaredIn(dest', l)
BY DEF Grows, DeclaredIn

LEMMA LabelsStayNew ==
  ASSUME LabelsNew, dest \in Seq(Op), nextLabel \in Nat, nextLabel' \in Nat,
         nextLabel <= nextLabel', Label \subseteq Nat,
         Grows(dest, dest'), NEW l, EndsWith(l)
  PROVE  LabelsNew' /\ \A m : m # l => DeclaredIn(dest', m) = DeclaredIn(dest, m)
<1>1. \A k \in DOMAIN dest' : dest'[k].id = "LABEL" =>
        \/ k \in DOMAIN dest /\ dest[k].id = "LABEL" /\ dest'[k].label = dest[k].label
        \/ /\ k \notin DOMAIN dest /\ k = Len(dest') /\ dest'[k].label = l
           /\ l \in Label /\ l < nextLabel'
  BY DEF Grows, EndsWith
<1>2. \A k \in DOMAIN dest : dest[k].id = "LABEL" => dest[k].label # l
  BY DEF EndsWith, DeclaredIn
<1>3. \A k \in DOMAIN dest' : dest'[k].id = "LABEL" =>
        dest'[k].label \in Label /\ dest'[k].label < nextLabel'
  <2> SUFFICES ASSUME NEW k \in DOMAIN dest', dest'[k].id = "LABEL"
               PROVE  dest'[k].label \in Label /\ dest'[k].label < nextLabel'
    OBVIOUS
  <2>1. CASE k \in DOMAIN dest /\ dest[k].id = "LABEL" /\ dest'[k].label = dest[k].label
    <3>1. dest[k].label \in Label /\ dest[k].label < nextLabel
      BY <2>1 DEF LabelsNew
    <3>2. dest[k].label \in Nat
      BY <3>1
    <3> QED BY <2>1, <3>1, <3>2
  <2> QED BY <1>1, <2>1
<1>4. ASSUME NEW j \in DOMAIN dest', NEW k \in DOMAIN dest',
             dest'[j].id = "LABEL", dest'[k].id = "LABEL", dest'[j].label = dest'[k].label
      PROVE  j = k
  BY <1>1, <1>2, <1>4 DEF LabelsNew
<1>5. ASSUME NEW m, m # l PROVE DeclaredIn(dest', m) = DeclaredIn(dest, m)
  <2>1. \A k \in DeclaredIn(dest', m) : k \in DeclaredIn(dest, m)
    BY <1>1, <1>5 DEF DeclaredIn
  <2> QED BY <2>1, DeclaredGrows
<1> QED BY <1>3, <1>4, <1>5 DEF LabelsNew

LEMMA FramesStay ==
  ASSUME Frames, Structured(blocks), dest \in Seq(Op), blocks' \in Shaped(blocks),
         Grows(dest, dest'), NEW n, FramesKept(n)
  PROVE  \A d \in 1 .. n : FrameKeeps(d)' /\ (d # 1 => FrameNested(d)')
<1> SUFFICES ASSUME NEW d \in 1 .. n
             PROVE  FrameKeeps(d)' /\ (d # 1 => FrameNested(d)')
  OBVIOUS
<1>1. n \in Nat /\ stack \in Seq(FrameType) /\ d \in DOMAIN stack /\ d \in DOMAIN stack'
  BY DEF Frames, FramesKept
<1>2. SameFrame(stack[d], stack'[d]) /\ stack'[d].at > 0
  BY DEF FramesKept
<1>3. FrameKeeps(d) /\ (d # 1 => FrameNested(d))
  BY <1>1 DEF Frames
<1>4. DOMAIN blocks' = DOMAIN blocks /\ blocks \in Seq(SsaBlock) /\ blocks' \in Seq(SsaBlock)
  BY DEF Shaped, SameShape, Structured
<1>5. \A b \in DOMAIN blocks : Len(blocks'[b].outs) = Len(blocks[b].outs)
                             /\ DOMAIN blocks'[b].outs = DOMAIN blocks[b].outs
  <2> SUFFICES ASSUME NEW b \in DOMAIN blocks
               PROVE  Len(blocks'[b].outs) = Len(blocks[b].outs)
                      /\ DOMAIN blocks'[b].outs = DOMAIN blocks[b].outs
    OBVIOUS
  <2>1. Len(blocks'[b].outs) = Len(blocks[b].outs)
    BY DEF Shaped, SameShape, SameBlock
  <2>2. blocks[b].outs \in Seq(Var) /\ blocks'[b].outs \in Seq(Var)
    BY <1>4, BlockFields
  <2> QED BY <2>1, <2>2
<1>6. FrameKeeps(d)'
  <2> DEFINE f == stack[d]
             g == stack'[d]
  <2>1. /\ g.role = f.role /\ g.block = f.block /\ g.jump = f.jump /\ g.used = f.used
        /\ g.cont = f.cont /\ g.brk = f.brk /\ g.states = f.states /\ g.at > 0
    BY <1>2 DEF SameFrame
  <2>2. g.block \in DOMAIN blocks' /\ g.used \subseteq DOMAIN blocks'[g.block].outs
    BY <1>3, <1>4, <1>5, <2>1 DEF FrameKeeps
  <2>3. g.role \in BranchRole => g.jump \in DOMAIN dest' /\ IsJump(dest'[g.jump])
    BY <1>3, <2>1 DEF FrameKeeps, Grows, IsJump
  <2>4. g.role \notin BranchRole => g.jump = 0
    BY <1>3, <2>1 DEF FrameKeeps
  <2>5. g.role = "loop" => g.cont # None /\ Len(g.states) = Len(blocks'[g.block].outs)
    BY <1>3, <1>5, <2>1 DEF FrameKeeps
  <2>6. g.cont # None => DeclaredIn(dest', g.cont) # {}
    <3>1. DeclaredIn(dest, f.cont) \subseteq DeclaredIn(dest', f.cont)
      BY DeclaredGrows
    <3>2. f.cont # None => DeclaredIn(dest, f.cont) # {}
      BY <1>3 DEF FrameKeeps
    <3> QED BY <2>1, <3>1, <3>2
  <2>7. ASSUME g.brk # None
        PROVE  \E e \in OpenLoops' : e <= d /\ stack'[e].brk = g.brk
    <3>1. PICK e \in OpenLoops : e <= d /\ stack[e].brk = f.brk
      BY <1>3, <2>1, <2>7 DEF FrameKeeps
    <3>2. e \in DOMAIN stack /\ stack[e].role = "loop"
      BY DEF OpenLoops
    <3>3. e \in 1 .. n
      BY <1>1, <3>1, <3>2, FrameFields
    <3>4. SameFrame(stack[e], stack'[e]) /\ e \in DOMAIN stack'
      BY <1>1, <3>3 DEF FramesKept
    <3>5. e \in OpenLoops'
      BY <3>2, <3>4 DEF OpenLoops, SameFrame
    <3> QED BY <2>1, <3>1, <3>4, <3>5 DEF SameFrame
  <2> HIDE DEF f
  <2> QED BY <2>1, <2>2, <2>3, <2>4, <2>5, <2>6, <2>7 DEF FrameKeeps
<1>7. ASSUME d # 1 PROVE FrameNested(d)'
  <2> DEFINE b == stack[d - 1].block
             k == stack[d - 1].at
             op == blocks[b].ops[k]
             new == blocks'[b].ops[k]
  <2>1. d - 1 \in 1 .. n /\ d - 1 < n /\ d - 1 \in DOMAIN stack
    BY <1>1, <1>7
  <2>2. stack'[d - 1].block = b /\ stack'[d - 1].at = k
    BY <2>1 DEF FramesKept, SameFrame
  <2>3. FrameNested(d) /\ FrameKeeps(d - 1)
    BY <1>3, <1>7, <2>1 DEF Frames
  <2>4. b \in DOMAIN blocks /\ k \in DOMAIN blocks[b].ops
    BY <2>3 DEF FrameNested, FrameKeeps
  <2>5. SameOp(op, new) /\ k \in DOMAIN blocks'[b].ops
    BY <2>4 DEF Shaped, SameShape, SameBlock
  <2>6. BlocksOf(new) = BlocksOf(op)
    BY <2>5, SameBlocks
  <2>7. op \in SsaOp /\ new \in SsaOp
    BY <1>4, <2>4, <2>5, OpsOfBlocks
  <2>8. DOMAIN new.outs = DOMAIN op.outs
    <3> HIDE DEF op, new
    <3>1. new.outs \in Seq(Var) /\ op.outs \in Seq(Var) /\ Len(new.outs) = Len(op.outs)
      BY <2>5, <2>7, OpFields DEF SameOp
    <3>2. DOMAIN new.outs = 1 .. Len(new.outs) /\ DOMAIN op.outs = 1 .. Len(op.outs)
      BY <3>1
    <3> QED BY <3>1, <3>2
  <2>9. OpAt(blocks, stack[d - 1]) = op /\ OpAt(blocks', stack'[d - 1]) = new
    BY <2>2 DEF OpAt
  <2>10. /\ new.id = op.id /\ new.then = op.then
    BY <2>5 DEF SameOp
  <2> HIDE DEF op, new, b, k
  <2>11. /\ stack[d].block \in BlocksOf(op)
         /\ stack[d].role \in BranchRole => op.id = "IF" /\ stack[d].used \subseteq DOMAIN op.outs
         /\ stack[d].role = "els" => op.then # None
         /\ stack[d].role = "loop" => op.id = "INFINITE"
    BY <2>3, <2>9 DEF FrameNested
  <2>12. /\ stack'[d].block \in BlocksOf(new)
         /\ stack'[d].role \in BranchRole => new.id = "IF" /\ stack'[d].used \subseteq DOMAIN new.outs
         /\ stack'[d].role = "els" => new.then # None
         /\ stack'[d].role = "loop" => new.id = "INFINITE"
    BY <1>2, <2>6, <2>8, <2>10, <2>11 DEF SameFrame
  <2> QED BY <2>2, <2>5, <2>9, <2>12 DEF FrameNested
<1> QED BY <1>6, <1>7

(* The label for the breaks of a loop stays open as long as the loop.      *)
LEMMA BreaksStayOpen ==
  ASSUME BreaksOpen, LabelsNew, dest \in Seq(Op), nextLabel \in Nat, nextLabel' \in Nat,
         nextLabel <= nextLabel', Label \subseteq Nat,
         Grows(dest, dest'), NEW l, EndsWith(l),
         NEW n, FramesKept(n), stack \in Seq(FrameType),
         \A d \in OpenLoops : d <= n => stack[d].brk # l,
         \A d \in OpenLoops' : d > n =>
           /\ d = n + 1 /\ stack'[d].brk \in Label /\ stack'[d].brk # l
           /\ nextLabel <= stack'[d].brk /\ stack'[d].brk < nextLabel'
  PROVE  BreaksOpen'
<1>1. \A m : m # l => DeclaredIn(dest', m) = DeclaredIn(dest, m)
  BY LabelsStayNew
<1>2. \A m \in Label : nextLabel <= m => DeclaredIn(dest, m) = {}
  BY DEF LabelsNew, DeclaredIn
<1>3. ASSUME NEW d \in OpenLoops', d <= n
      PROVE  d \in OpenLoops /\ stack'[d].brk = stack[d].brk
  <2>1. d \in DOMAIN stack' /\ stack'[d].role = "loop" /\ stack' \in Seq(FrameType)
    BY DEF OpenLoops, FramesKept
  <2>2. d \in 1 .. n /\ d \in DOMAIN stack
    BY <1>3, <2>1 DEF FramesKept
  <2>3. SameFrame(stack[d], stack'[d])
    BY <2>2 DEF FramesKept
  <2> QED BY <2>1, <2>2, <2>3 DEF SameFrame, OpenLoops
<1>4. \A d \in OpenLoops' : d \in Nat /\ n \in Nat
  BY FrameFields DEF OpenLoops, FramesKept
<1>5. ASSUME NEW d \in OpenLoops'
      PROVE  /\ stack'[d].brk \in Label /\ stack'[d].brk < nextLabel'
             /\ DeclaredIn(dest', stack'[d].brk) = {}
  <2>1. CASE d <= n
    <3>1. stack[d].brk \in Label /\ stack[d].brk < nextLabel /\ DeclaredIn(dest, stack[d].brk) = {}
      BY <1>3, <2>1 DEF BreaksOpen
    <3>2. stack[d].brk # l /\ stack'[d].brk = stack[d].brk
      BY <1>3, <2>1
    <3>3. DeclaredIn(dest', stack[d].brk) = {}
      BY <1>1, <3>1, <3>2
    <3>4. stack[d].brk \in Nat
      BY <3>1
    <3>5. \A x \in Nat : x < nextLabel => x < nextLabel'
      OBVIOUS
    <3>6. stack[d].brk < nextLabel'
      BY <3>1, <3>4, <3>5
    <3> QED BY <3>1, <3>2, <3>3, <3>6
  <2>2. CASE d > n
    <3>1. stack'[d].brk \in Label /\ stack'[d].brk # l /\ nextLabel <= stack'[d].brk
          /\ stack'[d].brk < nextLabel'
      BY <2>2
    <3> QED BY <1>1, <1>2, <3>1
  <2> QED BY <1>4, <2>1, <2>2
<1>6. ASSUME NEW d \in OpenLoops', NEW e \in OpenLoops', stack'[d].brk = stack'[e].brk
      PROVE  d = e
  <2>1. \A x \in OpenLoops' : x <= n => stack'[x].brk < nextLabel
    BY <1>3 DEF BreaksOpen
  <2>2. \A x \in OpenLoops' : x > n => x = n + 1 /\ nextLabel <= stack'[x].brk
    OBVIOUS
  <2>3. stack'[d].brk \in Nat
    BY <1>5
  <2>4. CASE d <= n /\ e <= n
    BY <1>3, <1>6, <2>4 DEF BreaksOpen
  <2> QED BY <1>4, <1>6, <2>1, <2>2, <2>3, <2>4
<1> QED BY <1>5, <1>6 DEF BreaksOpen

(* Jumps keep a place to go to. *)
LeadsOn(k) ==
  IF dest'[k].label = None THEN \E d \in DOMAIN stack' : stack'[d].jump = k
  ELSE \/ DeclaredIn(dest', dest'[k].label) # {}
       \/ \E d \in OpenLoops' : stack'[d].brk = dest'[k].label

LEMMA JumpsStillLead ==
  ASSUME JumpsLead, stack \in Seq(FrameType), Grows(dest, dest'), NEW n, FramesKept(n),
         \A k \in DOMAIN dest : IsJump(dest[k]) =>
           \/ dest'[k].label = dest[k].label
           \/ dest'[k].label # None /\ DeclaredIn(dest', dest'[k].label) # {},
         \A d \in DOMAIN stack : d > n =>
           /\ stack[d].jump \in DOMAIN dest => dest'[stack[d].jump].label # None
           /\ d \in OpenLoops => DeclaredIn(dest', stack[d].brk) # {},
         \A k \in DOMAIN dest' \ DOMAIN dest : IsJump(dest'[k]) => LeadsOn(k)
  PROVE  JumpsLead'
<1> SUFFICES ASSUME NEW k \in DOMAIN dest', IsJump(dest'[k]) PROVE LeadsOn(k)
  BY DEF JumpsLead, LeadsOn
<1>1. CASE k \notin DOMAIN dest
  BY <1>1
<1>2. CASE k \in DOMAIN dest
  <2>1. IsJump(dest[k])
    BY <1>2 DEF Grows, IsJump
  <2>2. CASE dest'[k].label # None /\ DeclaredIn(dest', dest'[k].label) # {}
    BY <2>2 DEF LeadsOn
  <2>3. CASE dest'[k].label = dest[k].label
    <3>1. CASE dest[k].label = None
      <4>1. PICK d \in DOMAIN stack : stack[d].jump = k
        BY <1>2, <2>1, <3>1 DEF JumpsLead
      <4>2. ~ (d > n)
        BY <1>2, <2>3, <3>1, <4>1
      <4>3. d \in 1 .. n /\ d \in DOMAIN stack'
        BY <4>2, FrameFields DEF FramesKept
      <4>4. stack'[d].jump = k
        BY <4>1, <4>3 DEF FramesKept, SameFrame
      <4> QED BY <2>3, <3>1, <4>3, <4>4 DEF LeadsOn
    <3>2. CASE dest[k].label # None /\ DeclaredIn(dest, dest[k].label) # {}
      <4>1. DeclaredIn(dest', dest[k].label) # {}
        BY <3>2, DeclaredGrows
      <4> QED BY <2>3, <3>2, <4>1 DEF LeadsOn
    <3>3. CASE dest[k].label # None /\ \E d \in OpenLoops : stack[d].brk = dest[k].label
      <4>1. PICK d \in OpenLoops : stack[d].brk = dest[k].label
        BY <3>3
      <4>2. d \in DOMAIN stack /\ stack[d].role = "loop"
        BY DEF OpenLoops
      <4>3. CASE d > n
        BY <2>3, <3>3, <4>1, <4>2, <4>3 DEF LeadsOn
      <4>4. CASE ~ (d > n)
        <5>1. d \in 1 .. n /\ d \in DOMAIN stack'
          BY <4>2, <4>4, FrameFields DEF FramesKept
        <5>2. SameFrame(stack[d], stack'[d])
          BY <5>1 DEF FramesKept
        <5>3. d \in OpenLoops' /\ stack'[d].brk = dest[k].label
          BY <4>1, <4>2, <5>1, <5>2 DEF SameFrame, OpenLoops
        <5> QED BY <2>3, <3>3, <5>3 DEF LeadsOn
      <4> QED BY <4>3, <4>4
    <3> QED BY <1>2, <2>1, <3>1, <3>2, <3>3 DEF JumpsLead
  <2> QED BY <1>2, <2>1, <2>2, <2>3
<1> QED BY <1>1, <1>2

LEMMA DeclsStay ==
  ASSUME DeclsRight, Structured(blocks), blocks' \in Shaped(blocks),
         decl' = [v \in Var |-> decl'[v]],
         \A v \in Var : decl'[v] = decl[v] \/ decl'[v] = NoDecl
  PROVE  DeclsRight'
<1>1. NoDecl \in [block : Nat, at : Nat]
  BY DEF NoDecl
<1>2. \A v \in Var : decl[v] \in [block : Nat, at : Nat]
  BY DEF DeclsRight
<1>3. decl' \in [Var -> [block : Nat, at : Nat]]
  BY <1>1, <1>2
<1>4. DOMAIN blocks' = DOMAIN blocks
      /\ \A b \in DOMAIN blocks : DOMAIN blocks'[b].ops = DOMAIN blocks[b].ops
  BY DEF Shaped, SameShape, SameBlock
<1>5. ASSUME NEW v \in Var, decl'[v] # NoDecl
      PROVE  decl'[v].block \in DOMAIN blocks'
             /\ decl'[v].at \in DOMAIN blocks'[decl'[v].block].ops
  <2>1. decl'[v] = decl[v]
    BY <1>5
  <2>2. decl[v].block \in DOMAIN blocks /\ decl[v].at \in DOMAIN blocks[decl[v].block].ops
    BY <1>5, <2>1 DEF DeclsRight
  <2> QED BY <1>4, <2>1, <2>2
<1> QED BY <1>3, <1>5 DEF DeclsRight, NoDecl

LEMMA LowerTypes ==
  ASSUME LowerInv
  PROVE  /\ dest \in Seq(Op) /\ blocks \in Seq(SsaBlock) /\ stack \in Seq(FrameType)
         /\ Len(dest) \in Nat /\ Len(blocks) \in Nat /\ Len(stack) \in Nat
         /\ nextLabel \in Nat /\ nextVar \in Nat
         /\ Label \subseteq Nat /\ Var \subseteq Nat /\ None \notin Nat
BY LowerAssumption DEF LowerInv, Tables, Structured, Frames

LEMMA TopFrame ==
  ASSUME LowerInv, phase = "lower"
  PROVE  /\ Len(stack) \in DOMAIN stack /\ Len(stack) > 0
         /\ Top \in FrameType /\ FrameKeeps(Len(stack))
         /\ Top.block \in DOMAIN blocks /\ Top.at \in Nat \ {0}
         /\ Len(stack) # 1 => FrameNested(Len(stack)) /\ Top.role # "root"
         /\ Len(stack) = 1 => Top.role = "root" /\ Top.block = Root
         /\ Outer \in Seq(FrameType) /\ Len(Outer) = Len(stack) - 1
         /\ \A d \in 1 .. Len(stack) - 1 : d \in DOMAIN stack /\ Outer[d] = stack[d]
<1>1. stack \in Seq(FrameType) /\ stack # <<>>
  BY DEF LowerInv, Frames
<1>2. Len(stack) \in DOMAIN stack /\ Len(stack) > 0
  BY <1>1
<1>3. /\ Top \in FrameType /\ FrameKeeps(Len(stack))
      /\ Len(stack) # 1 => FrameNested(Len(stack)) /\ Top.role # "root"
      /\ Len(stack) = 1 => Top.role = "root" /\ Top.block = Root
  <2> DEFINE n == Len(stack)
  <2>1. n \in DOMAIN stack /\ stack[n] \in FrameType
    BY <1>1, <1>2
  <2>2. \A d \in DOMAIN stack :
          /\ FrameKeeps(d)
          /\ IF d = 1 THEN stack[d].role = "root" /\ stack[d].block = Root
             ELSE stack[d].role # "root" /\ FrameNested(d)
    BY DEF LowerInv, Frames
  <2>3. Top = stack[n]
    BY DEF Top
  <2> HIDE DEF n
  <2>4. /\ FrameKeeps(n)
        /\ IF n = 1 THEN stack[n].role = "root" /\ stack[n].block = Root
           ELSE stack[n].role # "root" /\ FrameNested(n)
    BY <2>1, <2>2
  <2>5. /\ Top \in FrameType /\ FrameKeeps(n)
        /\ n # 1 => FrameNested(n) /\ Top.role # "root"
        /\ n = 1 => Top.role = "root" /\ Top.block = Root
    BY <2>1, <2>3, <2>4
  <2> QED BY <2>5 DEF n
<1>4. Top.block \in DOMAIN blocks /\ Top.at \in Nat \ {0}
  BY <1>3 DEF FrameKeeps, Top, FrameType
<1>5. /\ Outer \in Seq(FrameType) /\ Len(Outer) = Len(stack) - 1
      /\ \A d \in 1 .. Len(stack) - 1 : d \in DOMAIN stack /\ Outer[d] = stack[d]
  BY <1>1, <1>2, SMTT(30) DEF Outer
<1> QED BY <1>2, <1>3, <1>4, <1>5

LEMMA OpAtTop ==
  ASSUME LowerInv, phase = "lower", NEW ids, AtOp(ids)
  PROVE  /\ Top.at \in DOMAIN blocks[Top.block].ops
         /\ OpAt(blocks, Top) \in SsaOp /\ OpAt(blocks, Top).id \in ids
         /\ Lowerable(blocks, Top.block, OpAt(blocks, Top))
<1>1. Top.block \in DOMAIN blocks /\ Top.at \in Nat \ {0}
  BY TopFrame
<1>2. blocks[Top.block].ops \in Seq(SsaOp)
  BY <1>1, LowerTypes, BlockFields
<1>3. Top.at \in DOMAIN blocks[Top.block].ops
  BY <1>1, <1>2 DEF AtOp
<1>4. OpAt(blocks, Top) \in SsaOp
  BY <1>2, <1>3 DEF OpAt
<1> QED BY <1>1, <1>3, <1>4 DEF AtOp, OpAt, LowerInv, Structured

LEMMA PlacesMove ==
  ASSUME NEW A, NEW B, NEW C, NEW D, NEW E, NEW F, NEW G, NEW H, NEW x \in C,
         NEW f \in [role : A, block : B, at : C, jump : D, used : E, cont : F, brk : G, states : H]
  PROVE  [f EXCEPT !.at = x]
           \in [role : A, block : B, at : C, jump : D, used : E, cont : F, brk : G, states : H]
OBVIOUS

LEMMA ForwardStays ==
  ASSUME NEW s \in Seq(FrameType), s # <<>>, \A d \in DOMAIN s : s[d].at > 0
  PROVE  /\ Forward(s) \in Seq(FrameType) /\ Len(Forward(s)) = Len(s)
         /\ \A d \in DOMAIN s :
              /\ SameFrame(s[d], Forward(s)[d]) /\ Forward(s)[d].at > 0
              /\ d < Len(s) => Forward(s)[d].at = s[d].at
<1> DEFINE n == Len(s)
           top == [s[n] EXCEPT !.at = s[n].at + 1]
<1>1. n \in DOMAIN s /\ n \in Nat /\ s[n] \in FrameType
  OBVIOUS
<1>2. top \in FrameType /\ SameFrame(s[n], top) /\ top.at > 0
  <2> DEFINE g == s[n]
  <2>1. g \in FrameType /\ g.at \in Nat
    BY <1>1 DEF FrameType
  <2> HIDE DEF g
  <2>2. [g EXCEPT !.at = g.at + 1] \in FrameType
    <3>1. g.at + 1 \in Nat
      BY <2>1
    <3> QED BY <2>1, <3>1, PlacesMove DEF FrameType
  <2>3. SameFrame(g, [g EXCEPT !.at = g.at + 1]) /\ [g EXCEPT !.at = g.at + 1].at > 0
    BY <2>1 DEF FrameType, SameFrame
  <2> QED BY <2>2, <2>3 DEF g
<1>3. Forward(s) = [s EXCEPT ![n] = top]
  BY DEF Forward
<1> HIDE DEF top
<1>4. /\ Forward(s) \in Seq(FrameType) /\ Len(Forward(s)) = Len(s)
      /\ \A d \in DOMAIN s : Forward(s)[d] = IF d = n THEN top ELSE s[d]
  BY <1>1, <1>2, <1>3
<1>5. \A d \in DOMAIN s : SameFrame(s[d], s[d])
  BY DEF SameFrame
<1> QED BY <1>1, <1>2, <1>4, <1>5

(* The frames stay that are below the one that moves on. *)
LEMMA KeptByForward ==
  ASSUME LowerInv, phase = "lower",
         \/ stack' = Forward(stack)
         \/ Len(stack) > 1 /\ stack' = Forward(Outer)
  PROVE  FramesKept(Len(stack')) /\ Len(stack') > 0
         /\ Len(stack') = IF stack' = Forward(stack) THEN Len(stack) ELSE Len(stack) - 1
<1>1. \A d \in DOMAIN stack : stack[d].at > 0
  BY DEF LowerInv, Frames, FrameKeeps
<1>2. stack \in Seq(FrameType) /\ Len(stack) \in Nat /\ Len(stack) > 0 /\ stack # <<>>
  BY LowerTypes, TopFrame
<1>3. CASE stack' = Forward(stack)
  <2>1. /\ Forward(stack) \in Seq(FrameType) /\ Len(Forward(stack)) = Len(stack)
        /\ \A d \in DOMAIN stack :
              /\ SameFrame(stack[d], Forward(stack)[d]) /\ Forward(stack)[d].at > 0
              /\ d < Len(stack) => Forward(stack)[d].at = stack[d].at
    BY <1>1, <1>2, ForwardStays
  <2> QED BY <1>2, <1>3, <2>1 DEF FramesKept
<1>4. CASE Len(stack) > 1 /\ stack' = Forward(Outer)
  <2>1. /\ Outer \in Seq(FrameType) /\ Len(Outer) = Len(stack) - 1 /\ Outer # <<>>
        /\ \A d \in DOMAIN Outer : d \in DOMAIN stack /\ Outer[d] = stack[d]
    BY <1>2, <1>4, TopFrame
  <2>2. \A d \in DOMAIN Outer : Outer[d].at > 0
    BY <1>1, <2>1
  <2>3. /\ Forward(Outer) \in Seq(FrameType) /\ Len(Forward(Outer)) = Len(Outer)
        /\ \A d \in DOMAIN Outer :
              /\ SameFrame(Outer[d], Forward(Outer)[d]) /\ Forward(Outer)[d].at > 0
              /\ d < Len(Outer) => Forward(Outer)[d].at = Outer[d].at
    BY <2>1, <2>2, ForwardStays
  <2>4. stack' # Forward(stack)
    <3>1. Len(Forward(stack)) = Len(stack)
      BY <1>1, <1>2, ForwardStays
    <3> QED BY <1>2, <1>4, <2>1, <2>3, <3>1
  <2> QED BY <1>2, <1>4, <2>1, <2>3, <2>4 DEF FramesKept
<1> QED BY <1>3, <1>4

(* A block of an IF or of a loop is entered. *)
LEMMA KeptByEntering ==
  ASSUME LowerInv, phase = "lower", NEW f \in FrameType,
         \/ stack' = Append(stack, f)
         \/ Len(stack) > 1 /\ stack' = Append(Outer, f)
  PROVE  LET n == Len(stack') - 1
         IN  /\ FramesKept(n) /\ n > 0 /\ stack'[n + 1] = f
             /\ n \in {Len(stack), Len(stack) - 1} /\ n \in DOMAIN stack
             /\ stack'[n] = stack[n]
             /\ n = IF stack' = Append(stack, f) THEN Len(stack) ELSE Len(stack) - 1
<1>1. \A d \in DOMAIN stack : stack[d].at > 0 /\ SameFrame(stack[d], stack[d])
  BY DEF LowerInv, Frames, FrameKeeps, SameFrame
<1>2. stack \in Seq(FrameType) /\ Len(stack) \in Nat /\ Len(stack) > 0
  BY LowerTypes, TopFrame
<1>3. CASE stack' = Append(stack, f)
  <2>1. /\ stack' \in Seq(FrameType) /\ Len(stack') = Len(stack) + 1
        /\ stack'[Len(stack) + 1] = f
        /\ \A d \in 1 .. Len(stack) : stack'[d] = stack[d] /\ d \in DOMAIN stack
    BY <1>2, <1>3
  <2> QED BY <1>1, <1>2, <1>3, <2>1 DEF FramesKept
<1>4. CASE Len(stack) > 1 /\ stack' = Append(Outer, f)
  <2>1. /\ Outer \in Seq(FrameType) /\ Len(Outer) = Len(stack) - 1
        /\ \A d \in 1 .. Len(stack) - 1 : d \in DOMAIN stack /\ Outer[d] = stack[d]
    BY TopFrame
  <2>2. /\ stack' \in Seq(FrameType) /\ Len(stack') = Len(stack)
        /\ stack'[Len(stack)] = f
        /\ \A d \in 1 .. Len(stack) - 1 : stack'[d] = stack[d] /\ d \in DOMAIN stack
    BY <1>2, <1>4, <2>1
  <2>3. stack' # Append(stack, f)
    BY <1>2, <2>2
  <2> QED BY <1>1, <1>2, <1>4, <2>2, <2>3 DEF FramesKept
<1> QED BY <1>3, <1>4

LEMMA OneMore ==
  ASSUME NEW S, NEW s \in Seq(S), NEW n \in Nat, n > 0, Len(s) = n \/ Len(s) = n + 1
  PROVE  /\ Len(s) > 0 /\ s # <<>>
         /\ \A d \in 1 .. n : d \in DOMAIN s
         /\ n < Len(s) => n + 1 \in DOMAIN s
         /\ \A d \in DOMAIN s : d \in 1 .. n \/ (d = n + 1 /\ n < Len(s) /\ d # 1)
         /\ \A d \in DOMAIN s : d \in Nat /\ (d > n => d = n + 1 /\ n < Len(s))
<1>1. DOMAIN s = 1 .. Len(s) /\ Len(s) \in Nat
  OBVIOUS
<1> DEFINE m == Len(s)
           D == DOMAIN s
<1>2. D = 1 .. m /\ m \in Nat /\ (m = n \/ m = n + 1)
  BY <1>1
<1>3. s = <<>> => m = 0
  OBVIOUS
<1> HIDE DEF m, D
<1>4. /\ m > 0
      /\ \A d \in 1 .. n : d \in D
      /\ n < m => n + 1 \in D
      /\ \A d \in D : d \in 1 .. n \/ (d = n + 1 /\ n < m /\ d # 1)
      /\ \A d \in D : d \in Nat /\ (d > n => d = n + 1 /\ n < m)
  BY <1>2
<1> QED BY <1>3, <1>4 DEF m, D

(* What a step of writing out has to see to: the frame that it may add on  *)
(* top of the first n, and the jumps.                                      *)
NewFrame(n, l) ==
  n < Len(stack') =>
    LET f == stack'[n + 1]
    IN  /\ f.role # "root" /\ FrameKeeps(n + 1)' /\ FrameNested(n + 1)'
        /\ f.role = "loop" => /\ f.brk \in Label /\ f.brk # l /\ f.cont # None
                              /\ nextLabel <= f.brk /\ f.brk < nextLabel'
        /\ f.role # "loop" => f.cont = stack'[n].cont /\ f.brk = stack'[n].brk

StillOpen(n, l) == \A d \in OpenLoops : d <= n => stack[d].brk # l

OldJumps(n) ==
  /\ \A k \in DOMAIN dest : IsJump(dest[k]) =>
       \/ dest'[k].label = dest[k].label
       \/ dest'[k].label # None /\ DeclaredIn(dest', dest'[k].label) # {}
  /\ \A d \in DOMAIN stack : d > n =>
       /\ stack[d].jump \in DOMAIN dest => dest'[stack[d].jump].label # None
       /\ d \in OpenLoops => DeclaredIn(dest', stack[d].brk) # {}

NewJumps == \A k \in DOMAIN dest' \ DOMAIN dest : IsJump(dest'[k]) => LeadsOn(k)

LEMMA WritingKeeps ==
  ASSUME LowerInv, phase = "lower", phase' = "lower", turned' = turned, nextVar' = nextVar,
         blocks' \in Shaped(blocks), DeclsRight',
         nextLabel' \in Nat, nextLabel <= nextLabel',
         nextLabel' = nextLabel \/ nextLabel' - 1 \in Label,
         Grows(dest, dest'), NEW l, EndsWith(l),
         NEW n \in Nat, n > 0, FramesKept(n), Len(stack') = n \/ Len(stack') = n + 1,
         NewFrame(n, l), StillOpen(n, l), OldJumps(n), NewJumps
  PROVE  LowerInv'
<1>1. /\ Tables /\ Structured(blocks) /\ LabelsNew /\ BreaksOpen /\ JumpsLead /\ Frames
  BY DEF LowerInv
<1>2. /\ dest \in Seq(Op) /\ blocks \in Seq(SsaBlock) /\ stack \in Seq(FrameType)
      /\ nextLabel \in Nat /\ Label \subseteq Nat
  BY LowerTypes
<1>3. Tables'
  <2>1. dest' \in Seq(Op)
    BY DEF Grows
  <2>2. nextLabel' \in Nat \ {0} /\ nextLabel' - 1 \in Label \cup {1}
    BY <1>1 DEF Tables
  <2> QED BY <1>1, <2>1, <2>2 DEF Tables
<1>4. Structured(blocks')
      /\ \A loops : LeavesWithin(blocks, loops) => LeavesWithin(blocks', loops)
  BY <1>1, ShapeKeepsStructure
<1>5. LabelsNew'
  BY <1>1, <1>2, LabelsStayNew
<1>6. stack' \in Seq(FrameType) /\ Len(stack') \in Nat /\ DOMAIN stack' = 1 .. Len(stack')
  BY DEF FramesKept
<1>7. \A d \in DOMAIN stack' : d \in Nat /\ (d > n => d = n + 1 /\ n < Len(stack'))
  BY <1>6, OneMore
<1>8. BreaksOpen'
  <2>1. \A d \in OpenLoops' : d > n =>
          /\ d = n + 1 /\ stack'[d].brk \in Label /\ stack'[d].brk # l
          /\ nextLabel <= stack'[d].brk /\ stack'[d].brk < nextLabel'
    BY <1>7 DEF OpenLoops, NewFrame
  <2>2. \A d \in OpenLoops : d <= n => stack[d].brk # l
    BY DEF StillOpen
  <2> QED BY <1>1, <1>2, <2>1, <2>2, BreaksStayOpen
<1>9. JumpsLead'
  BY <1>1, <1>2, JumpsStillLead DEF OldJumps, NewJumps
<1>10. \A d \in 1 .. n : FrameKeeps(d)' /\ (d # 1 => FrameNested(d)')
  BY <1>1, <1>2, FramesStay
<1>11. Frames'
  <2> SUFFICES ASSUME NEW d \in DOMAIN stack'
               PROVE  /\ FrameKeeps(d)'
                      /\ IF d = 1 THEN stack'[d].role = "root" /\ stack'[d].block = Root
                         ELSE stack'[d].role # "root" /\ FrameNested(d)'
    BY <1>6 DEF Frames
  <2>1. CASE d \in 1 .. n
    <3>1. d \in DOMAIN stack
      BY <1>2, <2>1 DEF FramesKept
    <3>2. SameFrame(stack[d], stack'[d])
      BY <2>1 DEF FramesKept
    <3>3. IF d = 1 THEN stack[d].role = "root" /\ stack[d].block = Root
          ELSE stack[d].role # "root"
      BY <1>1, <3>1 DEF Frames
    <3> QED BY <1>10, <2>1, <3>2, <3>3 DEF SameFrame
  <2>2. CASE d = n + 1
    <3>1. d \notin 1 .. n
      BY <2>2
    <3>2. n < Len(stack') /\ d # 1
      BY <1>6, <3>1, OneMore
    <3> QED BY <2>2, <3>2 DEF NewFrame
  <2>3. d \in 1 .. n \/ d = n + 1
    BY <1>6, OneMore
  <2> QED BY <2>1, <2>2, <2>3
<1>12. stack' # <<>>
  BY <1>6, OneMore
<1>13. PICK loops \in SUBSET (DOMAIN blocks \ {Root}) :
         LeavesWithin(blocks, loops) /\ LoopsKnown(loops)
  BY DEF LowerInv
<1>14. LeavesWithin(blocks', loops) /\ DOMAIN blocks' = DOMAIN blocks
  BY <1>4, <1>13 DEF Shaped, SameShape
<1>15. ASSUME NEW d \in 1 .. n, stack'[d].block \in loops
       PROVE  stack'[d].cont # None /\ stack'[d].brk # None
  <2>1. d \in DOMAIN stack /\ SameFrame(stack[d], stack'[d])
    BY <1>2 DEF FramesKept
  <2> QED BY <1>13, <1>15, <2>1 DEF SameFrame, LoopsKnown
<1>16. ASSUME n < Len(stack'), stack'[n + 1].block \in loops
       PROVE  stack'[n + 1].cont # None /\ stack'[n + 1].brk # None
  <2> DEFINE f == stack'[n + 1]
             b == stack'[n].block
             op == blocks'[b].ops[stack'[n].at]
  <2>1. CASE f.role = "loop"
    <3>1. f.brk \in Label /\ f.cont # None
      BY <1>16, <2>1 DEF NewFrame
    <3>2. None \notin Label
      BY LowerTypes
    <3> QED BY <3>1, <3>2
  <2>2. CASE f.role # "loop"
    <3>1. f.role \in BranchRole
      <4>1. n + 1 \in DOMAIN stack'
        BY <1>6, <1>16, OneMore
      <4>2. f.role \in BranchRole \cup {"root", "loop"}
        BY <1>6, <4>1, FrameFields
      <4> QED BY <1>16, <2>2, <4>2 DEF NewFrame
    <3>2. n + 1 - 1 = n
      OBVIOUS
    <3>7. FrameNested(n + 1)'
      BY <1>16 DEF NewFrame
    <3>3. /\ stack'[n].at \in DOMAIN blocks'[b].ops /\ f.block \in BlocksOf(op)
          /\ op.id = "IF"
      <4>1. /\ stack'[n].at \in DOMAIN blocks'[stack'[n].block].ops
            /\ f.block \in BlocksOf(OpAt(blocks', stack'[n]))
            /\ f.role \in BranchRole => OpAt(blocks', stack'[n]).id = "IF"
        BY <3>2, <3>7 DEF FrameNested
      <4>2. op = OpAt(blocks', stack'[n])
        BY DEF OpAt
      <4> HIDE DEF op, f, b
      <4> QED BY <3>1, <4>1, <4>2 DEF b
    <3>4. b \in DOMAIN blocks'
      BY <1>10 DEF FrameKeeps
    <3>5. b \in loops
      <4>1. b \in loops \/ op.id \in LoopId \/ BlocksOf(op) \cap loops = {}
        BY <1>14, <3>3, <3>4 DEF LeavesWithin
      <4> HIDE DEF op
      <4> QED BY <1>16, <3>3, <4>1 DEF LoopId
    <3>6. stack'[n].cont # None /\ stack'[n].brk # None
      BY <1>15, <3>5
    <3>8. f.cont = stack'[n].cont /\ f.brk = stack'[n].brk
      BY <1>16, <2>2 DEF NewFrame
    <3> QED BY <3>6, <3>8
  <2> QED BY <2>1, <2>2
<1>17. LoopsKnown(loops)'
  BY <1>6, <1>7, <1>15, <1>16 DEF LoopsKnown
<1> QED BY <1>3, <1>4, <1>5, <1>8, <1>9, <1>11, <1>12, <1>13, <1>14, <1>17 DEF LowerInv

-----------------------------------------------------------------------------
(* Steps that write ops behind the others. *)

LEMMA WrittenBehind ==
  ASSUME NEW old \in Seq(Op), NEW end \in Seq(Op)
  PROVE  LET new == old \o end
         IN  /\ new \in Seq(Op) /\ Len(new) = Len(old) + Len(end)
             /\ Len(old) \in Nat /\ Len(end) \in Nat
             /\ \A k \in DOMAIN old : k \in DOMAIN new /\ new[k] = old[k]
             /\ \A k \in DOMAIN new \ DOMAIN old :
                  /\ k - Len(old) \in DOMAIN end /\ new[k] = end[k - Len(old)]
                  /\ k = Len(old) + (k - Len(old))
             /\ \A j \in DOMAIN end :
                  Len(old) + j \in DOMAIN new /\ new[Len(old) + j] = end[j]
<1> DEFINE m == Len(old)
           n == Len(end)
           new == old \o end
<1>1. m \in Nat /\ n \in Nat /\ DOMAIN old = 1 .. m /\ DOMAIN end = 1 .. n
  OBVIOUS
<1>2. new \in Seq(Op) /\ Len(new) = m + n /\ DOMAIN new = 1 .. m + n
  OBVIOUS
<1>3. \A k \in 1 .. m + n : new[k] = IF k <= m THEN old[k] ELSE end[k - m]
  OBVIOUS
<1> HIDE DEF m, n, new
<1>4. \A k \in DOMAIN old : k \in DOMAIN new /\ new[k] = old[k]
  BY <1>1, <1>2, <1>3
<1>5. \A k \in DOMAIN new \ DOMAIN old :
        k - m \in DOMAIN end /\ new[k] = end[k - m] /\ k = m + (k - m)
  BY <1>1, <1>2, <1>3
<1>6. \A j \in DOMAIN end : m + j \in DOMAIN new /\ new[m + j] = end[j]
  <2> SUFFICES ASSUME NEW j \in 1 .. n
               PROVE  m + j \in DOMAIN new /\ new[m + j] = end[j]
    BY <1>1
  <2>1. m + j \in 1 .. m + n /\ ~ (m + j <= m) /\ (m + j) - m = j
    BY <1>1
  <2> QED BY <1>2, <1>3, <2>1
<1> QED BY <1>1, <1>2, <1>4, <1>5, <1>6 DEF m, n, new

(* The next label is nowhere yet. *)
LEMMA NextLabelIsNew ==
  ASSUME LowerInv
  PROVE  /\ DeclaredIn(dest, nextLabel) = {}
         /\ \A d \in OpenLoops : stack[d].brk # nextLabel
         /\ \A d \in OpenLoops : stack[d].brk \in Nat
<1>1. Label \subseteq Nat /\ nextLabel \in Nat
  BY LowerTypes
<1>2. LabelsNew /\ BreaksOpen
  BY DEF LowerInv
<1>3. \A k \in DOMAIN dest : dest[k].id = "LABEL" => dest[k].label # nextLabel
  <2>1. \A k \in DOMAIN dest : dest[k].id = "LABEL" =>
          dest[k].label \in Nat /\ dest[k].label < nextLabel
    BY <1>1, <1>2 DEF LabelsNew
  <2>2. \A x \in Nat : x < nextLabel => x # nextLabel
    BY <1>1
  <2> QED BY <2>1, <2>2
<1>4. \A d \in OpenLoops : stack[d].brk # nextLabel /\ stack[d].brk \in Nat
  <2>1. \A d \in OpenLoops : stack[d].brk \in Nat /\ stack[d].brk < nextLabel
    BY <1>1, <1>2 DEF BreaksOpen
  <2>2. \A x \in Nat : x < nextLabel => x # nextLabel
    BY <1>1
  <2> QED BY <2>1, <2>2
<1> QED BY <1>3, <1>4 DEF DeclaredIn

(* Ops without labels are written, and the frame moves on. *)
LEMMA CopyingKeeps ==
  ASSUME LowerInv, phase = "lower", NEW end \in Seq(Op), dest' = dest \o end,
         \A k \in DOMAIN end :
           /\ end[k].id # "LABEL"
           /\ IsJump(end[k]) =>
                /\ end[k].label # None
                /\ \/ DeclaredIn(dest, end[k].label) # {}
                   \/ \E d \in OpenLoops : stack[d].brk = end[k].label,
         stack' = Forward(stack),
         UNCHANGED <<phase, turned, nextVar, nextLabel, blocks, decl>>
  PROVE  LowerInv'
<1> DEFINE n == Len(stack)
<1>1. /\ dest \in Seq(Op) /\ blocks \in Seq(SsaBlock) /\ stack \in Seq(FrameType)
      /\ n \in Nat /\ nextLabel \in Nat /\ n > 0
  BY LowerTypes, TopFrame
<1>2. FramesKept(n) /\ Len(stack') = n
  <2>1. FramesKept(Len(stack')) /\ Len(stack') = Len(stack)
    BY KeptByForward
  <2> QED BY <2>1
<1>3. /\ dest' \in Seq(Op)
      /\ \A k \in DOMAIN dest : k \in DOMAIN dest' /\ dest'[k] = dest[k]
      /\ \A k \in DOMAIN dest' \ DOMAIN dest :
           k - Len(dest) \in DOMAIN end /\ dest'[k] = end[k - Len(dest)]
  BY <1>1, WrittenBehind
<1>4. Grows(dest, dest')
  BY <1>3 DEF Grows
<1>5. EndsWith(nextLabel)
  <2>1. \A k \in DOMAIN dest' \ DOMAIN dest : dest'[k].id # "LABEL"
    BY <1>3
  <2>2. DeclaredIn(dest, nextLabel) = {}
    BY NextLabelIsNew
  <2> QED BY <2>1, <2>2 DEF EndsWith
<1>6. blocks' \in Shaped(blocks)
  BY <1>1, ShapeReflexive
<1>7. DeclsRight'
  BY DEF LowerInv, Tables, DeclsRight
<1>8. NewFrame(n, nextLabel)
  BY <1>1, <1>2 DEF NewFrame
<1>9. StillOpen(n, nextLabel)
  BY NextLabelIsNew DEF StillOpen
<1>10. OldJumps(n)
  <2>1. \A d \in DOMAIN stack : d \in Nat /\ ~ (d > n)
    BY <1>1
  <2> HIDE DEF n
  <2> QED BY <1>3, <2>1 DEF OldJumps
<1>11. NewJumps
  <2> SUFFICES ASSUME NEW k \in DOMAIN dest' \ DOMAIN dest, IsJump(dest'[k])
               PROVE  LeadsOn(k)
    BY DEF NewJumps
  <2>1. /\ dest'[k].label # None
        /\ \/ DeclaredIn(dest, dest'[k].label) # {}
           \/ \E d \in OpenLoops : stack[d].brk = dest'[k].label
    BY <1>3, ZenonT(60)
  <2>2. DeclaredIn(dest, dest'[k].label) \subseteq DeclaredIn(dest', dest'[k].label)
    BY <1>4, DeclaredGrows
  <2>3. \A d \in OpenLoops : d \in OpenLoops' /\ stack'[d].brk = stack[d].brk
    <3> SUFFICES ASSUME NEW d \in OpenLoops
                 PROVE  d \in OpenLoops' /\ stack'[d].brk = stack[d].brk
      OBVIOUS
    <3>1. d \in DOMAIN stack /\ stack[d].role = "loop"
      BY DEF OpenLoops
    <3>2. d \in 1 .. n
      BY <1>1, <3>1
    <3>3. d \in DOMAIN stack'
      BY <1>2, <3>2 DEF FramesKept
    <3>4. SameFrame(stack[d], stack'[d])
      BY <1>2, <3>2 DEF FramesKept
    <3> QED BY <3>1, <3>3, <3>4 DEF SameFrame, OpenLoops
  <2> QED BY <2>1, <2>2, <2>3 DEF LeadsOn
<1>12. phase' = "lower" /\ turned' = turned /\ nextVar' = nextVar /\ nextLabel' = nextLabel
  OBVIOUS
<1> HIDE DEF n
<1> QED BY <1>1, <1>2, <1>4, <1>5, <1>6, <1>7, <1>8, <1>9, <1>10, <1>11, <1>12, WritingKeeps

LEMMA CopyOpKeeps ==
  ASSUME LowerInv, CopyOp
  PROVE  LowerInv'
<1> DEFINE op == OpAt(blocks, Top)
           x == Flat(op)
<1>1. phase = "lower" /\ AtOp(PlainId)
  BY DEF CopyOp, AtOp
<1>2. op \in SsaOp /\ op.id \in PlainId
  BY <1>1, OpAtTop
<1>3. x \in Op /\ x.id \in PlainId
  <2> HIDE DEF op
  <2>1. /\ op.outs \in Seq(Var) /\ op.args \in Seq(Val)
        /\ op.a \in Val \cup {None} /\ op.b \in Val \cup {None}
    BY <1>2, OpFields
  <2> DEFINE o == IF op.outs = <<>> THEN None ELSE op.outs[1]
             a == IF op.args = <<>> THEN op.a ELSE op.args[1]
  <2>2. o \in Var \cup {None}
    BY <2>1
  <2>3. a \in Val \cup {None}
    BY <2>1
  <2>4. op.id \in OpId
    BY <1>2 DEF PlainId, OpId
  <2>5. x = MakeOp(op.id, o, None, None, a, op.b)
    BY DEF Flat
  <2> HIDE DEF o, a, x
  <2>6. None \in Label \cup {None} /\ None \in Val \cup {None}
    OBVIOUS
  <2>7. /\ MakeOp(op.id, o, None, None, a, op.b) \in Op
        /\ MakeOp(op.id, o, None, None, a, op.b).id = op.id
    BY <2>1, <2>2, <2>3, <2>4, <2>6 DEF MakeOp, Op
  <2> QED BY <1>2, <2>5, <2>7
<1>4. x.id # "LABEL" /\ ~ IsJump(x)
  BY <1>3 DEF PlainId, IsJump
<1>5. dest' = Append(dest, x)
  BY DEF CopyOp
<1> HIDE DEF x
<1>6. <<x>> \in Seq(Op) /\ dest' = dest \o <<x>>
  BY <1>3, <1>5, LowerTypes
<1>7. \A k \in DOMAIN <<x>> : <<x>>[k] = x
  OBVIOUS
<1>8. /\ stack' = Forward(stack)
      /\ UNCHANGED <<phase, turned, nextVar, nextLabel, blocks, decl>>
  BY DEF CopyOp
<1> QED BY <1>1, <1>4, <1>6, <1>7, <1>8, CopyingKeeps

LEMMA SkipIfKeeps ==
  ASSUME LowerInv, SkipIf
  PROVE  LowerInv'
<1>1. phase = "lower"
  BY DEF SkipIf, AtOp
<1>2. <<>> \in Seq(Op) /\ DOMAIN <<>> = {}
  OBVIOUS
<1>3. dest' = dest \o <<>>
  BY LowerTypes DEF SkipIf
<1>4. /\ stack' = Forward(stack)
      /\ UNCHANGED <<phase, turned, nextVar, nextLabel, blocks, decl>>
  BY DEF SkipIf
<1> QED BY <1>1, <1>2, <1>3, <1>4, CopyingKeeps

LEMMA LeaveRoundKeeps ==
  ASSUME LowerInv, LeaveRound
  PROVE  LowerInv'
<1> DEFINE op == OpAt(blocks, Top)
           label == IF op.id = "CONTINUE" THEN Top.cont ELSE Top.brk
           moves == Moves(Top.states, op.args, DOMAIN blocks[Top.block].outs)
           jump == Jump("GOTO", label, None)
           ops == Append(moves, jump)
<1>1. phase = "lower" /\ AtOp(LeaveId)
  BY DEF LeaveRound, AtOp
<1>2. /\ op \in SsaOp /\ op.id \in LeaveId /\ Lowerable(blocks, Top.block, op)
      /\ Top.at \in DOMAIN blocks[Top.block].ops
  BY <1>1, OpAtTop
<1>3. /\ Top \in FrameType /\ Top.block \in DOMAIN blocks /\ FrameKeeps(Len(stack))
      /\ Len(stack) \in DOMAIN stack
  BY <1>1, TopFrame
<1>4. moves \in Copies
  <2>1. Top.states \in Seq(Var) /\ op.args \in Seq(Val)
    BY <1>2, <1>3, OpFields DEF FrameType
  <2>2. blocks[Top.block].outs \in Seq(Var)
    BY <1>3, LowerTypes, BlockFields
  <2>3. Len(op.args) >= Len(blocks[Top.block].outs)
    BY <1>2 DEF Lowerable
  <2>4. \A k \in DOMAIN blocks[Top.block].outs : op.args[k] \in Val
    <3> DEFINE outs == blocks[Top.block].outs
               args == op.args
    <3>1. /\ outs \in Seq(Var) /\ args \in Seq(Val) /\ Len(args) >= Len(outs)
      BY <2>1, <2>2, <2>3
    <3> HIDE DEF outs, args
    <3>2. \A k \in DOMAIN outs : args[k] \in Val
      BY <3>1
    <3> QED BY <3>2 DEF outs, args
  <2> HIDE DEF op
  <2> QED BY <2>1, <2>4, MovesAreCopies
<1>5. /\ label # None /\ label \in Label
      /\ \/ DeclaredIn(dest, label) # {}
         \/ \E d \in OpenLoops : stack[d].brk = label
  <2>1. PICK loops \in SUBSET (DOMAIN blocks \ {Root}) :
          LeavesWithin(blocks, loops) /\ LoopsKnown(loops)
    BY DEF LowerInv
  <2>2. Top.block \in loops
    BY <1>2, <1>3, <2>1 DEF LeavesWithin, OpAt
  <2>3. Top.cont # None /\ Top.brk # None
    BY <1>3, <2>1, <2>2 DEF LoopsKnown, Top
  <2>4. Top.cont \in Label /\ Top.brk \in Label
    BY <1>3, <2>3 DEF FrameType
  <2>5. DeclaredIn(dest, Top.cont) # {} /\ \E d \in OpenLoops : stack[d].brk = Top.brk
    BY <1>3, <2>3 DEF FrameKeeps, Top
  <2> HIDE DEF op
  <2> QED BY <2>3, <2>4, <2>5
<1>6. jump \in Op /\ jump.id = "GOTO" /\ jump.label = label
  <2> HIDE DEF label
  <2>1. "GOTO" \in OpId
    BY DEF OpId
  <2> QED BY <1>5, <2>1, OpsWritten
<1>7. /\ dest' = dest \o ops /\ stack' = Forward(stack)
      /\ UNCHANGED <<phase, turned, nextVar, nextLabel, blocks, decl>>
  BY DEF LeaveRound
<1> HIDE DEF moves, jump, label
<1>8. moves \in Seq(Op) /\ \A k \in DOMAIN moves : moves[k].id = "IMM"
  BY <1>4 DEF Copies
<1>9. /\ ops \in Seq(Op)
      /\ \A k \in DOMAIN ops : ops[k].id = "IMM" \/ ops[k] = jump
  BY <1>6, <1>8
<1> HIDE DEF ops
<1>10. \A k \in DOMAIN ops :
         /\ ops[k].id # "LABEL"
         /\ IsJump(ops[k]) =>
              /\ ops[k].label # None
              /\ \/ DeclaredIn(dest, ops[k].label) # {}
                 \/ \E d \in OpenLoops : stack[d].brk = ops[k].label
  BY <1>5, <1>6, <1>9 DEF IsJump
<1> QED BY <1>1, <1>7, <1>9, <1>10, CopyingKeeps

-----------------------------------------------------------------------------
(* The branches of an IF. *)

BranchFrame(role, src, jump, f, used) ==
  [Frame(role, src, jump, f.cont, f.brk, f.states) EXCEPT !.used = used]

LEMMA BranchFrames ==
  ASSUME NEW f \in FrameType, NEW role \in BranchRole, NEW src \in Nat, NEW jump \in Nat,
         NEW used \in SUBSET Nat
  PROVE  LET g == BranchFrame(role, src, jump, f, used)
         IN  /\ g \in FrameType
             /\ g.role = role /\ g.block = src /\ g.at = 1 /\ g.jump = jump /\ g.used = used
             /\ g.cont = f.cont /\ g.brk = f.brk /\ g.states = f.states
<1>1. /\ f.cont \in Label \cup {None} /\ f.brk \in Label \cup {None} /\ f.states \in Seq(Var)
  BY DEF FrameType
<1> DEFINE g == BranchFrame(role, src, jump, f, used)
<1>2. g = [role |-> role, block |-> src, at |-> 1, jump |-> jump, used |-> used,
           cont |-> f.cont, brk |-> f.brk, states |-> f.states]
  BY DEF BranchFrame, Frame
<1>3. role \in BranchRole \cup {"root", "loop"}
  OBVIOUS
<1> HIDE DEF g
<1>4. g \in FrameType
  BY <1>1, <1>2, <1>3 DEF FrameType
<1>5. /\ g.role = role /\ g.block = src /\ g.at = 1 /\ g.jump = jump /\ g.used = used
      /\ g.cont = f.cont /\ g.brk = f.brk /\ g.states = f.states
  BY <1>2
<1> QED BY <1>4, <1>5 DEF g

(* The op that a branch is entered from. *)
BranchOf(n, src) ==
  LET op == OpAt(blocks, stack[n])
  IN  /\ n \in DOMAIN stack /\ stack[n].at \in DOMAIN blocks[stack[n].block].ops
      /\ op.id = "IF" /\ src \in BlocksOf(op)

LEMMA BranchFits ==
  ASSUME LowerInv, NEW n, NEW src, BranchOf(n, src)
  PROVE  LET op == OpAt(blocks, stack[n])
         IN  /\ op \in SsaOp /\ op.outs \in Seq(Var) /\ src \in DOMAIN blocks
             /\ blocks[src].outs \in Seq(Var) /\ Len(blocks[src].outs) = Len(op.outs)
             /\ DOMAIN blocks[src].outs = DOMAIN op.outs
             /\ Lowerable(blocks, stack[n].block, op)
<1> DEFINE b == stack[n].block
           op == OpAt(blocks, stack[n])
<1>1. b \in DOMAIN blocks /\ blocks \in Seq(SsaBlock)
  BY LowerTypes DEF BranchOf, LowerInv, Frames, FrameKeeps
<1>2. op \in SsaOp /\ Lowerable(blocks, b, op) /\ op.id = "IF" /\ src \in BlocksOf(op)
  BY <1>1, OpsOfBlocks DEF OpAt, BranchOf, LowerInv, Structured
<1>3. op.outs \in Seq(Var)
  BY <1>2, OpFields
<1> HIDE DEF b, op
<1>4. src \in DOMAIN blocks /\ Len(blocks[src].outs) = Len(op.outs)
  BY <1>2 DEF Lowerable
<1>5. blocks[src].outs \in Seq(Var)
  BY <1>1, <1>4, BlockFields
<1>6. DOMAIN blocks[src].outs = 1 .. Len(blocks[src].outs) /\ DOMAIN op.outs = 1 .. Len(op.outs)
  BY <1>3, <1>5
<1> QED BY <1>2, <1>3, <1>4, <1>5, <1>6 DEF b, op

LEMMA BranchEntered ==
  ASSUME LowerInv, NEW n, NEW src, BranchOf(n, src),
         NEW role \in BranchRole, role = "els" => OpAt(blocks, stack[n]).then # None,
         NEW used \in SUBSET DOMAIN OpAt(blocks, stack[n]).outs,
         NEW jump, jump \in DOMAIN dest', IsJump(dest'[jump]), Grows(dest, dest'),
         blocks' = WithResults(src, OpAt(blocks, stack[n]).outs, used),
         FramesKept(n), Len(stack') = n + 1, stack'[n].at = stack[n].at,
         stack'[n + 1] = BranchFrame(role, src, jump, stack[n], used), NEW l
  PROVE  blocks' \in Shaped(blocks) /\ NewFrame(n, l)
<1> DEFINE op == OpAt(blocks, stack[n])
           new == OpAt(blocks', stack'[n])
           f == stack'[n + 1]
<1>1. /\ op \in SsaOp /\ op.outs \in Seq(Var) /\ src \in DOMAIN blocks
      /\ Len(blocks[src].outs) = Len(op.outs) /\ blocks \in Seq(SsaBlock)
      /\ DOMAIN blocks[src].outs = DOMAIN op.outs
  BY BranchFits, LowerTypes
<1>2. blocks' \in Shaped(blocks)
  BY <1>1, ResultsRenamed
<1>3. /\ n \in DOMAIN stack /\ stack[n] \in FrameType /\ FrameKeeps(n) /\ n \in Nat /\ n > 0
      /\ n \in 1 .. n
  BY LowerTypes DEF BranchOf, LowerInv, Frames
<1>4. SameFrame(stack[n], stack'[n])
  BY <1>3 DEF FramesKept
<1>5. src \in Nat /\ jump \in Nat /\ used \in SUBSET Nat
  <2>1. jump \in Nat
    BY DEF Grows
  <2>2. DOMAIN op.outs \subseteq Nat
    BY <1>1
  <2> QED BY <1>1, <2>1, <2>2, BlockFields
<1>6. /\ f.role = role /\ f.block = src /\ f.at = 1 /\ f.jump = jump /\ f.used = used
      /\ f.cont = stack[n].cont /\ f.brk = stack[n].brk
  BY <1>3, <1>5, BranchFrames
<1>7. DOMAIN blocks' = DOMAIN blocks /\ blocks' \in Seq(SsaBlock)
  BY <1>2 DEF Shaped, SameShape
<1>8. FrameKeeps(n + 1)'
  <2>1. DOMAIN blocks'[src].outs = DOMAIN blocks[src].outs
    <3>1. Len(blocks'[src].outs) = Len(blocks[src].outs)
      BY <1>1, <1>2 DEF Shaped, SameShape, SameBlock
    <3>2. blocks'[src].outs \in Seq(Var) /\ blocks[src].outs \in Seq(Var)
      BY <1>1, <1>7, BlockFields
    <3>3. /\ DOMAIN blocks'[src].outs = 1 .. Len(blocks'[src].outs)
          /\ DOMAIN blocks[src].outs = 1 .. Len(blocks[src].outs)
      BY <3>2
    <3> QED BY <3>1, <3>3
  <2>2. f.used \subseteq DOMAIN blocks'[f.block].outs
    BY <1>1, <1>6, <2>1
  <2>3. f.cont # None => DeclaredIn(dest', f.cont) # {}
    <3>1. stack[n].cont # None => DeclaredIn(dest, stack[n].cont) # {}
      BY <1>3 DEF FrameKeeps
    <3>2. DeclaredIn(dest, stack[n].cont) \subseteq DeclaredIn(dest', stack[n].cont)
      BY DeclaredGrows
    <3> QED BY <1>6, <3>1, <3>2
  <2>4. f.brk # None => \E e \in OpenLoops' : e <= n + 1 /\ stack'[e].brk = f.brk
    <3> SUFFICES ASSUME f.brk # None
                 PROVE  \E e \in OpenLoops' : e <= n + 1 /\ stack'[e].brk = f.brk
      OBVIOUS
    <3>1. PICK e \in OpenLoops : e <= n /\ stack[e].brk = stack[n].brk
      BY <1>3, <1>6 DEF FrameKeeps
    <3>2. e \in DOMAIN stack /\ stack[e].role = "loop" /\ e \in 1 .. n /\ e <= n + 1
      BY <1>3, <3>1, LowerTypes DEF OpenLoops
    <3>3. SameFrame(stack[e], stack'[e]) /\ e \in DOMAIN stack'
      BY <3>2 DEF FramesKept
    <3>4. e \in OpenLoops' /\ stack'[e].brk = f.brk
      BY <1>6, <3>1, <3>2, <3>3 DEF SameFrame, OpenLoops
    <3> QED BY <3>2, <3>4
  <2>5. /\ f.block \in DOMAIN blocks' /\ f.at > 0
        /\ f.role \in BranchRole /\ f.role # "loop"
        /\ f.jump \in DOMAIN dest' /\ IsJump(dest'[f.jump])
    BY <1>1, <1>6, <1>7 DEF BranchRole
  <2> HIDE DEF f
  <2>6. /\ f.block \in DOMAIN blocks' /\ f.at > 0
        /\ f.used \subseteq DOMAIN blocks'[f.block].outs
        /\ f.role \in BranchRole => f.jump \in DOMAIN dest' /\ IsJump(dest'[f.jump])
        /\ f.role \notin BranchRole => f.jump = 0
        /\ f.role = "loop" => f.cont # None /\ Len(f.states) = Len(blocks'[f.block].outs)
        /\ f.cont # None => DeclaredIn(dest', f.cont) # {}
        /\ f.brk # None => \E e \in OpenLoops' : e <= n + 1 /\ stack'[e].brk = f.brk
    BY <2>2, <2>3, <2>4, <2>5
  <2> QED BY <2>6 DEF FrameKeeps, f
<1>9. FrameNested(n + 1)'
  <2>1. n + 1 - 1 = n
    BY <1>3
  <2> DEFINE b == stack[n].block
             k == stack[n].at
  <2>2. stack'[n].block = b /\ stack'[n].at = k
    BY <1>4 DEF SameFrame
  <2>3. b \in DOMAIN blocks /\ k \in DOMAIN blocks[b].ops
    BY <1>3 DEF FrameKeeps, BranchOf
  <2>4. k \in DOMAIN blocks'[b].ops /\ SameOp(blocks[b].ops[k], blocks'[b].ops[k])
    BY <1>2, <2>3 DEF Shaped, SameShape, SameBlock
  <2>5. k \in DOMAIN blocks'[b].ops /\ SameOp(op, new)
    BY <2>2, <2>4 DEF OpAt
  <2>6. new \in SsaOp
    BY <1>7, <2>2, <2>3, <2>4, OpsOfBlocks DEF OpAt
  <2> HIDE DEF op, new, b, k
  <2>7. BlocksOf(new) = BlocksOf(op) /\ new.id = op.id /\ new.then = op.then
    BY <2>5, SameBlocks DEF SameOp
  <2>8. DOMAIN new.outs = DOMAIN op.outs
    <3>1. new.outs \in Seq(Var) /\ op.outs \in Seq(Var) /\ Len(new.outs) = Len(op.outs)
      BY <1>1, <2>5, <2>6, OpFields DEF SameOp
    <3>2. DOMAIN new.outs = 1 .. Len(new.outs) /\ DOMAIN op.outs = 1 .. Len(op.outs)
      BY <3>1
    <3> QED BY <3>1, <3>2
  <2>9. op.id = "IF" /\ src \in BlocksOf(op) /\ (role = "els" => op.then # None)
        /\ used \subseteq DOMAIN op.outs
    BY DEF BranchOf, op
  <2>10. /\ stack'[n].at \in DOMAIN blocks'[stack'[n].block].ops
         /\ f.block \in BlocksOf(new)
         /\ f.role \in BranchRole => new.id = "IF" /\ f.used \subseteq DOMAIN new.outs
         /\ f.role = "els" => new.then # None
         /\ f.role = "loop" => new.id = "INFINITE"
    BY <1>6, <2>2, <2>5, <2>7, <2>8, <2>9 DEF BranchRole
  <2>11. ASSUME NEW d, d = n + 1
         PROVE  FrameNested(d)'
    <3>1. d - 1 = n
      BY <1>3, <2>11
    <3>2. new = OpAt(blocks', stack'[d - 1])
      BY <3>1 DEF new
    <3>3. /\ stack'[d - 1].at \in DOMAIN blocks'[stack'[d - 1].block].ops
          /\ stack'[d].block \in BlocksOf(new)
          /\ stack'[d].role \in BranchRole =>
               new.id = "IF" /\ stack'[d].used \subseteq DOMAIN new.outs
          /\ stack'[d].role = "els" => new.then # None
          /\ stack'[d].role = "loop" => new.id = "INFINITE"
      BY <2>10, <2>11, <3>1
    <3> QED BY <3>2, <3>3 DEF FrameNested
  <2> QED BY <2>11
<1>10. /\ f.role # "root" /\ f.role # "loop"
       /\ f.cont = stack'[n].cont /\ f.brk = stack'[n].brk
  BY <1>4, <1>6 DEF SameFrame, BranchRole
<1> QED BY <1>2, <1>8, <1>9, <1>10 DEF NewFrame

LEMMA LabelsAreTaken ==
  ASSUME LowerInv, NEW count \in Nat, count > 0, TakeLabels(count), blocks' \in Shaped(blocks)
  PROVE  /\ nextLabel \in Label /\ nextLabel + count - 1 \in Label
         /\ nextLabel' = nextLabel + count /\ nextLabel' \in Nat /\ nextLabel <= nextLabel'
         /\ nextLabel' - 1 \in Label
         /\ DeclsRight'
<1>1. nextLabel \in Nat /\ DeclsRight /\ Structured(blocks)
  BY LowerTypes DEF LowerInv, Tables
<1>2. /\ nextLabel .. nextLabel + count - 1 \subseteq Label
      /\ nextLabel' = nextLabel + count
      /\ decl' = [v \in Var |-> IF v \in NewLabels(count) THEN NoDecl ELSE decl[v]]
  BY DEF TakeLabels, NewLabels, WithLabels
<1>3. /\ nextLabel \in nextLabel .. nextLabel + count - 1
      /\ nextLabel + count - 1 \in nextLabel .. nextLabel + count - 1
      /\ (nextLabel + count) - 1 = nextLabel + count - 1
      /\ nextLabel + count \in Nat /\ nextLabel <= nextLabel + count
  BY <1>1
<1>4. DeclsRight'
  <2>1. /\ decl' = [v \in Var |-> decl'[v]]
        /\ \A v \in Var : decl'[v] = decl[v] \/ decl'[v] = NoDecl
    BY <1>2
  <2> QED BY <1>1, <2>1, DeclsStay
<1> QED BY <1>2, <1>3, <1>4

LEMMA LabelOps ==
  ASSUME NEW l \in Label
  PROVE  LabelOp(l) \in Op /\ LabelOp(l).id = "LABEL" /\ LabelOp(l).label = l
<1>1. "LABEL" \in OpId
  BY DEF OpId
<1> QED BY <1>1 DEF LabelOp, Jump, MakeOp, Op

LEMMA JumpOps ==
  ASSUME NEW id \in {"GOTO", "COND"}, NEW l \in Label \cup {None}, NEW cond \in Val \cup {None}
  PROVE  /\ Jump(id, l, cond) \in Op /\ IsJump(Jump(id, l, cond))
         /\ Jump(id, l, cond).id = id /\ Jump(id, l, cond).label = l
<1>1. id \in OpId
  BY DEF OpId
<1> QED BY <1>1 DEF Jump, MakeOp, Op, IsJump

(* The end of a branch: the jump over it gets its label. *)
LEMMA BranchCloses ==
  ASSUME LowerInv, phase = "lower", Top.role \in BranchRole,
         nextLabel \in Label, nextLabel' = nextLabel + 1,
         NEW end \in Seq(Op), end # <<>>, dest' = Patched(Top.jump, nextLabel) \o end,
         end[Len(end)] = LabelOp(nextLabel),
         \A k \in DOMAIN end : k # Len(end) => end[k].id # "LABEL"
  PROVE  /\ Grows(dest, dest') /\ EndsWith(nextLabel) /\ OldJumps(Len(stack) - 1)
         /\ DeclaredIn(dest', nextLabel) # {}
         /\ Len(dest') = Len(dest) + Len(end) /\ Len(dest) \in Nat /\ Len(end) \in Nat
         /\ \A k \in DOMAIN dest' \ DOMAIN dest :
              k - Len(dest) \in DOMAIN end /\ dest'[k] = end[k - Len(dest)]
              /\ k = Len(dest) + (k - Len(dest))
         /\ \A j \in DOMAIN end :
              Len(dest) + j \in DOMAIN dest' /\ dest'[Len(dest) + j] = end[j]
<1> DEFINE j == Top.jump
           old == Patched(j, nextLabel)
           n == Len(stack) - 1
<1>1. dest \in Seq(Op) /\ Len(stack) \in Nat /\ None \notin Label /\ Label \subseteq Nat
      /\ nextLabel \in Nat
  BY LowerTypes
<1>2. /\ Len(stack) \in DOMAIN stack /\ Top = stack[Len(stack)]
      /\ j \in DOMAIN dest /\ IsJump(dest[j])
  BY TopFrame DEF FrameKeeps, Top
<1>3. /\ old \in Seq(Op) /\ DOMAIN old = DOMAIN dest /\ Len(old) = Len(dest)
      /\ \A k \in DOMAIN dest : /\ k # j => old[k] = dest[k]
                                /\ old[k].id = dest[k].id
      /\ old[j].label = nextLabel
  <2> DEFINE x == [dest[j] EXCEPT !.label = nextLabel]
  <2>1. dest[j] \in Op
    BY <1>1, <1>2
  <2>2. x \in Op /\ x.id = dest[j].id /\ x.label = nextLabel
    <3> DEFINE y == dest[j]
    <3>1. y \in Op
      BY <2>1
    <3> HIDE DEF y
    <3>2. /\ [y EXCEPT !.label = nextLabel] \in Op
          /\ [y EXCEPT !.label = nextLabel].id = y.id
          /\ [y EXCEPT !.label = nextLabel].label = nextLabel
      BY <3>1 DEF Op
    <3> QED BY <3>2 DEF y
  <2>3. old = [dest EXCEPT ![j] = x]
    BY DEF Patched
  <2> HIDE DEF x, old, j
  <2> QED BY <1>1, <1>2, <2>2, <2>3
<1>4. dest' = old \o end
  OBVIOUS
<1> HIDE DEF old, j
<1>5. /\ dest' \in Seq(Op) /\ Len(dest') = Len(dest) + Len(end)
      /\ Len(dest) \in Nat /\ Len(end) \in Nat
      /\ \A k \in DOMAIN dest : k \in DOMAIN dest' /\ dest'[k] = old[k]
      /\ \A k \in DOMAIN dest' \ DOMAIN dest :
           k - Len(dest) \in DOMAIN end /\ dest'[k] = end[k - Len(dest)]
           /\ k = Len(dest) + (k - Len(dest))
      /\ \A i \in DOMAIN end :
           Len(dest) + i \in DOMAIN dest' /\ dest'[Len(dest) + i] = end[i]
  <2> DEFINE new == old \o end
  <2>1. /\ new \in Seq(Op) /\ Len(new) = Len(old) + Len(end)
        /\ Len(old) \in Nat /\ Len(end) \in Nat
        /\ \A k \in DOMAIN old : k \in DOMAIN new /\ new[k] = old[k]
        /\ \A k \in DOMAIN new \ DOMAIN old :
             /\ k - Len(old) \in DOMAIN end /\ new[k] = end[k - Len(old)]
             /\ k = Len(old) + (k - Len(old))
        /\ \A i \in DOMAIN end :
             Len(old) + i \in DOMAIN new /\ new[Len(old) + i] = end[i]
    BY <1>3, WrittenBehind
  <2>2. dest' = new
    BY <1>4
  <2> HIDE DEF new
  <2> QED BY <1>3, <2>1, <2>2
<1>6. Grows(dest, dest')
  <2> SUFFICES ASSUME NEW k \in DOMAIN dest
               PROVE  /\ k \in DOMAIN dest' /\ dest'[k].id = dest[k].id
                      /\ dest[k].id = "LABEL" => dest'[k].label = dest[k].label
    BY <1>5 DEF Grows
  <2>1. dest[k].id = "LABEL" => k # j
    BY <1>2 DEF IsJump, j
  <2> QED BY <1>3, <1>5, <2>1
<1>7. EndsWith(nextLabel)
  <2>1. DeclaredIn(dest, nextLabel) = {}
    BY NextLabelIsNew
  <2>2. ASSUME NEW k \in DOMAIN dest' \ DOMAIN dest, dest'[k].id = "LABEL"
        PROVE  k = Len(dest') /\ dest'[k].label = nextLabel
    <3>1. k - Len(dest) = Len(end)
      BY <1>5, <2>2
    <3>2. k = Len(dest') /\ dest'[k] = end[Len(end)]
      BY <1>5, <3>1
    <3>3. dest'[k] = LabelOp(nextLabel)
      BY <3>2
    <3> QED BY <3>2, <3>3, LabelOps
  <2>3. nextLabel < nextLabel'
    BY <1>1
  <2> QED BY <2>1, <2>2, <2>3 DEF EndsWith
<1>8. DeclaredIn(dest', nextLabel) # {}
  <2>1. Len(end) \in DOMAIN end
    OBVIOUS
  <2>2. Len(dest) + Len(end) \in DOMAIN dest' /\ dest'[Len(dest) + Len(end)] = LabelOp(nextLabel)
    BY <1>5, <2>1
  <2> QED BY <2>2, LabelOps DEF DeclaredIn
<1>9. OldJumps(n)
  <2>1. ASSUME NEW k \in DOMAIN dest, IsJump(dest[k])
        PROVE  \/ dest'[k].label = dest[k].label
               \/ dest'[k].label # None /\ DeclaredIn(dest', dest'[k].label) # {}
    <3>1. CASE k = j
      BY <1>1, <1>3, <1>5, <1>8, <3>1
    <3>2. CASE k # j
      BY <1>3, <1>5, <3>2
    <3> QED BY <3>1, <3>2
  <2>2. ASSUME NEW d \in DOMAIN stack, d > n
        PROVE  /\ stack[d].jump \in DOMAIN dest => dest'[stack[d].jump].label # None
               /\ d \in OpenLoops => DeclaredIn(dest', stack[d].brk) # {}
    <3>1. d = Len(stack)
      BY <1>1, <2>2, LowerTypes
    <3>2. stack[d] = Top /\ stack[d].jump = j
      BY <1>2, <3>1 DEF j
    <3>3. d \notin OpenLoops
      BY <3>2 DEF OpenLoops, BranchRole
    <3>4. dest'[j].label = nextLabel
      BY <1>2, <1>3, <1>5 DEF j
    <3> QED BY <1>1, <3>2, <3>3, <3>4
  <2> HIDE DEF n
  <2> QED BY <2>1, <2>2 DEF OldJumps
<1> QED BY <1>5, <1>6, <1>7, <1>8, <1>9 DEF n

LEMMA AtBranchEnd ==
  ASSUME LowerInv, NEW roles \in SUBSET BranchRole, AtEnd(roles)
  PROVE  LET n == Len(stack) - 1
             op == OpAt(blocks, Outer[Len(Outer)])
         IN  /\ phase = "lower" /\ Top.role \in roles /\ Len(stack) > 1
             /\ n \in Nat /\ n > 0 /\ n \in DOMAIN stack /\ Outer[Len(Outer)] = stack[n]
             /\ op = OpAt(blocks, stack[n])
             /\ BranchOf(n, Top.block) /\ (Top.role = "els" => op.then # None)
             /\ ResultMoves \in Copies
<1> DEFINE n == Len(stack) - 1
           op == OpAt(blocks, stack[n])
<1>1. phase = "lower" /\ Top.role \in roles /\ Top.role \in BranchRole
  BY DEF AtEnd
<1>2. Len(stack) # 1 /\ Len(stack) \in Nat /\ Len(stack) > 0
  BY <1>1, TopFrame, LowerTypes DEF BranchRole
<1>3. /\ n \in Nat /\ n > 0 /\ n \in DOMAIN stack /\ Len(Outer) = n /\ Outer[n] = stack[n]
      /\ n \in 1 .. Len(stack) - 1 /\ Len(stack) > 1
  <2> DEFINE m == Len(stack)
  <2>1. m # 1 /\ m \in Nat /\ m > 0
    BY <1>2
  <2> HIDE DEF m
  <2>2. m > 1 /\ m - 1 \in Nat /\ m - 1 > 0 /\ m - 1 \in 1 .. m - 1
    BY <2>1
  <2>3. n \in Nat /\ n > 0 /\ n \in 1 .. Len(stack) - 1 /\ Len(stack) > 1
    BY <2>2 DEF m
  <2> QED BY <1>1, <2>3, TopFrame
<1>4. FrameNested(Len(stack)) /\ Top = stack[Len(stack)]
  BY <1>1, <1>2, TopFrame DEF Top
<1>5. /\ stack[n].at \in DOMAIN blocks[stack[n].block].ops
      /\ Top.block \in BlocksOf(op)
      /\ op.id = "IF" /\ Top.used \subseteq DOMAIN op.outs
      /\ Top.role = "els" => op.then # None
  BY <1>1, <1>4 DEF FrameNested
<1>6. BranchOf(n, Top.block)
  BY <1>3, <1>5 DEF BranchOf
<1>7. ResultMoves \in Copies
  <2>1. /\ op.outs \in Seq(Var) /\ blocks[Top.block].outs \in Seq(Var)
        /\ DOMAIN blocks[Top.block].outs = DOMAIN op.outs
    BY <1>6, BranchFits
  <2>2. \A k \in DOMAIN op.outs : blocks[Top.block].outs[k] \in Val
    BY <2>1 DEF Val
  <2>3. ResultMoves = Moves(op.outs, blocks[Top.block].outs, Top.used)
    BY <1>3 DEF ResultMoves
  <2> HIDE DEF op
  <2> QED BY <2>1, <2>2, <2>3, MovesAreCopies
<1> QED BY <1>1, <1>3, <1>5, <1>6, <1>7

LEMMA BeginIfKeeps ==
  ASSUME LowerInv, BeginIf
  PROVE  LowerInv'
<1> DEFINE op == OpAt(blocks, Top)
           role == IF op.then = None THEN "only" ELSE "els"
           src == op.els
           used == Used(src, op.outs, decl)
           n == Len(stack)
           x == Jump("COND", None, op.a)
           jump == Len(dest')
           f == BranchFrame(role, src, jump, stack[n], used)
<1>1. phase = "lower" /\ AtOp({"IF"}) /\ op.els # None
  BY DEF BeginIf, AtOp
<1>2. /\ op \in SsaOp /\ op.id = "IF" /\ Top.at \in DOMAIN blocks[Top.block].ops
  BY <1>1, OpAtTop
<1>3. n \in DOMAIN stack /\ Top = stack[n] /\ stack[n] \in FrameType /\ n \in Nat /\ n > 0
  BY <1>1, TopFrame, LowerTypes DEF Top
<1>4. BranchOf(n, src)
  BY <1>1, <1>2, <1>3 DEF BranchOf, BlocksOf
<1>5. used \in SUBSET DOMAIN op.outs /\ src \in DOMAIN blocks /\ src \in Nat /\ op.outs \in Seq(Var)
  BY <1>3, <1>4, BranchFits, LowerTypes, BlockFields DEF Used
<1>6. x \in Op /\ IsJump(x) /\ x.id = "COND" /\ x.label = None
  BY <1>2, OpFields, JumpOps, ZenonT(60)
<1>7. dest' = Append(dest, x)
  BY DEF BeginIf
<1>8. /\ blocks' = WithResults(src, op.outs, used) /\ stack' = Append(stack, f)
  BY <1>3 DEF BeginIf, Into, BranchFrame
<1>9. UNCHANGED <<turned, phase, decl, nextVar, nextLabel>>
  BY DEF BeginIf
<1>10. role \in BranchRole /\ (role = "els" => op.then # None)
  BY DEF BranchRole
<1> HIDE DEF op, used, src, role, x
<1>11. /\ dest \in Seq(Op) /\ Len(dest) \in Nat /\ dest' \in Seq(Op) /\ jump = Len(dest) + 1
       /\ jump \in DOMAIN dest' /\ dest'[jump] = x
       /\ \A k \in DOMAIN dest : k \in DOMAIN dest' /\ dest'[k] = dest[k]
       /\ \A k \in DOMAIN dest' \ DOMAIN dest : k = jump
  BY <1>6, <1>7, LowerTypes
<1> HIDE DEF jump
<1>12. f \in FrameType /\ f.jump = jump /\ f.role = role
  <2>1. jump \in Nat
    BY <1>11
  <2>2. DOMAIN op.outs \subseteq Nat
    BY <1>5
  <2>3. used \in SUBSET Nat
    BY <1>5, <2>2
  <2> QED BY <1>3, <1>5, <1>10, <2>1, <2>3, BranchFrames
<1> HIDE DEF f
<1>13. /\ FramesKept(n) /\ stack'[n + 1] = f /\ stack'[n] = stack[n] /\ Len(stack') = n + 1
  <2>1. LET m == Len(stack') - 1
        IN  /\ FramesKept(m) /\ stack'[m + 1] = f /\ stack'[m] = stack[m] /\ m = Len(stack)
    BY <1>1, <1>8, <1>12, KeptByEntering
  <2>2. Len(stack') = n + 1
    BY <1>3, <1>8, LowerTypes
  <2> QED BY <2>1, <2>2
<1>14. Grows(dest, dest')
  BY <1>11 DEF Grows
<1> HIDE DEF n
<1>15. /\ blocks' \in Shaped(blocks) /\ NewFrame(n, nextLabel)
  <2>1. op = OpAt(blocks, stack[n])
    BY <1>3 DEF op
  <2>2. IsJump(dest'[jump])
    BY <1>6, <1>11
  <2>3. stack'[n + 1] = BranchFrame(role, src, jump, stack[n], used)
    BY <1>13 DEF f
  <2>4. stack'[n].at = stack[n].at
    BY <1>13
  <2> QED BY <1>4, <1>5, <1>8, <1>10, <1>11, <1>13, <1>14, <2>1, <2>2, <2>3, <2>4, BranchEntered
<1>16. EndsWith(nextLabel)
  <2>1. \A k \in DOMAIN dest' \ DOMAIN dest : dest'[k].id # "LABEL"
    BY <1>6, <1>11
  <2> QED BY <2>1, NextLabelIsNew DEF EndsWith
<1>17. DeclsRight'
  <2>1. decl' = [v \in Var |-> decl'[v]]
    BY <1>9 DEF LowerInv, Tables, DeclsRight
  <2> QED BY <1>9, <1>15, <2>1, DeclsStay DEF LowerInv, Tables
<1>18. StillOpen(n, nextLabel)
  BY NextLabelIsNew DEF StillOpen
<1>19. OldJumps(n)
  <2>1. \A d \in DOMAIN stack : ~ (d > n)
    BY LowerTypes DEF n
  <2> QED BY <1>11, <2>1 DEF OldJumps
<1>20. NewJumps
  <2>1. n + 1 \in DOMAIN stack' /\ stack'[n + 1].jump = jump
    BY <1>3, <1>12, <1>13 DEF FramesKept
  <2>2. LeadsOn(jump)
    BY <1>6, <1>11, <2>1 DEF LeadsOn
  <2> QED BY <1>11, <2>2 DEF NewJumps
<1> QED BY <1>1, <1>3, <1>9, <1>13, <1>14, <1>15, <1>16, <1>17, <1>18, <1>19, <1>20,
           LowerTypes, WritingKeeps

(* Back to the frame below, which moves on. *)
LEMMA BackToOuter ==
  ASSUME LowerInv, phase = "lower", Len(stack) > 1, stack' = Forward(Outer)
  PROVE  FramesKept(Len(stack) - 1) /\ Len(stack') = Len(stack) - 1
<1>1. /\ Outer \in Seq(FrameType) /\ Len(Outer) = Len(stack) - 1
      /\ \A d \in 1 .. Len(stack) - 1 : d \in DOMAIN stack /\ Outer[d] = stack[d]
  BY TopFrame
<1>2. Outer # <<>> /\ \A d \in DOMAIN Outer : d \in DOMAIN stack /\ Outer[d] = stack[d]
  BY <1>1
<1>3. \A d \in DOMAIN Outer : Outer[d].at > 0
  BY <1>2 DEF LowerInv, Frames, FrameKeeps
<1>4. Len(stack') = Len(stack) - 1
  BY <1>1, <1>2, <1>3, ForwardStays
<1>5. FramesKept(Len(stack'))
  BY KeptByForward
<1> QED BY <1>4, <1>5

LEMMA BranchDoneKeeps ==
  ASSUME LowerInv, BranchDone
  PROVE  LowerInv'
<1> DEFINE n == Len(stack) - 1
           last == LabelOp(nextLabel)
           end == Append(ResultMoves, last)
<1>1. /\ phase = "lower" /\ Top.role \in {"then", "only"} /\ Len(stack) > 1
      /\ n \in Nat /\ n > 0 /\ ResultMoves \in Copies /\ Top.role \in BranchRole
  <2>1. AtEnd({"then", "only"}) /\ {"then", "only"} \in SUBSET BranchRole
    BY DEF BranchDone, BranchRole
  <2> QED BY <2>1, AtBranchEnd
<1>2. /\ dest' = Patched(Top.jump, nextLabel) \o end /\ TakeLabels(1)
      /\ stack' = Forward(Outer)
      /\ UNCHANGED <<blocks, turned, phase, nextVar>>
  BY DEF BranchDone
<1>3. blocks' \in Shaped(blocks)
  BY <1>2, LowerTypes, ShapeReflexive
<1>4. /\ nextLabel \in Label /\ nextLabel' = nextLabel + 1 /\ nextLabel' \in Nat
      /\ nextLabel <= nextLabel' /\ nextLabel' - 1 \in Label /\ DeclsRight'
  BY <1>2, <1>3, LabelsAreTaken
<1>5. last \in Op /\ last.id = "LABEL"
  BY <1>4, LabelOps
<1>6. ResultMoves \in Seq(Op) /\ \A k \in DOMAIN ResultMoves : ResultMoves[k].id = "IMM"
  BY <1>1 DEF Copies
<1>7. /\ end \in Seq(Op) /\ end # <<>> /\ end[Len(end)] = last
      /\ \A k \in DOMAIN end : k # Len(end) => end[k].id = "IMM"
  <2> DEFINE s == ResultMoves
  <2>1. s \in Seq(Op) /\ \A k \in DOMAIN s : s[k].id = "IMM"
    BY <1>6
  <2> HIDE DEF s, last
  <2>2. /\ Append(s, last) \in Seq(Op) /\ Append(s, last) # <<>>
        /\ Append(s, last)[Len(Append(s, last))] = last
        /\ \A k \in DOMAIN Append(s, last) : k # Len(Append(s, last)) => Append(s, last)[k].id = "IMM"
    BY <1>5, <2>1
  <2> QED BY <2>2 DEF s
<1> HIDE DEF last, end, n
<1>8. \A k \in DOMAIN end : k # Len(end) => end[k].id # "LABEL"
  BY <1>7
<1>9. end[Len(end)] = LabelOp(nextLabel)
  BY <1>7 DEF last
<1>10. /\ Grows(dest, dest') /\ EndsWith(nextLabel) /\ OldJumps(n)
       /\ \A k \in DOMAIN dest' \ DOMAIN dest :
            k - Len(dest) \in DOMAIN end /\ dest'[k] = end[k - Len(dest)]
  BY <1>1, <1>2, <1>4, <1>7, <1>8, <1>9, BranchCloses DEF n
<1>11. FramesKept(n) /\ Len(stack') = n
  BY <1>1, <1>2, BackToOuter DEF n
<1>12. NewFrame(n, nextLabel)
  BY <1>1, <1>11 DEF NewFrame
<1>13. StillOpen(n, nextLabel)
  BY NextLabelIsNew DEF StillOpen
<1>14. NewJumps
  <2>1. \A k \in DOMAIN end : ~ IsJump(end[k])
    BY <1>5, <1>7 DEF IsJump
  <2> QED BY <1>10, <2>1 DEF NewJumps
<1> QED BY <1>1, <1>2, <1>3, <1>4, <1>10, <1>11, <1>12, <1>13, <1>14, WritingKeeps

LEMMA ElseDoneKeeps ==
  ASSUME LowerInv, ElseDone
  PROVE  LowerInv'
<1> DEFINE n == Len(stack) - 1
           op == OpAt(blocks, stack[n])
           src == op.then
           used == Used(src, op.outs, decl')
           goto == Jump("GOTO", None, None)
           last == LabelOp(nextLabel)
           end == ResultMoves \o <<goto, last>>
           jump == Len(dest') - 1
           f == BranchFrame("then", src, jump, stack[n], used)
<1>1. /\ phase = "lower" /\ Top.role = "els" /\ Len(stack) > 1
      /\ n \in Nat /\ n > 0 /\ n \in DOMAIN stack /\ Outer[Len(Outer)] = stack[n]
      /\ ResultMoves \in Copies /\ Top.role \in BranchRole
      /\ BranchOf(n, Top.block) /\ src # None
  <2>1. AtEnd({"els"}) /\ {"els"} \in SUBSET BranchRole
    BY DEF ElseDone, BranchRole
  <2> QED BY <2>1, AtBranchEnd
<1>2. /\ dest' = Patched(Top.jump, nextLabel) \o end /\ TakeLabels(1)
      /\ blocks' = WithResults(src, op.outs, used) /\ stack' = Append(Outer, f)
      /\ UNCHANGED <<turned, phase, nextVar>>
  BY <1>1 DEF ElseDone, Into, BranchFrame
<1>3. BranchOf(n, src) /\ op.id = "IF"
  BY <1>1 DEF BranchOf, BlocksOf
<1>4. /\ used \in SUBSET DOMAIN op.outs /\ src \in DOMAIN blocks /\ src \in Nat
      /\ op.outs \in Seq(Var)
  BY <1>3, BranchFits, LowerTypes, BlockFields DEF Used
<1> HIDE DEF op, src, used, last, goto, n
<1>5. blocks' \in Shaped(blocks)
  BY <1>2, <1>4, LowerTypes, ResultsRenamed
<1>6. /\ nextLabel \in Label /\ nextLabel' = nextLabel + 1 /\ nextLabel' \in Nat
      /\ nextLabel <= nextLabel' /\ nextLabel' - 1 \in Label /\ DeclsRight'
  BY <1>2, <1>5, LabelsAreTaken
<1>7. last \in Op /\ last.id = "LABEL"
  BY <1>6, LabelOps DEF last
<1>8. goto \in Op /\ IsJump(goto) /\ goto.id = "GOTO" /\ goto.label = None
  BY JumpOps DEF goto
<1>9. /\ end \in Seq(Op) /\ end # <<>> /\ end[Len(end)] = last
      /\ Len(end) > 1 /\ Len(end) - 1 \in DOMAIN end /\ end[Len(end) - 1] = goto
      /\ \A k \in DOMAIN end : k # Len(end) /\ k # Len(end) - 1 => end[k].id = "IMM"
  <2> DEFINE s == ResultMoves
             m == Len(s)
  <2>1. s \in Seq(Op) /\ \A k \in DOMAIN s : s[k].id = "IMM"
    BY <1>1 DEF Copies
  <2>2. m \in Nat /\ DOMAIN s = 1 .. m
    BY <2>1
  <2>3. /\ end \in Seq(Op) /\ Len(end) = m + 2 /\ DOMAIN end = 1 .. m + 2
        /\ end[m + 1] = goto /\ end[m + 2] = last
        /\ \A k \in 1 .. m : end[k] = s[k]
    <3> DEFINE e == <<goto, last>>
    <3>1. e \in Seq(Op) /\ Len(e) = 2 /\ e[1] = goto /\ e[2] = last
      BY <1>7, <1>8
    <3> HIDE DEF e, s
    <3>2. /\ s \o e \in Seq(Op) /\ Len(s \o e) = m + 2 /\ DOMAIN (s \o e) = 1 .. m + 2
          /\ (s \o e)[m + 1] = e[1] /\ (s \o e)[m + 2] = e[2]
          /\ \A k \in 1 .. m : (s \o e)[k] = s[k]
      <4> DEFINE new == s \o e
      <4>1. /\ new \in Seq(Op) /\ Len(new) = Len(s) + Len(e)
            /\ \A k \in DOMAIN s : new[k] = s[k]
            /\ \A j \in DOMAIN e : new[Len(s) + j] = e[j]
        BY <2>1, <3>1, WrittenBehind
      <4>2. 1 \in DOMAIN e /\ 2 \in DOMAIN e
        BY <3>1
      <4>3. new[Len(s) + 1] = e[1] /\ new[Len(s) + 2] = e[2] /\ Len(new) = Len(s) + 2
        BY <3>1, <4>1, <4>2
      <4> HIDE DEF new
      <4>4. DOMAIN new = 1 .. Len(new)
        BY <4>1
      <4>5. /\ new \in Seq(Op) /\ Len(new) = m + 2 /\ DOMAIN new = 1 .. m + 2
            /\ new[m + 1] = e[1] /\ new[m + 2] = e[2]
            /\ \A k \in 1 .. m : new[k] = s[k]
        BY <2>2, <4>1, <4>3, <4>4
      <4> QED BY <4>5 DEF new
    <3> QED BY <3>1, <3>2 DEF e, s
  <2> HIDE DEF end, m, s
  <2>4. \A k \in 1 .. m + 2 : k # m + 2 /\ k # (m + 2) - 1 => k \in 1 .. m
    BY <2>2
  <2>5. (m + 2) - 1 = m + 1 /\ m + 2 > 1 /\ m + 1 \in 1 .. m + 2 /\ m + 2 # 0
    BY <2>2
  <2>6. end # <<>>
    BY <2>3, <2>5
  <2> QED BY <2>1, <2>2, <2>3, <2>4, <2>5, <2>6
<1> HIDE DEF end
<1>10. \A k \in DOMAIN end : k # Len(end) => end[k].id # "LABEL"
  BY <1>8, <1>9
<1>11. end[Len(end)] = LabelOp(nextLabel)
  BY <1>9 DEF last
<1>12. /\ Grows(dest, dest') /\ EndsWith(nextLabel) /\ OldJumps(n)
       /\ Len(dest') = Len(dest) + Len(end) /\ Len(dest) \in Nat /\ Len(end) \in Nat
       /\ \A k \in DOMAIN dest' \ DOMAIN dest :
            /\ k - Len(dest) \in DOMAIN end /\ dest'[k] = end[k - Len(dest)]
            /\ k = Len(dest) + (k - Len(dest))
       /\ \A j \in DOMAIN end :
            Len(dest) + j \in DOMAIN dest' /\ dest'[Len(dest) + j] = end[j]
  BY <1>1, <1>2, <1>6, <1>9, <1>10, <1>11, BranchCloses DEF n
<1>13. /\ jump \in DOMAIN dest' /\ dest'[jump] = goto
       /\ \A k \in DOMAIN dest' \ DOMAIN dest : IsJump(dest'[k]) => k = jump
  <2>1. jump = Len(dest) + (Len(end) - 1)
    BY <1>12
  <2>2. Len(dest) + (Len(end) - 1) \in DOMAIN dest' /\ dest'[Len(dest) + (Len(end) - 1)] = goto
    BY <1>9, <1>12
  <2>3. \A k \in DOMAIN end : IsJump(end[k]) => k = Len(end) - 1
    BY <1>7, <1>9 DEF IsJump
  <2>4. ASSUME NEW k \in DOMAIN dest' \ DOMAIN dest, IsJump(dest'[k]) PROVE k = jump
    <3>1. k - Len(dest) = Len(end) - 1 /\ k = Len(dest) + (k - Len(dest))
      BY <1>12, <2>3, <2>4
    <3> QED BY <2>1, <3>1
  <2> QED BY <2>1, <2>2, <2>4
<1> HIDE DEF jump
<1>14. f \in FrameType /\ f.jump = jump /\ f.role = "then" /\ used \in SUBSET Nat /\ jump \in Nat
  <2>1. jump \in Nat /\ stack[n] \in FrameType /\ "then" \in BranchRole
    BY <1>1, <1>12, <1>13, LowerTypes DEF Grows, BranchRole
  <2>2. DOMAIN op.outs \subseteq Nat
    BY <1>4
  <2>3. used \in SUBSET Nat
    BY <1>4, <2>2
  <2> QED BY <1>4, <2>1, <2>3, BranchFrames
<1> HIDE DEF f
<1>15. /\ FramesKept(n) /\ stack'[n + 1] = f /\ stack'[n] = stack[n] /\ Len(stack') = n + 1
  <2>1. LET m == Len(stack') - 1
        IN  /\ FramesKept(m) /\ stack'[m + 1] = f /\ stack'[m] = stack[m]
    BY <1>1, <1>2, <1>14, KeptByEntering
  <2>2. Outer \in Seq(FrameType) /\ Len(Outer) = n
    BY <1>1, TopFrame DEF n
  <2>3. Len(stack') = n + 1
    BY <1>2, <1>14, <2>2
  <2>4. Len(stack') - 1 = n
    BY <1>1, <2>3
  <2> QED BY <2>1, <2>3, <2>4
<1>16. NewFrame(n, nextLabel)
  <2>1. op = OpAt(blocks, stack[n]) /\ "then" \in BranchRole
    BY DEF op, BranchRole
  <2>2. IsJump(dest'[jump])
    BY <1>8, <1>13
  <2>3. stack'[n + 1] = BranchFrame("then", src, jump, stack[n], used)
    BY <1>15 DEF f
  <2>4. stack'[n].at = stack[n].at
    BY <1>15
  <2> QED BY <1>2, <1>3, <1>4, <1>12, <1>13, <1>15, <2>1, <2>2, <2>3, <2>4, BranchEntered
<1>17. StillOpen(n, nextLabel)
  BY NextLabelIsNew DEF StillOpen
<1>18. NewJumps
  <2>1. n + 1 \in DOMAIN stack' /\ stack'[n + 1].jump = jump
    BY <1>1, <1>14, <1>15 DEF FramesKept
  <2>2. LeadsOn(jump)
    BY <1>8, <1>13, <2>1 DEF LeadsOn
  <2> QED BY <1>13, <2>2 DEF NewJumps
<1> QED BY <1>1, <1>2, <1>5, <1>6, <1>12, <1>15, <1>16, <1>17, <1>18, WritingKeeps

-----------------------------------------------------------------------------
(* Loops. *)

LEMMA LoopEntered ==
  ASSUME LowerInv, phase = "lower", AtOp({"INFINITE"}), NEW n, n = Len(stack),
         Grows(dest, dest'), blocks' \in Shaped(blocks),
         FramesKept(n), Len(stack') = n + 1, stack'[n] = stack[n],
         NEW f, f = stack'[n + 1], NEW cont \in Label, NEW brk \in Label, cont # brk,
         DeclaredIn(dest', cont) # {}, nextLabel <= brk, brk < nextLabel',
         f.role = "loop", f.block = OpAt(blocks, Top).do, f.at = 1, f.jump = 0, f.used = {},
         f.cont = cont, f.brk = brk, f.states = OpAt(blocks, Top).outs
  PROVE  NewFrame(n, cont)
<1> DEFINE op == OpAt(blocks, Top)
           new == OpAt(blocks', stack'[n])
           src == op.do
<1>1. /\ n \in DOMAIN stack /\ Top = stack[n] /\ n \in Nat /\ n > 0
      /\ Top.block \in DOMAIN blocks
  BY TopFrame, LowerTypes DEF Top
<1>2. /\ op \in SsaOp /\ op.id = "INFINITE" /\ Lowerable(blocks, Top.block, op)
      /\ Top.at \in DOMAIN blocks[Top.block].ops
  BY OpAtTop
<1>3. op.outs \in Seq(Var) /\ src # None /\ src \in DOMAIN blocks
      /\ Len(blocks[src].outs) = Len(op.outs)
  <2>1. op.outs \in Seq(Var) /\ op.id \in LoopId
    BY <1>2, OpFields DEF LoopId
  <2>2. src \in DOMAIN blocks /\ Len(blocks[src].outs) = Len(op.outs)
    BY <1>2, <2>1 DEF Lowerable
  <2>3. src \in Nat
    BY <2>2, LowerTypes, BlockFields
  <2> QED BY <2>1, <2>2, <2>3, LowerTypes
<1>4. None \notin Label
  BY LowerTypes
<1> HIDE DEF src
<1>5. n + 1 \in OpenLoops' /\ n + 1 <= n + 1
  BY <1>1 DEF OpenLoops, FramesKept
<1>6. FrameKeeps(n + 1)'
  <2>1. DOMAIN blocks' = DOMAIN blocks /\ Len(blocks'[src].outs) = Len(blocks[src].outs)
    BY <1>3 DEF Shaped, SameShape, SameBlock
  <2>2. /\ f.block \in DOMAIN blocks' /\ f.at > 0
        /\ f.used \subseteq DOMAIN blocks'[f.block].outs
        /\ f.role \notin BranchRole /\ f.jump = 0
        /\ f.cont # None /\ Len(f.states) = Len(blocks'[f.block].outs)
        /\ DeclaredIn(dest', f.cont) # {}
        /\ \E e \in OpenLoops' : e <= n + 1 /\ stack'[e].brk = f.brk
    BY <1>3, <1>4, <1>5, <2>1 DEF BranchRole, src
  <2> QED BY <2>2 DEF FrameKeeps
<1>7. FrameNested(n + 1)'
  <2>1. /\ Top.at \in DOMAIN blocks'[Top.block].ops
        /\ SameOp(op, new) /\ stack'[n] = Top
    BY <1>1, <1>2 DEF Shaped, SameShape, SameBlock, OpAt
  <2>2. src \in BlocksOf(op)
    BY <1>3 DEF BlocksOf, src
  <2>3. BlocksOf(new) = BlocksOf(op) /\ new.id = "INFINITE"
    BY <1>2, <2>1, SameBlocks DEF SameOp
  <2> HIDE DEF new
  <2>4. ASSUME NEW d, d = n + 1
        PROVE  FrameNested(d)'
    <3>1. d - 1 = n
      BY <1>1, <2>4
    <3>2. new = OpAt(blocks', stack'[d - 1])
      BY <3>1 DEF new
    <3>3. /\ stack'[d - 1].at \in DOMAIN blocks'[stack'[d - 1].block].ops
          /\ stack'[d].block \in BlocksOf(new)
          /\ stack'[d].role \notin BranchRole /\ stack'[d].role # "els"
          /\ new.id = "INFINITE"
      BY <2>1, <2>2, <2>3, <2>4, <3>1 DEF BranchRole, src
    <3> QED BY <3>2, <3>3 DEF FrameNested
  <2> QED BY <2>4
<1> QED BY <1>4, <1>6, <1>7 DEF NewFrame

LEMMA BeginLoopKeeps ==
  ASSUME LowerInv, BeginLoop
  PROVE  LowerInv'
<1> DEFINE op == OpAt(blocks, Top)
           n == Len(stack)
           moves == Moves(op.outs, op.args, DOMAIN op.outs)
           last == LabelOp(nextLabel)
           head == Append(moves, last)
           f == Frame("loop", op.do, 0, nextLabel, nextLabel + 1, op.outs)
<1>1. phase = "lower" /\ AtOp({"INFINITE"})
  BY DEF BeginLoop, AtOp
<1>2. /\ dest' = dest \o head /\ TakeLabels(2)
      /\ blocks' = StatesNamed(blocks, op.do, blocks[op.do].ins, op.outs)
      /\ stack' = Append(stack, f)
      /\ UNCHANGED <<turned, phase, nextVar>>
  BY DEF BeginLoop
<1>3. /\ op \in SsaOp /\ op.id = "INFINITE" /\ Lowerable(blocks, Top.block, op)
  BY <1>1, OpAtTop
<1>4. /\ op.outs \in Seq(Var) /\ op.args \in Seq(Val) /\ Len(op.args) = Len(op.outs)
      /\ op.do \in DOMAIN blocks /\ op.do \in Nat
  <2>1. op.id \in LoopId
    BY <1>3 DEF LoopId
  <2>2. op.do \in DOMAIN blocks /\ Len(op.args) = Len(op.outs)
    BY <1>3, <2>1 DEF Lowerable
  <2> QED BY <1>3, <2>2, OpFields, LowerTypes, BlockFields
<1> HIDE DEF op
<1>5. moves \in Copies
  <2>1. \A k \in DOMAIN op.outs : op.args[k] \in Val
    BY <1>4
  <2> QED BY <1>4, <2>1, MovesAreCopies
<1>6. blocks' \in Shaped(blocks)
  BY <1>2, <1>4, LowerTypes, StatesAreNamed
<1>7. /\ nextLabel \in Label /\ nextLabel + 1 \in Label /\ nextLabel' = nextLabel + 2
      /\ nextLabel' \in Nat /\ nextLabel <= nextLabel' /\ nextLabel' - 1 \in Label /\ DeclsRight'
      /\ nextLabel \in Nat
  <2>1. /\ nextLabel \in Label /\ nextLabel + 2 - 1 \in Label /\ nextLabel' = nextLabel + 2
        /\ nextLabel' \in Nat /\ nextLabel <= nextLabel' /\ nextLabel' - 1 \in Label
        /\ DeclsRight'
    BY <1>2, <1>6, LabelsAreTaken
  <2>2. nextLabel \in Nat /\ nextLabel + 2 - 1 = nextLabel + 1
    BY LowerTypes
  <2> QED BY <2>1, <2>2
<1>8. last \in Op /\ last.id = "LABEL" /\ last.label = nextLabel
  BY <1>7, LabelOps
<1> HIDE DEF moves, last
<1>9. /\ head \in Seq(Op) /\ Len(head) \in DOMAIN head /\ head[Len(head)] = last
      /\ \A k \in DOMAIN head : k # Len(head) => head[k].id = "IMM"
  BY <1>5, <1>8 DEF Copies
<1> HIDE DEF head
<1>10. /\ dest' \in Seq(Op) /\ Len(dest') = Len(dest) + Len(head)
       /\ Len(dest) \in Nat /\ Len(head) \in Nat
       /\ \A k \in DOMAIN dest : k \in DOMAIN dest' /\ dest'[k] = dest[k]
       /\ \A k \in DOMAIN dest' \ DOMAIN dest :
            /\ k - Len(dest) \in DOMAIN head /\ dest'[k] = head[k - Len(dest)]
            /\ k = Len(dest) + (k - Len(dest))
       /\ \A j \in DOMAIN head :
            Len(dest) + j \in DOMAIN dest' /\ dest'[Len(dest) + j] = head[j]
  <2> DEFINE new == dest \o head
  <2>1. /\ new \in Seq(Op) /\ Len(new) = Len(dest) + Len(head)
        /\ Len(dest) \in Nat /\ Len(head) \in Nat
        /\ \A k \in DOMAIN dest : k \in DOMAIN new /\ new[k] = dest[k]
        /\ \A k \in DOMAIN new \ DOMAIN dest :
             /\ k - Len(dest) \in DOMAIN head /\ new[k] = head[k - Len(dest)]
             /\ k = Len(dest) + (k - Len(dest))
        /\ \A j \in DOMAIN head :
             Len(dest) + j \in DOMAIN new /\ new[Len(dest) + j] = head[j]
    BY <1>9, LowerTypes, WrittenBehind
  <2>2. dest' = new
    BY <1>2
  <2> HIDE DEF new
  <2> QED BY <2>1, <2>2
<1>11. Grows(dest, dest')
  BY <1>10 DEF Grows
<1>12. DeclaredIn(dest', nextLabel) # {}
  <2>1. Len(dest) + Len(head) \in DOMAIN dest' /\ dest'[Len(dest) + Len(head)] = last
    BY <1>9, <1>10
  <2> QED BY <1>8, <2>1 DEF DeclaredIn
<1>13. EndsWith(nextLabel)
  <2>1. ASSUME NEW k \in DOMAIN dest' \ DOMAIN dest, dest'[k].id = "LABEL"
        PROVE  k = Len(dest') /\ dest'[k].label = nextLabel
    <3>1. k - Len(dest) = Len(head)
      BY <1>9, <1>10, <2>1
    <3>2. k = Len(dest') /\ dest'[k] = head[Len(head)]
      BY <1>10, <3>1
    <3> QED BY <1>8, <1>9, <3>2
  <2>2. nextLabel < nextLabel'
    BY <1>7
  <2> QED BY <1>7, <2>1, <2>2, NextLabelIsNew DEF EndsWith
<1>14. n \in Nat /\ n > 0 /\ stack \in Seq(FrameType)
  BY <1>1, TopFrame, LowerTypes
<1>15. /\ f \in FrameType /\ f.role = "loop" /\ f.block = op.do /\ f.at = 1 /\ f.jump = 0
       /\ f.used = {} /\ f.cont = nextLabel /\ f.brk = nextLabel + 1 /\ f.states = op.outs
  BY <1>4, <1>7 DEF Frame, FrameType
<1> HIDE DEF f
<1>16. /\ FramesKept(n) /\ stack'[n + 1] = f /\ stack'[n] = stack[n] /\ Len(stack') = n + 1
  <2>1. LET m == Len(stack') - 1
        IN  /\ FramesKept(m) /\ stack'[m + 1] = f /\ stack'[m] = stack[m] /\ m = Len(stack)
    BY <1>1, <1>2, <1>15, KeptByEntering
  <2>2. Len(stack') = n + 1
    BY <1>2, <1>14, <1>15
  <2> QED BY <2>1, <2>2
<1>17. NewFrame(n, nextLabel)
  <2>1. /\ nextLabel # nextLabel + 1 /\ nextLabel <= nextLabel + 1
        /\ nextLabel + 1 < nextLabel'
    BY <1>7
  <2> QED BY <1>1, <1>6, <1>7, <1>11, <1>12, <1>15, <1>16, <2>1, LoopEntered DEF op
<1>18. StillOpen(n, nextLabel)
  BY NextLabelIsNew DEF StillOpen
<1>19. OldJumps(n)
  <2>1. \A d \in DOMAIN stack : ~ (d > n)
    BY <1>14
  <2> HIDE DEF n
  <2> QED BY <1>10, <2>1 DEF OldJumps
<1>20. NewJumps
  <2>1. \A k \in DOMAIN head : ~ IsJump(head[k])
    BY <1>8, <1>9 DEF IsJump
  <2> QED BY <1>10, <2>1 DEF NewJumps
<1> HIDE DEF n
<1> QED BY <1>1, <1>2, <1>6, <1>7, <1>11, <1>13, <1>14, <1>16, <1>17, <1>18, <1>19, <1>20,
           WritingKeeps

LEMMA LoopDoneKeeps ==
  ASSUME LowerInv, LoopDone
  PROVE  LowerInv'
<1> DEFINE n == Len(stack) - 1
           d0 == Len(stack)
           outs == blocks[Top.block].outs
           old == CodeNamed(dest, outs, Top.states)
           goto == Jump("GOTO", Top.cont, None)
           last == LabelOp(Top.brk)
           root == EndsNamed(blocks[Root], outs, Top.states)
           l == Top.brk
<1>1. /\ phase = "lower" /\ Top.role = "loop"
      /\ dest' = old \o <<goto, last>>
      /\ blocks' = [blocks EXCEPT ![Root] = root]
      /\ decl' = [v \in Var |-> IF v \in Members(outs) THEN NoDecl ELSE decl[v]]
      /\ stack' = Forward(Outer)
      /\ UNCHANGED <<turned, phase, nextVar, nextLabel>>
  BY DEF LoopDone, AtEnd, LoopEnd
<1>2. /\ d0 \in DOMAIN stack /\ Top = stack[d0] /\ Top \in FrameType /\ FrameKeeps(d0)
      /\ d0 \in Nat /\ d0 > 0 /\ d0 # 1 /\ Top.states \in Seq(Var)
  BY <1>1, TopFrame, LowerTypes DEF Top, FrameType
<1>3. n \in Nat /\ n > 0 /\ d0 > 1 /\ d0 = n + 1
  <2>1. n = d0 - 1
    OBVIOUS
  <2> HIDE DEF d0, n
  <2> QED BY <1>2, <2>1
<1>4. d0 \in OpenLoops
  BY <1>1, <1>2 DEF OpenLoops
<1>5. /\ l \in Label /\ l < nextLabel /\ DeclaredIn(dest, l) = {}
      /\ \A d \in OpenLoops : stack[d].brk = l => d = d0
  BY <1>2, <1>4 DEF LowerInv, BreaksOpen
<1>6. /\ Top.cont \in Label /\ DeclaredIn(dest, Top.cont) # {} /\ Top.jump = 0
  <2>1. Top.cont # None /\ Top.jump = 0
    BY <1>1, <1>2 DEF FrameKeeps, BranchRole
  <2>2. DeclaredIn(dest, Top.cont) # {}
    BY <1>2, <2>1 DEF FrameKeeps
  <2>3. Top.cont \in Label
    BY <1>2, <2>1 DEF FrameType
  <2> QED BY <2>1, <2>2, <2>3
<1>7. /\ old \in Seq(Op) /\ DOMAIN old = DOMAIN dest
      /\ \A k \in DOMAIN dest : old[k].id = dest[k].id /\ old[k].label = dest[k].label
  <2>1. old \in Rewritten(dest)
    BY <1>2, LowerTypes, CodeIsNamed
  <2> HIDE DEF old
  <2> QED BY <2>1 DEF Rewritten, SameJump
<1>8. blocks' \in Shaped(blocks)
  <2>1. blocks \in Seq(SsaBlock) /\ Root \in DOMAIN blocks
    BY LowerTypes DEF LowerInv, Structured
  <2>2. blocks[Root] \in SsaBlock
    BY <2>1, BlockFields
  <2>3. root \in SsaBlock /\ SameBlock(blocks[Root], root)
    BY <1>2, <2>2, EndsAreNamed
  <2> HIDE DEF root
  <2> QED BY <1>1, <2>1, <2>3, BlockReplaced
<1>9. /\ goto \in Op /\ IsJump(goto) /\ goto.id = "GOTO" /\ goto.label = Top.cont
      /\ last \in Op /\ last.id = "LABEL" /\ last.label = l
  BY <1>5, <1>6, JumpOps, LabelOps
<1> HIDE DEF goto, last, old, root, outs, l, n, d0
<1>10. /\ dest' \in Seq(Op)
       /\ \A k \in DOMAIN dest : k \in DOMAIN dest' /\ dest'[k] = old[k]
       /\ \A k \in DOMAIN dest' \ DOMAIN dest :
            dest'[k] = goto \/ (dest'[k] = last /\ k = Len(dest'))
       /\ \E k \in DOMAIN dest' : dest'[k] = last
  <2> DEFINE e == <<goto, last>>
             new == old \o e
  <2>1. e \in Seq(Op) /\ Len(e) = 2 /\ DOMAIN e = {1, 2} /\ e[1] = goto /\ e[2] = last
    <3>1. e \in Seq(Op) /\ Len(e) = 2 /\ e[1] = goto /\ e[2] = last
      BY <1>9
    <3> HIDE DEF e
    <3>2. DOMAIN e = 1 .. 2
      BY <3>1
    <3>3. 1 .. 2 = {1, 2}
      OBVIOUS
    <3> QED BY <3>1, <3>2, <3>3
  <2> HIDE DEF e
  <2>2. /\ new \in Seq(Op) /\ Len(new) = Len(old) + Len(e)
        /\ Len(old) \in Nat /\ Len(e) \in Nat
        /\ \A k \in DOMAIN old : k \in DOMAIN new /\ new[k] = old[k]
        /\ \A k \in DOMAIN new \ DOMAIN old :
             /\ k - Len(old) \in DOMAIN e /\ new[k] = e[k - Len(old)]
             /\ k = Len(old) + (k - Len(old))
        /\ \A j \in DOMAIN e :
             Len(old) + j \in DOMAIN new /\ new[Len(old) + j] = e[j]
    BY <1>7, <2>1, WrittenBehind
  <2>3. dest' = new
    BY <1>1 DEF e
  <2> HIDE DEF new
  <2>4. \A k \in DOMAIN dest' \ DOMAIN dest :
          dest'[k] = goto \/ (dest'[k] = last /\ k = Len(dest'))
    <3> SUFFICES ASSUME NEW k \in DOMAIN new \ DOMAIN old
                 PROVE  new[k] = goto \/ (new[k] = last /\ k = Len(new))
      BY <1>7, <2>3
    <3>1. k - Len(old) = 1 \/ k - Len(old) = 2
      BY <2>1, <2>2
    <3>2. CASE k - Len(old) = 1
      BY <2>1, <2>2, <3>2
    <3>3. CASE k - Len(old) = 2
      BY <2>1, <2>2, <3>3
    <3> QED BY <3>1, <3>2, <3>3
  <2>5. 2 \in DOMAIN e
    BY <2>1
  <2> QED BY <1>7, <2>1, <2>2, <2>3, <2>4, <2>5
<1>11. Grows(dest, dest')
  BY <1>7, <1>10 DEF Grows
<1>12. DeclaredIn(dest', l) # {}
  BY <1>9, <1>10 DEF DeclaredIn
<1>13. EndsWith(l)
  <2>1. \A k \in DOMAIN dest' \ DOMAIN dest : dest'[k].id = "LABEL" =>
          k = Len(dest') /\ dest'[k].label = l
    BY <1>9, <1>10
  <2> QED BY <1>1, <1>5, <2>1 DEF EndsWith
<1>14. FramesKept(n) /\ Len(stack') = n
  BY <1>1, <1>3, BackToOuter DEF n, d0
<1>15. NewFrame(n, l)
  BY <1>3, <1>14 DEF NewFrame
<1>16. StillOpen(n, l)
  <2>1. \A d \in OpenLoops : d <= n => d # d0
    BY <1>3
  <2> QED BY <1>5, <2>1 DEF StillOpen
<1>17. OldJumps(n)
  <2>1. \A k \in DOMAIN dest : dest'[k].label = dest[k].label
    BY <1>7, <1>10
  <2>2. ASSUME NEW d \in DOMAIN stack, d > n
        PROVE  /\ stack[d].jump \notin DOMAIN dest
               /\ DeclaredIn(dest', stack[d].brk) # {}
    <3>1. d = d0
      <4>1. d \in Nat /\ d <= d0
        BY LowerTypes DEF d0
      <4> QED BY <1>3, <2>2, <4>1
    <3>2. stack[d] = Top
      BY <1>2, <3>1
    <3>3. 0 \notin DOMAIN dest
      BY LowerTypes
    <3> QED BY <1>6, <1>12, <3>2, <3>3 DEF l
  <2> QED BY <2>1, <2>2 DEF OldJumps
<1>18. NewJumps
  <2> SUFFICES ASSUME NEW k \in DOMAIN dest' \ DOMAIN dest, IsJump(dest'[k])
               PROVE  LeadsOn(k)
    BY DEF NewJumps
  <2>1. dest'[k] = goto
    BY <1>9, <1>10 DEF IsJump
  <2>2. DeclaredIn(dest', Top.cont) # {}
    BY <1>6, <1>11, DeclaredGrows
  <2>3. Top.cont # None
    BY <1>6, LowerTypes
  <2> QED BY <1>9, <2>1, <2>2, <2>3 DEF LeadsOn
<1>19. DeclsRight'
  <2>1. /\ decl' = [v \in Var |-> decl'[v]]
        /\ \A v \in Var : decl'[v] = decl[v] \/ decl'[v] = NoDecl
    BY <1>1
  <2> QED BY <1>8, <2>1, DeclsStay DEF LowerInv, Tables
<1> QED BY <1>1, <1>3, <1>8, <1>11, <1>13, <1>14, <1>15, <1>16, <1>17, <1>18, <1>19,
           LowerTypes, WritingKeeps

-----------------------------------------------------------------------------
(* The first and the last step of writing out. *)

LEMMA NextPhaseKeeps ==
  ASSUME LowerInv, NextPhase
  PROVE  LowerInv'
<1>1. /\ Tables /\ Structured(blocks) /\ LabelsNew /\ BreaksOpen /\ JumpsLead /\ Frames
      /\ dest = <<>> /\ stack = <<>>
      /\ UNCHANGED <<blocks, turned, decl, nextVar, nextLabel, dest>>
  BY DEF LowerInv, NextPhase
<1>2. CASE phase' \in {"swap", "ifs"} /\ UNCHANGED stack
  <2>1. phase' \in {"loops", "swap", "ifs", "lower", "done"} /\ phase' # "lower"
    BY <1>2
  <2>2. Tables' /\ LabelsNew' /\ Structured(blocks')
    BY <1>1, <2>1 DEF Tables, DeclsRight, LabelsNew
  <2>3. BreaksOpen' /\ JumpsLead'
    BY <1>1, <1>2 DEF BreaksOpen, JumpsLead, OpenLoops
  <2>4. Frames'
    BY <1>1, <1>2 DEF Frames
  <2>5. PICK loops \in SUBSET (DOMAIN blocks \ {Root}) :
          LeavesWithin(blocks, loops) /\ LoopsKnown(loops)
    BY DEF LowerInv
  <2>6. LoopsKnown(loops)' /\ LeavesWithin(blocks', loops)
    BY <1>1, <1>2, <2>5 DEF LoopsKnown
  <2> QED BY <1>1, <1>2, <2>1, <2>2, <2>3, <2>4, <2>5, <2>6 DEF LowerInv
<1>3. CASE phase' = "lower" /\ stack' = <<Frame("root", Root, 0, None, None, <<>>)>>
  <2> DEFINE f == Frame("root", Root, 0, None, None, <<>>)
  <2>1. /\ f.role = "root" /\ f.block = Root /\ f.at = 1 /\ f.jump = 0 /\ f.used = {}
        /\ f.cont = None /\ f.brk = None /\ f \in FrameType
    BY DEF Frame, FrameType, Root
  <2>2. stack' = <<f>>
    BY <1>3
  <2> HIDE DEF f
  <2>3. stack' \in Seq(FrameType) /\ DOMAIN stack' = {1} /\ stack'[1] = f /\ stack' # <<>>
    BY <2>1, <2>2
  <2>4. OpenLoops' = {}
    BY <2>1, <2>3 DEF OpenLoops
  <2>5. BreaksOpen'
    BY <2>4 DEF BreaksOpen
  <2>6. JumpsLead'
    BY <1>1 DEF JumpsLead
  <2>7. Frames'
    <3>1. Root \in DOMAIN blocks'
      BY <1>1 DEF Structured
    <3>2. FrameKeeps(1)'
      BY <2>1, <2>3, <3>1 DEF FrameKeeps, BranchRole
    <3> QED BY <2>1, <2>3, <3>2 DEF Frames
  <2>8. PICK loops \in SUBSET (DOMAIN blocks \ {Root}) :
          LeavesWithin(blocks, loops) /\ LoopsKnown(loops)
    BY DEF LowerInv
  <2>9. LoopsKnown(loops)' /\ LeavesWithin(blocks', loops)
    BY <1>1, <2>1, <2>3, <2>8 DEF LoopsKnown
  <2>10. Tables' /\ LabelsNew' /\ Structured(blocks')
    BY <1>1, <1>3 DEF Tables, DeclsRight, LabelsNew
  <2> QED BY <1>1, <1>3, <2>3, <2>5, <2>6, <2>7, <2>8, <2>9, <2>10 DEF LowerInv
<1> QED BY <1>2, <1>3 DEF NextPhase

LEMMA FinishKeeps ==
  ASSUME LowerInv, Finish
  PROVE  LowerInv'
<1> DEFINE x == MakeOp("RETURN", None, None, None, blocks[Root].outs[1], None)
<1>1. /\ phase = "lower" /\ Top.role = "root" /\ dest' = Append(dest, x)
      /\ phase' = "done" /\ stack' = <<>>
      /\ UNCHANGED <<blocks, turned, decl, nextVar, nextLabel>>
  BY DEF Finish, AtEnd
<1>2. /\ Tables /\ Structured(blocks) /\ LabelsNew /\ JumpsLead /\ Frames
      /\ dest \in Seq(Op) /\ blocks \in Seq(SsaBlock)
  BY LowerTypes DEF LowerInv
<1>3. Len(stack) = 1 /\ DOMAIN stack = {1} /\ stack[1] = Top /\ Top.jump = 0
  <2>1. Len(stack) = 1 /\ stack \in Seq(FrameType) /\ FrameKeeps(Len(stack))
    BY <1>1, TopFrame, LowerTypes
  <2>2. DOMAIN stack = {1} /\ stack[1] = Top
    BY <2>1 DEF Top
  <2>3. FrameKeeps(1)
    BY <2>1
  <2> QED BY <1>1, <2>1, <2>2, <2>3 DEF FrameKeeps, BranchRole
<1>4. OpenLoops = {}
  BY <1>1, <1>3 DEF OpenLoops
<1>5. x \in Op /\ x.id = "RETURN"
  <2>1. blocks[Root].outs \in Seq(Var) /\ blocks[Root].outs # <<>>
    BY <1>2, BlockFields DEF Structured
  <2>2. blocks[Root].outs[1] \in Val
    BY <2>1 DEF Val
  <2>3. "RETURN" \in OpId
    BY DEF OpId
  <2> QED BY <2>2, <2>3 DEF MakeOp, Op
<1> HIDE DEF x
<1>6. /\ dest' \in Seq(Op)
      /\ \A k \in DOMAIN dest : k \in DOMAIN dest' /\ dest'[k] = dest[k]
      /\ \A k \in DOMAIN dest' : k \in DOMAIN dest \/ dest'[k] = x
  BY <1>1, <1>2, <1>5
<1>7. LabelsNew'
  BY <1>1, <1>2, <1>5, <1>6 DEF LabelsNew
<1>8. JumpsLead'
  <2> SUFFICES ASSUME NEW k \in DOMAIN dest', IsJump(dest'[k])
               PROVE  dest'[k].label # None /\ DeclaredIn(dest', dest'[k].label) # {}
    BY DEF JumpsLead
  <2>1. k \in DOMAIN dest /\ dest'[k] = dest[k]
    BY <1>5, <1>6 DEF IsJump
  <2>2. k # 0
    BY <1>2, <2>1
  <2>3. dest[k].label # None /\ DeclaredIn(dest, dest[k].label) # {}
    BY <1>2, <1>3, <1>4, <2>1, <2>2 DEF JumpsLead
  <2>4. Grows(dest, dest')
    BY <1>6 DEF Grows
  <2> QED BY <2>1, <2>3, <2>4, DeclaredGrows
<1>9. BreaksOpen' /\ Frames'
  <2>1. stack' \in Seq(FrameType) /\ DOMAIN stack' = {}
    BY <1>1
  <2>2. OpenLoops' = {}
    BY <2>1 DEF OpenLoops
  <2> QED BY <2>1, <2>2 DEF BreaksOpen, Frames
<1>10. PICK loops \in SUBSET (DOMAIN blocks \ {Root}) :
         LeavesWithin(blocks, loops) /\ LoopsKnown(loops)
  BY DEF LowerInv
<1>11. LoopsKnown(loops)' /\ LeavesWithin(blocks', loops)
  BY <1>1, <1>10 DEF LoopsKnown
<1>12. Tables'
  BY <1>1, <1>2, <1>6 DEF Tables, DeclsRight
<1> QED BY <1>1, <1>2, <1>7, <1>8, <1>9, <1>10, <1>11, <1>12 DEF LowerInv

-----------------------------------------------------------------------------
(* The passes before, which work on the structured form alone. *)

LEMMA PreparingKeeps ==
  ASSUME LowerInv, phase \in {"loops", "swap", "ifs"},
         DeclsRight', turned' \subseteq Var, nextVar' \in Nat, nextVar' - 1 \in Var,
         Structured(blocks'),
         NEW loops \in SUBSET (DOMAIN blocks' \ {Root}), LeavesWithin(blocks', loops),
         UNCHANGED <<phase, nextLabel, stack, dest>>
  PROVE  LowerInv'
<1>1. /\ Tables /\ LabelsNew /\ dest = <<>> /\ stack = <<>> /\ phase # "lower"
  BY DEF LowerInv
<1>2. dest' = <<>> /\ stack' = <<>> /\ DOMAIN dest' = {} /\ DOMAIN stack' = {}
  BY <1>1
<1>3. Tables' /\ LabelsNew'
  BY <1>1 DEF Tables, LabelsNew
<1>4. BreaksOpen' /\ JumpsLead'
  BY <1>2 DEF BreaksOpen, JumpsLead, OpenLoops
<1>5. Frames'
  BY <1>2 DEF Frames
<1>6. LoopsKnown(loops)'
  BY <1>2 DEF LoopsKnown
<1> QED BY <1>1, <1>2, <1>3, <1>4, <1>5, <1>6 DEF LowerInv

LEMMA TodoPlace ==
  ASSUME LowerInv, NEW d \in Todo
  PROVE  /\ d.block \in DOMAIN blocks /\ d.at \in DOMAIN blocks[d.block].ops
         /\ OpAt(blocks, d) \in SsaOp /\ Lowerable(blocks, d.block, OpAt(blocks, d))
<1>1. /\ d.block \in DOMAIN blocks /\ d.at \in Nat \ {0} /\ d.at <= Len(blocks[d.block].ops)
  <2>1. d \in Places(blocks) /\ d.at <= Len(blocks[d.block].ops)
    BY DEF Todo
  <2>2. 2 * MaxOps \in Nat
    BY LlirAssumption
  <2> QED BY <2>1, <2>2 DEF Places
<1>2. blocks[d.block].ops \in Seq(SsaOp)
  BY <1>1, LowerTypes, BlockFields
<1>3. d.at \in DOMAIN blocks[d.block].ops
  BY <1>1, <1>2
<1> QED BY <1>1, <1>2, <1>3 DEF OpAt, LowerInv, Structured

LEMMA Joined ==
  ASSUME NEW S, NEW s \in Seq(S), NEW t \in Seq(S)
  PROVE  /\ s \o t \in Seq(S) /\ Len(s \o t) = Len(s) + Len(t)
         /\ Len(s) \in Nat /\ Len(t) \in Nat
         /\ DOMAIN (s \o t) = 1 .. Len(s) + Len(t)
         /\ \A k \in 1 .. Len(s) + Len(t) :
              (s \o t)[k] = IF k <= Len(s) THEN s[k] ELSE t[k - Len(s)]
OBVIOUS

(* One op is replaced by two. *)
IsSplice(new, s, at, x, y) ==
  /\ DOMAIN new = 1 .. Len(s) + 1
  /\ \A k \in DOMAIN new :
       new[k] = IF k < at THEN s[k] ELSE IF k = at THEN x
                ELSE IF k = at + 1 THEN y ELSE s[k - 1]

LEMMA Spliced ==
  ASSUME NEW S, NEW s \in Seq(S), NEW at \in DOMAIN s, NEW x \in S, NEW y \in S
  PROVE  LET new == SubSeq(s, 1, at - 1) \o <<x, y>> \o SubSeq(s, at + 1, Len(s))
         IN  new \in Seq(S) /\ IsSplice(new, s, at, x, y)
<1> DEFINE n == Len(s)
           u == SubSeq(s, 1, at - 1)
           v == <<x, y>>
           w == SubSeq(s, at + 1, n)
<1>1. n \in Nat /\ at \in 1 .. n /\ DOMAIN s = 1 .. n
  OBVIOUS
<1>2. /\ u \in Seq(S) /\ Len(u) = at - 1 /\ DOMAIN u = 1 .. at - 1
      /\ \A k \in 1 .. at - 1 : u[k] = s[k]
  BY <1>1
<1>3. v \in Seq(S) /\ Len(v) = 2 /\ v[1] = x /\ v[2] = y
  OBVIOUS
<1>4. /\ w \in Seq(S) /\ Len(w) = n - at
      /\ \A k \in 1 .. n - at : w[k] = s[at + k]
  BY <1>1
<1> HIDE DEF u, v, w, n
<1> DEFINE t == u \o v
           new == t \o w
<1>5. /\ t \in Seq(S) /\ Len(t) = at + 1
      /\ \A k \in 1 .. at - 1 : t[k] = s[k]
      /\ t[at] = x /\ t[at + 1] = y
  <2>1. t \in Seq(S) /\ Len(t) = Len(u) + Len(v)
    BY <1>2, <1>3, Joined
  <2>2. \A k \in 1 .. Len(u) + Len(v) : t[k] = IF k <= Len(u) THEN u[k] ELSE v[k - Len(u)]
    BY <1>2, <1>3, Joined
  <2> HIDE DEF t
  <2>3. (at - 1) + 2 = at + 1 /\ at - (at - 1) = 1 /\ (at + 1) - (at - 1) = 2
    BY <1>1
  <2>4. \A k \in 1 .. at + 1 : t[k] = IF k <= at - 1 THEN u[k] ELSE v[k - (at - 1)]
    BY <1>2, <1>3, <2>2, <2>3
  <2>5. t[at] = x /\ t[at + 1] = y
    <3>1. at \in 1 .. at + 1 /\ at + 1 \in 1 .. at + 1 /\ ~ (at <= at - 1) /\ ~ (at + 1 <= at - 1)
      BY <1>1
    <3> QED BY <1>3, <2>3, <2>4, <3>1
  <2>6. \A k \in 1 .. at - 1 : t[k] = s[k]
    BY <1>1, <1>2, <2>4
  <2> QED BY <1>2, <1>3, <2>1, <2>3, <2>5, <2>6
<1> HIDE DEF t
<1>6. /\ new \in Seq(S) /\ Len(new) = n + 1 /\ DOMAIN new = 1 .. n + 1
      /\ \A k \in 1 .. n + 1 : new[k] = IF k <= at + 1 THEN t[k] ELSE w[k - (at + 1)]
  <2>1. new \in Seq(S) /\ Len(new) = Len(t) + Len(w) /\ DOMAIN new = 1 .. Len(t) + Len(w)
    BY <1>4, <1>5, Joined
  <2>2. \A k \in 1 .. Len(t) + Len(w) : new[k] = IF k <= Len(t) THEN t[k] ELSE w[k - Len(t)]
    BY <1>4, <1>5, Joined
  <2> HIDE DEF new
  <2>3. (at + 1) + (n - at) = n + 1
    BY <1>1
  <2> QED BY <1>4, <1>5, <2>1, <2>2, <2>3
<1> HIDE DEF new
<1>7. \A k \in 1 .. n + 1 :
        new[k] = IF k < at THEN s[k] ELSE IF k = at THEN x
                 ELSE IF k = at + 1 THEN y ELSE s[k - 1]
  <2> SUFFICES ASSUME NEW k \in 1 .. n + 1
               PROVE  new[k] = IF k < at THEN s[k] ELSE IF k = at THEN x
                               ELSE IF k = at + 1 THEN y ELSE s[k - 1]
    OBVIOUS
  <2>1. CASE k > at + 1
    <3>1. k - (at + 1) \in 1 .. n - at /\ at + (k - (at + 1)) = k - 1
      BY <1>1, <2>1
    <3>2. new[k] = s[k - 1]
      BY <1>1, <1>4, <1>6, <2>1, <3>1
    <3> QED BY <1>1, <2>1, <3>2
  <2>2. CASE k < at
    BY <1>1, <1>5, <1>6, <2>2
  <2>3. CASE k = at \/ k = at + 1
    BY <1>1, <1>5, <1>6, <2>3
  <2> QED BY <1>1, <2>1, <2>2, <2>3
<1>8. new \in Seq(S) /\ IsSplice(new, s, at, x, y)
  BY <1>6, <1>7 DEF IsSplice, n
<1> QED BY <1>8 DEF new, t, u, v, w, n

(* The IF at a place is turned around. *)
LEMMA InvertKeeps ==
  ASSUME LowerInv, phase \in {"swap", "ifs"}, NEW d, NEW x \in SsaOp, Invert(d, x),
         OpAt(blocks, d).id = "IF", x.id = "IF", x.outs = OpAt(blocks, d).outs,
         BlocksOf(x) = BlocksOf(OpAt(blocks, d)),
         turned' \subseteq Var
  PROVE  LowerInv'
<1> DEFINE b == d.block
           at == d.at
           ops == blocks[b].ops
           op == OpAt(blocks, d)
           neg == MakeSsaOp("NOT", <<nextVar>>, x.a, None, <<>>, None, None, None, None)
           new == [x EXCEPT !.a = nextVar]
           seq == SubSeq(ops, 1, at - 1) \o <<neg, new>> \o SubSeq(ops, at + 1, Len(ops))
           q == blocks'
           Old(c, k) == IF c = b /\ k > at THEN k - 1 ELSE k
<1>1. /\ d \in Todo /\ nextVar \in Var
      /\ blocks' = [blocks EXCEPT ![b].ops = seq]
      /\ decl' = [Moved(decl, b, at, b, 1) EXCEPT ![nextVar] = d]
      /\ nextVar' = nextVar + 1
      /\ UNCHANGED <<phase, nextLabel, stack, dest>>
  BY DEF Invert, Ready
<1>2. /\ b \in DOMAIN blocks /\ at \in DOMAIN ops /\ op \in SsaOp /\ Lowerable(blocks, b, op)
      /\ op = ops[at]
  BY <1>1, TodoPlace DEF OpAt
<1>3. /\ blocks \in Seq(SsaBlock) /\ ops \in Seq(SsaOp) /\ Var \subseteq Nat
      /\ \A c \in DOMAIN blocks : \A k \in DOMAIN blocks[c].ops :
           Lowerable(blocks, c, blocks[c].ops[k])
      /\ NestedOnce(blocks) /\ Root \in DOMAIN blocks /\ blocks[Root].outs # <<>>
  BY <1>2, LowerTypes, BlockFields DEF LowerInv, Structured
<1>4. neg \in SsaOp /\ neg.id = "NOT" /\ BlocksOf(neg) = {}
  <2>1. /\ neg.id = "NOT" /\ neg.outs = <<nextVar>> /\ neg.a = x.a /\ neg.b = None
        /\ neg.args = <<>> /\ neg.then = None /\ neg.els = None /\ neg.cond = None /\ neg.do = None
    BY DEF MakeSsaOp
  <2>2. "NOT" \in SsaOpId /\ <<nextVar>> \in Seq(Var) /\ <<>> \in Seq(Val)
    BY <1>1, SMTT(60) DEF SsaOpId, PlainId
  <2>3. x.a \in Val \cup {None}
    BY OpFields
  <2>4. neg \in SsaOp
    BY <2>2, <2>3 DEF MakeSsaOp, SsaOp
  <2> QED BY <2>1, <2>4 DEF BlocksOf
<1>5. new \in SsaOp /\ new.id = "IF" /\ BlocksOf(new) = BlocksOf(op) /\ new.outs = op.outs
  <2>1. nextVar \in Val \cup {None}
    BY <1>1 DEF Val
  <2>2. new \in SsaOp
    BY <2>1 DEF SsaOp
  <2>3. /\ new.id = x.id /\ new.outs = x.outs /\ new.then = x.then /\ new.els = x.els
        /\ new.cond = x.cond /\ new.do = x.do
    BY DEF SsaOp
  <2>4. BlocksOf(new) = BlocksOf(x)
    BY <2>3 DEF BlocksOf
  <2> QED BY <2>2, <2>3, <2>4
<1> HIDE DEF neg, new, op
<1>6. /\ seq \in Seq(SsaOp) /\ DOMAIN seq = 1 .. Len(ops) + 1
      /\ \A k \in DOMAIN seq :
           seq[k] = IF k < at THEN ops[k] ELSE IF k = at THEN neg
                    ELSE IF k = at + 1 THEN new ELSE ops[k - 1]
  <2>1. ops \in Seq(SsaOp) /\ at \in DOMAIN ops /\ neg \in SsaOp /\ new \in SsaOp
    BY <1>2, <1>3, <1>4, <1>5
  <2> HIDE DEF ops, at, b
  <2>2. seq \in Seq(SsaOp) /\ IsSplice(seq, ops, at, neg, new)
    BY <2>1, Spliced
  <2> HIDE DEF seq
  <2> QED BY <2>2 DEF IsSplice
<1> HIDE DEF seq
<1>7. /\ q \in Seq(SsaBlock) /\ DOMAIN q = DOMAIN blocks
      /\ \A c \in DOMAIN blocks : c # b => q[c] = blocks[c]
      /\ q[b].ops = seq /\ q[b].ins = blocks[b].ins /\ q[b].outs = blocks[b].outs
  <2> DEFINE y == [blocks[b] EXCEPT !.ops = seq]
  <2>1. y \in SsaBlock /\ y.ops = seq /\ y.ins = blocks[b].ins /\ y.outs = blocks[b].outs
    <3>1. blocks[b] \in SsaBlock
      BY <1>2, <1>3, BlockFields
    <3> QED BY <1>6, <3>1 DEF SsaBlock
  <2>2. q = [blocks EXCEPT ![b] = y]
    BY <1>1
  <2> HIDE DEF y, b
  <2> QED BY <1>2, <1>3, <2>1, <2>2
<1>8. /\ at \in Nat /\ Len(ops) \in Nat /\ at \in 1 .. Len(ops) /\ DOMAIN ops = 1 .. Len(ops)
  BY <1>2, <1>3
<1> HIDE DEF ops, at, b
<1>9. ASSUME NEW c \in DOMAIN q, NEW k \in DOMAIN q[c].ops
      PROVE  \/ q[c].ops[k] = neg /\ c = b /\ k = at
             \/ /\ Old(c, k) \in DOMAIN blocks[c].ops /\ ~ (c = b /\ k = at)
                /\ \/ q[c].ops[k] = blocks[c].ops[Old(c, k)]
                   \/ q[c].ops[k] = new /\ c = b /\ blocks[c].ops[Old(c, k)] = op
  <2>1. CASE c # b
    BY <1>7, <1>9, <2>1
  <2>2. CASE c = b
    <3>1. k \in 1 .. Len(ops) + 1 /\ q[c].ops = seq /\ blocks[c].ops = ops
      BY <1>6, <1>7, <1>9, <2>2 DEF ops
    <3>2. k < at => k \in 1 .. Len(ops) /\ seq[k] = ops[k] /\ k # at /\ ~ (k > at)
      BY <1>6, <1>8, <3>1
    <3>3. k = at => seq[k] = neg
      BY <1>6, <1>8, <3>1
    <3>4. k > at => k - 1 \in 1 .. Len(ops) /\ ~ (k < at) /\ k # at
      BY <1>8, <3>1
    <3>5. k = at + 1 => k - 1 = at /\ seq[k] = new
      BY <1>6, <1>8, <3>1
    <3>6. k > at /\ k # at + 1 => seq[k] = ops[k - 1]
      BY <1>6, <1>8, <3>1
    <3>7. k < at \/ k = at \/ k > at
      BY <1>8, <3>1
    <3> QED BY <1>2, <1>8, <2>2, <3>1, <3>2, <3>3, <3>4, <3>5, <3>6, <3>7
  <2> QED BY <2>1, <2>2
<1>10. ASSUME NEW c \in DOMAIN q, NEW k \in DOMAIN q[c].ops, BlocksOf(q[c].ops[k]) # {}
       PROVE  /\ Old(c, k) \in DOMAIN blocks[c].ops
              /\ BlocksOf(q[c].ops[k]) = BlocksOf(blocks[c].ops[Old(c, k)])
              /\ ~ (c = b /\ k = at)
  BY <1>4, <1>5, <1>9, <1>10
<1>11. NestedOnce(q)
  <2> SUFFICES ASSUME NEW c \in DOMAIN q, NEW e \in DOMAIN q,
                      NEW k \in DOMAIN q[c].ops, NEW j \in DOMAIN q[e].ops,
                      BlocksOf(q[c].ops[k]) \cap BlocksOf(q[e].ops[j]) # {}
               PROVE  c = e /\ k = j
    BY DEF NestedOnce
  <2> HIDE DEF Old
  <2>1. c = e /\ Old(c, k) = Old(e, j) /\ ~ (c = b /\ k = at) /\ ~ (e = b /\ j = at)
    <3>1. BlocksOf(q[c].ops[k]) # {} /\ BlocksOf(q[e].ops[j]) # {}
      OBVIOUS
    <3>2. /\ Old(c, k) \in DOMAIN blocks[c].ops /\ ~ (c = b /\ k = at)
          /\ BlocksOf(q[c].ops[k]) = BlocksOf(blocks[c].ops[Old(c, k)])
      BY <1>10, <3>1
    <3>3. /\ Old(e, j) \in DOMAIN blocks[e].ops /\ ~ (e = b /\ j = at)
          /\ BlocksOf(q[e].ops[j]) = BlocksOf(blocks[e].ops[Old(e, j)])
      BY <1>10, <3>1
    <3>4. c \in DOMAIN blocks /\ e \in DOMAIN blocks
      BY <1>7
    <3>5. BlocksOf(blocks[c].ops[Old(c, k)]) \cap BlocksOf(blocks[e].ops[Old(e, j)]) # {}
      BY <3>2, <3>3
    <3>6. \A m \in DOMAIN blocks[c].ops, i \in DOMAIN blocks[e].ops :
            BlocksOf(blocks[c].ops[m]) \cap BlocksOf(blocks[e].ops[i]) # {} => c = e /\ m = i
      BY <1>3, <3>4 DEF NestedOnce
    <3> HIDE DEF q
    <3> QED BY <3>2, <3>3, <3>5, <3>6
  <2>2. k \in Nat /\ j \in Nat
    BY <1>7, OpsOfBlocks
  <2> QED BY <1>8, <2>1, <2>2 DEF Old
<1>12. ASSUME NEW c \in DOMAIN blocks, \A k \in DOMAIN blocks[c].ops : blocks[c].ops[k].id \notin LeaveId
       PROVE  \A k \in DOMAIN q[c].ops : q[c].ops[k].id \notin LeaveId
  BY <1>4, <1>5, <1>7, <1>9, <1>12 DEF LeaveId
<1>13. \A c \in DOMAIN blocks : q[c].ins = blocks[c].ins /\ q[c].outs = blocks[c].outs
  BY <1>7
<1>14. ASSUME NEW c \in DOMAIN q, NEW k \in DOMAIN q[c].ops
       PROVE  Lowerable(q, c, q[c].ops[k])
  <2>1. CASE q[c].ops[k] = neg
    BY <1>4, <2>1 DEF Lowerable, LoopId, LeaveId
  <2>2. CASE q[c].ops[k] = blocks[c].ops[Old(c, k)] /\ Old(c, k) \in DOMAIN blocks[c].ops
    <3> DEFINE o == q[c].ops[k]
    <3>1. Lowerable(blocks, c, o)
      BY <1>3, <1>7, <2>2
    <3> HIDE DEF o
    <3> QED
      <4>1. Lowerable(q, c, o)
        <5>1. BlocksOf(o) \subseteq DOMAIN q \ {Root, c}
          BY <1>7, <3>1 DEF Lowerable
        <5>2. o.id = "IF" => \A e \in BlocksOf(o) : Len(q[e].outs) = Len(o.outs)
          BY <1>13, <3>1 DEF Lowerable
        <5>3. o.id \in LoopId =>
                /\ o.do \in DOMAIN q /\ o.then = None /\ o.els = None
                /\ Len(o.args) = Len(o.outs)
                /\ Len(q[o.do].ins) = Len(o.outs) /\ Len(q[o.do].outs) = Len(o.outs)
          BY <1>7, <1>13, <3>1 DEF Lowerable
        <5>4. o.id = "WHILE" =>
                /\ o.cond \in DOMAIN q \ {o.do}
                /\ Len(q[o.cond].ins) = Len(o.outs) /\ q[o.cond].outs # <<>>
                /\ \A j \in DOMAIN q[o.cond].ops : q[o.cond].ops[j].id \notin LeaveId
          BY <1>7, <1>12, <1>13, <3>1 DEF Lowerable
        <5>5. o.id \in LeaveId => Len(o.args) >= Len(q[c].outs)
          BY <1>7, <1>13, <3>1 DEF Lowerable
        <5> QED BY <5>1, <5>2, <5>3, <5>4, <5>5 DEF Lowerable
      <4> QED BY <4>1 DEF o
  <2>3. CASE q[c].ops[k] = new /\ c = b
    <3>1. /\ BlocksOf(new) \subseteq DOMAIN q \ {Root, c}
          /\ \A e \in BlocksOf(new) : Len(q[e].outs) = Len(new.outs)
      <4>1. op.id = "IF"
        BY DEF op
      <4> QED BY <1>2, <1>5, <1>7, <1>13, <2>3, <4>1 DEF Lowerable
    <3> QED BY <1>5, <2>3, <3>1 DEF Lowerable, LoopId, LeaveId
  <2> HIDE DEF Old
  <2> QED BY <1>9, <2>1, <2>2, <2>3
<1>15. Structured(q)
  BY <1>3, <1>7, <1>11, <1>13, <1>14 DEF Structured
<1>16. PICK loops \in SUBSET (DOMAIN blocks \ {Root}) : LeavesWithin(blocks, loops)
  BY DEF LowerInv
<1>17. LeavesWithin(q, loops)
  <2> SUFFICES ASSUME NEW c \in DOMAIN q, NEW k \in DOMAIN q[c].ops
               PROVE  /\ q[c].ops[k].id \in LeaveId => c \in loops
                      /\ \/ c \in loops \/ q[c].ops[k].id \in LoopId
                         \/ BlocksOf(q[c].ops[k]) \cap loops = {}
    BY DEF LeavesWithin
  <2> HIDE DEF Old
  <2>1. CASE q[c].ops[k] = neg
    BY <1>4, <2>1 DEF LeaveId
  <2>2. CASE q[c].ops[k] = blocks[c].ops[Old(c, k)] /\ Old(c, k) \in DOMAIN blocks[c].ops
    BY <1>7, <1>16, <2>2 DEF LeavesWithin
  <2>3. CASE q[c].ops[k] = new /\ c = b
    <3>1. b \in loops \/ op.id \in LoopId \/ BlocksOf(op) \cap loops = {}
      BY <1>2, <1>16 DEF LeavesWithin, ops
    <3>2. op.id = "IF"
      BY DEF op
    <3> QED BY <1>5, <2>3, <3>1, <3>2 DEF LeaveId, LoopId
  <2> QED BY <1>9, <2>1, <2>2, <2>3
<1>18. DeclsRight'
  <2>1. /\ decl \in [Var -> [block : Nat, at : Nat]]
        /\ \A v \in Var : decl[v] # NoDecl =>
             decl[v].block \in DOMAIN blocks /\ decl[v].at \in DOMAIN blocks[decl[v].block].ops
    BY DEF LowerInv, Tables, DeclsRight
  <2>2. d \in [block : Nat, at : Nat] /\ d.block = b /\ d.at = at
    <3>1. d \in Places(blocks) /\ 2 * MaxOps \in Nat /\ DOMAIN blocks \subseteq Nat
      BY <1>1, <1>3, LlirAssumption DEF Todo
    <3> QED BY <3>1 DEF Places, b, at
  <2>3. \A v \in Var : decl'[v] = IF v = nextVar THEN d
                                  ELSE IF decl[v].block = b /\ decl[v].at >= at
                                  THEN [block |-> b, at |-> decl[v].at + 1] ELSE decl[v]
    BY <1>1 DEF Moved
  <2>4. decl' \in [Var -> [block : Nat, at : Nat]]
    <3>1. \A v \in Var : decl'[v] \in [block : Nat, at : Nat]
      <4> SUFFICES ASSUME NEW v \in Var PROVE decl'[v] \in [block : Nat, at : Nat]
        OBVIOUS
      <4>1. b \in Nat /\ decl[v] \in [block : Nat, at : Nat] /\ decl[v].at + 1 \in Nat
        BY <2>1, <2>2
      <4>2. [block |-> b, at |-> decl[v].at + 1] \in [block : Nat, at : Nat]
        BY <4>1
      <4> QED BY <2>2, <2>3, <4>1, <4>2
    <3>2. decl' = [v \in Var |-> decl'[v]]
      BY <1>1 DEF Moved
    <3> QED BY <3>1, <3>2
  <2>5. ASSUME NEW v \in Var, decl'[v] # NoDecl
        PROVE  decl'[v].block \in DOMAIN q /\ decl'[v].at \in DOMAIN q[decl'[v].block].ops
    <3>1. CASE v = nextVar
      <4>1. at \in 1 .. Len(ops) + 1
        BY <1>8
      <4>2. decl'[v].block = b /\ decl'[v].at = at
        BY <2>2, <2>3, <3>1
      <4>3. DOMAIN q[b].ops = 1 .. Len(ops) + 1 /\ b \in DOMAIN q
        BY <1>2, <1>6, <1>7
      <4> QED BY <4>1, <4>2, <4>3
    <3>2. CASE v # nextVar /\ decl[v].block = b /\ decl[v].at >= at
      <4>1. decl'[v].block = b /\ decl'[v].at = decl[v].at + 1
        <5>1. decl'[v] = [block |-> b, at |-> decl[v].at + 1]
          BY <2>3, <3>2
        <5> QED BY <5>1
      <4>2. b # 0
        BY <1>2, <1>3, BlockFields
      <4>3. decl[v] # NoDecl
        BY <3>2, <4>2 DEF NoDecl
      <4>4. decl[v].at \in 1 .. Len(ops)
        BY <1>8, <2>1, <3>2, <4>3 DEF ops
      <4>5. decl[v].at + 1 \in 1 .. Len(ops) + 1
        BY <1>8, <4>4
      <4> QED BY <1>2, <1>6, <1>7, <4>1, <4>5
    <3>3. CASE v # nextVar /\ ~ (decl[v].block = b /\ decl[v].at >= at)
      <4>1. decl'[v] = decl[v] /\ decl[v] # NoDecl
        BY <2>3, <2>5, <3>3
      <4>2. decl[v].block \in DOMAIN blocks /\ decl[v].at \in DOMAIN blocks[decl[v].block].ops
        BY <2>1, <4>1
      <4>3. CASE decl[v].block # b
        BY <1>7, <4>1, <4>2, <4>3
      <4>4. CASE decl[v].block = b
        <5>1. decl[v].at \in 1 .. Len(ops)
          BY <1>8, <4>2, <4>4 DEF ops
        <5>2. decl[v].at \in 1 .. Len(ops) + 1
          BY <1>8, <5>1
        <5> QED BY <1>2, <1>6, <1>7, <4>1, <4>4, <5>2
      <4> QED BY <4>3, <4>4
    <3> QED BY <3>1, <3>2, <3>3
  <2> QED BY <2>4, <2>5 DEF DeclsRight, NoDecl
<1>19. nextVar' \in Nat /\ nextVar' - 1 \in Var
  <2>1. nextVar \in Nat
    BY LowerTypes
  <2>2. nextVar + 1 \in Nat /\ (nextVar + 1) - 1 = nextVar
    BY <2>1
  <2> QED BY <1>1, <2>2
<1>20. loops \in SUBSET (DOMAIN q \ {Root})
  BY <1>7, <1>16
<1> QED BY <1>1, <1>15, <1>17, <1>18, <1>19, <1>20, PreparingKeeps

LEMMA SwapCasesKeeps ==
  ASSUME LowerInv, NEW d \in Todo, SwapCases(d)
  PROVE  LowerInv'
<1> DEFINE op == OpAt(blocks, d)
<1>1. /\ phase = "swap" /\ Invert(d, Swapped(op))
      /\ turned' = turned \cup {nextVar} /\ nextVar \in Var
  BY DEF SwapCases, Invert
<1>2. op \in SsaOp /\ op.id = "IF"
  BY <1>1, TodoPlace DEF Todo, ElseLeaves
<1> HIDE DEF op
<1>3. Swapped(op) \in SsaOp
  BY <1>2 DEF Swapped, SsaOp
<1>4. /\ Swapped(op).id = op.id /\ Swapped(op).outs = op.outs
      /\ Swapped(op).then = op.els /\ Swapped(op).els = op.then
      /\ Swapped(op).cond = op.cond /\ Swapped(op).do = op.do
  BY <1>2 DEF Swapped, SsaOp
<1>5. BlocksOf(Swapped(op)) = BlocksOf(op)
  BY <1>4 DEF BlocksOf
<1>6. turned' \subseteq Var
  BY <1>1 DEF LowerInv, Tables
<1> QED BY <1>1, <1>2, <1>3, <1>4, <1>5, <1>6, InvertKeeps DEF op

LEMMA InvertIfKeeps ==
  ASSUME LowerInv, NEW d \in Todo, InvertIf(d)
  PROVE  LowerInv'
<1> DEFINE op == OpAt(blocks, d)
           new == [op EXCEPT !.then = None, !.els = op.then]
<1>1. phase = "ifs" /\ Invert(d, new) /\ turned' = turned
  BY DEF InvertIf
<1>2. op \in SsaOp /\ op.id = "IF" /\ op.els = None
  BY <1>1, TodoPlace DEF Todo, ThenOnly
<1> HIDE DEF op
<1>3. new \in SsaOp
  BY <1>2 DEF SsaOp
<1>4. /\ new.id = op.id /\ new.outs = op.outs /\ new.then = None /\ new.els = op.then
      /\ new.cond = op.cond /\ new.do = op.do
  BY <1>2 DEF SsaOp
<1> HIDE DEF new
<1>5. BlocksOf(new) = BlocksOf(op)
  BY <1>2, <1>4 DEF BlocksOf
<1>6. turned' \subseteq Var
  BY <1>1 DEF LowerInv, Tables
<1> QED BY <1>1, <1>2, <1>3, <1>4, <1>5, <1>6, InvertKeeps DEF op

(* A WHILE loop, whose op is at place at of block b and whose blocks are c *)
(* and e, has become one that is left from within.                         *)
IsTurned(p, q, b, at, c, e, loop) ==
  /\ DOMAIN q = DOMAIN p /\ Len(q) = Len(p)
  /\ \A f \in DOMAIN p \ {c} :
       q[f].outs = p[f].outs /\ DOMAIN q[f].ops = DOMAIN p[f].ops
  /\ \A f \in DOMAIN p \ {c, e} : q[f].ins = p[f].ins
  /\ \A f \in DOMAIN p \ {b, c} : q[f].ops = p[f].ops
  /\ \A k \in DOMAIN p[b].ops : q[b].ops[k] = IF k = at THEN loop ELSE p[b].ops[k]
  /\ q[c].ops = <<>> /\ q[e].ins = <<>>

LEMMA LoopIsTurned ==
  ASSUME NEW p \in Seq(SsaBlock), NEW b \in DOMAIN p, NEW at \in DOMAIN p[b].ops,
         NEW c \in DOMAIN p \ {b}, NEW e \in DOMAIN p \ {b, c}, NEW loop \in SsaOp,
         c = p[b].ops[at].cond, e = p[b].ops[at].do,
         loop = [p[b].ops[at] EXCEPT !.id = "INFINITE", !.cond = None, !.do = Len(p) + 1]
  PROVE  LET q == LoopTurned(p, b, at)
         IN  q \in Seq(SsaBlock) /\ IsTurned(p, q, b, at, c, e, loop)
<1> DEFINE par == Len(p) + 1
           nested == [f \in DOMAIN p |->
                        IF p[f].parent = c THEN [p[f] EXCEPT !.parent = par] ELSE p[f]]
           empty == MakeBlock(0, <<>>, <<>>, <<>>)
           ops == [nested[b].ops EXCEPT ![at] = loop]
           first == [nested[b] EXCEPT !.ops = ops]
           body == [nested[e] EXCEPT !.parent = par, !.ins = <<>>]
           q == [nested EXCEPT ![b].ops[at] = loop,
                               ![c] = MakeBlock(0, <<>>, <<>>, <<>>),
                               ![e].parent = par, ![e].ins = <<>>]
<1>13. par \in Nat
  OBVIOUS
<1>14. q = LoopTurned(p, b, at)
  BY DEF LoopTurned
<1> HIDE DEF par
<1>1. ASSUME NEW f \in DOMAIN p
      PROVE  /\ nested[f] \in SsaBlock /\ nested[f].ins = p[f].ins
             /\ nested[f].outs = p[f].outs /\ nested[f].ops = p[f].ops
  <2>1. p[f] \in SsaBlock /\ par \in Nat
    BY <1>13
  <2>2. nested[f] = p[f] \/ nested[f] = [p[f] EXCEPT !.parent = par]
    OBVIOUS
  <2> HIDE DEF nested
  <2> QED BY <2>1, <2>2 DEF SsaBlock
<1>2. DOMAIN nested = DOMAIN p /\ nested = [f \in DOMAIN p |-> nested[f]]
  OBVIOUS
<1> HIDE DEF nested
<1>3. q = [f \in DOMAIN p |-> IF f = e THEN body ELSE IF f = c THEN empty
                              ELSE IF f = b THEN first ELSE nested[f]]
  BY <1>2
<1>4. /\ empty \in SsaBlock /\ empty.ops = <<>>
  BY DEF MakeBlock, SsaBlock
<1>5. /\ body \in SsaBlock /\ body.ins = <<>> /\ body.outs = p[e].outs /\ body.ops = p[e].ops
  <2>1. nested[e] \in SsaBlock /\ nested[e].outs = p[e].outs /\ nested[e].ops = p[e].ops
    BY <1>1
  <2>4. par \in Nat
    BY <1>13
  <2>2. body = [[nested[e] EXCEPT !.parent = par] EXCEPT !.ins = <<>>] /\ <<>> \in Seq(Var)
    OBVIOUS
  <2> HIDE DEF body
  <2>3. [nested[e] EXCEPT !.parent = par] \in SsaBlock
    BY <2>1, <2>4 DEF SsaBlock
  <2> QED BY <2>1, <2>2, <2>3 DEF SsaBlock
<1>6. /\ ops \in Seq(SsaOp) /\ DOMAIN ops = DOMAIN p[b].ops
      /\ \A k \in DOMAIN p[b].ops : ops[k] = IF k = at THEN loop ELSE p[b].ops[k]
  <2>1. p[b].ops \in Seq(SsaOp) /\ nested[b].ops = p[b].ops
    BY <1>1, BlockFields
  <2> QED BY <2>1
<1> HIDE DEF ops
<1>7. first \in SsaBlock /\ first.ins = p[b].ins /\ first.outs = p[b].outs /\ first.ops = ops
  <2>1. /\ nested[b] \in SsaBlock /\ nested[b].ins = p[b].ins /\ nested[b].outs = p[b].outs
    BY <1>1
  <2> QED BY <1>6, <2>1 DEF SsaBlock
<1> HIDE DEF q, first, body, empty
<1>8. q \in Seq(SsaBlock) /\ DOMAIN q = DOMAIN p /\ Len(q) = Len(p)
  <2>1. \A f \in DOMAIN p : q[f] \in SsaBlock
    BY <1>1, <1>3, <1>4, <1>5, <1>7
  <2>2. DOMAIN p = 1 .. Len(p) /\ Len(p) \in Nat
    OBVIOUS
  <2>3. DOMAIN q = DOMAIN p /\ q = [f \in DOMAIN p |-> q[f]]
    BY <1>3
  <2>4. [f \in DOMAIN p |-> q[f]] \in Seq(SsaBlock) /\ Len([f \in DOMAIN p |-> q[f]]) = Len(p)
    BY <2>1, <2>2
  <2> QED BY <2>3, <2>4
<1>9. q[b] = first /\ q[c] = empty /\ q[e] = body
  BY <1>3
<1>10. \A f \in DOMAIN p \ {b, c, e} : q[f] = nested[f]
  BY <1>3
<1>11. IsTurned(p, q, b, at, c, e, loop)
  <2>1. \A f \in DOMAIN p \ {c} : q[f].outs = p[f].outs /\ DOMAIN q[f].ops = DOMAIN p[f].ops
    BY <1>1, <1>5, <1>6, <1>7, <1>9, <1>10
  <2>2. \A f \in DOMAIN p \ {c, e} : q[f].ins = p[f].ins
    BY <1>1, <1>7, <1>9, <1>10
  <2>3. \A f \in DOMAIN p \ {b, c} : q[f].ops = p[f].ops
    BY <1>1, <1>5, <1>9, <1>10
  <2>4. \A k \in DOMAIN p[b].ops : q[b].ops[k] = IF k = at THEN loop ELSE p[b].ops[k]
    BY <1>6, <1>7, <1>9
  <2> QED BY <1>4, <1>5, <1>8, <1>9, <2>1, <2>2, <2>3, <2>4 DEF IsTurned
<1>12. q \in Seq(SsaBlock) /\ IsTurned(p, q, b, at, c, e, loop)
  BY <1>8, <1>11
<1> QED BY <1>12, <1>14

(* Copies, the ops of the condition and the branch behind one another.     *)
IsRound(s, copies, ops, branch) ==
  /\ s \in Seq(SsaOp) /\ DOMAIN s = 1 .. Len(copies) + Len(ops) + 1
  /\ Len(s) = Len(copies) + Len(ops) + 1
  /\ \A k \in 1 .. Len(copies) : s[k] = copies[k]
  /\ \A k \in Len(copies) + 1 .. Len(copies) + Len(ops) : s[k] = ops[k - Len(copies)]
  /\ s[Len(copies) + Len(ops) + 1] = branch

LEMMA RoundJoined ==
  ASSUME NEW copies \in Seq(SsaOp), NEW ops \in Seq(SsaOp), NEW branch \in SsaOp
  PROVE  IsRound(copies \o ops \o <<branch>>, copies, ops, branch)
<1> DEFINE n == Len(copies)
           m == Len(ops)
           t == copies \o ops
           w == <<branch>>
           s == t \o w
<1>1. /\ t \in Seq(SsaOp) /\ Len(t) = n + m /\ n \in Nat /\ m \in Nat
      /\ \A k \in 1 .. n + m : t[k] = IF k <= n THEN copies[k] ELSE ops[k - n]
  BY Joined
<1>2. w \in Seq(SsaOp) /\ Len(w) = 1 /\ w[1] = branch
  OBVIOUS
<1> HIDE DEF t, w
<1>3. s \in Seq(SsaOp) /\ DOMAIN s = 1 .. Len(t) + Len(w) /\ Len(s) = Len(t) + Len(w)
  BY <1>1, <1>2, Joined
<1>10. \A k \in 1 .. Len(t) + Len(w) : s[k] = IF k <= Len(t) THEN t[k] ELSE w[k - Len(t)]
  <2>1. t \in Seq(SsaOp) /\ w \in Seq(SsaOp)
    BY <1>1, <1>2
  <2> QED BY <2>1, Joined
<1> HIDE DEF s, n, m
<1>4. \A k \in 1 .. n + m + 1 : s[k] = IF k <= n + m THEN t[k] ELSE w[k - (n + m)]
  BY <1>1, <1>2, <1>3, <1>10
<1>5. \A k \in 1 .. n : s[k] = copies[k]
  BY <1>1, <1>4
<1>6. \A k \in n + 1 .. n + m : s[k] = ops[k - n]
  BY <1>1, <1>4
<1>7. s[n + m + 1] = branch
  <2>1. (n + m + 1) - (n + m) = 1 /\ n + m + 1 \in 1 .. n + m + 1 /\ ~ (n + m + 1 <= n + m)
    BY <1>1
  <2> QED BY <1>2, <1>4, <2>1
<1>8. DOMAIN s = 1 .. n + m + 1 /\ Len(s) = n + m + 1
  BY <1>1, <1>2, <1>3
<1>9. IsRound(s, copies, ops, branch)
  BY <1>3, <1>5, <1>6, <1>7, <1>8 DEF IsRound, n, m
<1> QED BY <1>9 DEF s, t, w

(* The loop has n states, its block is the first of two new ones, which    *)
(* leaves for the second where it does not go on with e.                   *)
IsEndless(loop, n, block) ==
  /\ loop.id = "INFINITE" /\ loop.then = None /\ loop.els = None /\ loop.cond = None
  /\ loop.do = block /\ BlocksOf(loop) = {block}
  /\ Len(loop.outs) = n /\ Len(loop.args) = n

IsChoice(op, n, e, block) ==
  op.id = "IF" /\ BlocksOf(op) = {e, block} /\ Len(op.outs) = n

IsWayOut(ops, n) ==
  /\ DOMAIN ops = {1}
  /\ ops[1].id = "BREAK" /\ BlocksOf(ops[1]) = {} /\ Len(ops[1].args) = n

IsUnrolled(p, q, b, at) ==
  LET op == p[b].ops[at]
      c == op.cond
      n == Len(op.outs)
      m == Len(p[c].ops)
      N == Len(p)
      round == q[N + 1].ops
  IN  /\ q \in Seq(SsaBlock) /\ DOMAIN q = 1 .. N + 2
      /\ \A f \in DOMAIN p \ {c} :
           /\ q[f].outs = p[f].outs /\ DOMAIN q[f].ops = DOMAIN p[f].ops
           /\ f # op.do => q[f].ins = p[f].ins
           /\ \A k \in DOMAIN p[f].ops : (f = b /\ k = at) \/ q[f].ops[k] = p[f].ops[k]
      /\ q[c].ops = <<>>
      /\ IsEndless(q[b].ops[at], n, N + 1)
      /\ DOMAIN round = 1 .. n + m + 1
      /\ \A k \in 1 .. n : round[k].id = "IMM" /\ BlocksOf(round[k]) = {}
      /\ \A k \in n + 1 .. n + m : round[k] = p[c].ops[k - n]
      /\ IsChoice(round[n + m + 1], n, op.do, N + 2)
      /\ IsWayOut(q[N + 2].ops, n)
      /\ Len(q[N + 1].ins) = n /\ Len(q[N + 1].outs) = n /\ Len(q[N + 2].outs) = n

IsWhile(p, b, op) ==
  /\ op \in SsaOp /\ op.then = None /\ op.els = None
  /\ op.cond \in DOMAIN p \ {Root, b} /\ op.do \in DOMAIN p \ {Root, b, op.cond}
  /\ BlocksOf(op) = {op.cond, op.do}
  /\ Len(op.args) = Len(op.outs)
  /\ Len(p[op.cond].ins) = Len(op.outs) /\ p[op.cond].outs # <<>>
  /\ Len(p[op.do].ins) = Len(op.outs) /\ Len(p[op.do].outs) = Len(op.outs)
  /\ \A k \in DOMAIN p[op.cond].ops : p[op.cond].ops[k].id \notin LeaveId

LEMMA WhileFields ==
  ASSUME NEW p, Structured(p), NEW b \in DOMAIN p, NEW at \in DOMAIN p[b].ops,
         p[b].ops[at].id = "WHILE"
  PROVE  p \in Seq(SsaBlock) /\ IsWhile(p, b, p[b].ops[at])
<1> DEFINE op == p[b].ops[at]
<1>1. p \in Seq(SsaBlock) /\ Lowerable(p, b, op)
  BY DEF Structured
<1>2. op \in SsaOp /\ op.id = "WHILE" /\ op.id \in LoopId
  BY <1>1, OpsOfBlocks DEF LoopId
<1> HIDE DEF op
<1>3. op.cond \in DOMAIN p \ {op.do} /\ op.do \in DOMAIN p /\ op.then = None /\ op.els = None
  BY <1>1, <1>2 DEF Lowerable
<1>4. None \notin DOMAIN p
  BY <1>1, LowerAssumption
<1>5. BlocksOf(op) = {op.cond, op.do}
  BY <1>3, <1>4 DEF BlocksOf
<1>6. BlocksOf(op) \subseteq DOMAIN p \ {Root, b}
  BY <1>1 DEF Lowerable
<1>7. /\ Len(op.args) = Len(op.outs)
      /\ Len(p[op.do].ins) = Len(op.outs) /\ Len(p[op.do].outs) = Len(op.outs)
  BY <1>1, <1>2 DEF Lowerable
<1>8. /\ Len(p[op.cond].ins) = Len(op.outs) /\ p[op.cond].outs # <<>>
      /\ \A k \in DOMAIN p[op.cond].ops : p[op.cond].ops[k].id \notin LeaveId
  BY <1>1, <1>2 DEF Lowerable
<1>9. op.cond \in DOMAIN p \ {Root, b} /\ op.do \in DOMAIN p \ {Root, b, op.cond}
  BY <1>3, <1>5, <1>6
<1>10. IsWhile(p, b, op)
  BY <1>2, <1>3, <1>5, <1>7, <1>8, <1>9 DEF IsWhile
<1> QED BY <1>1, <1>10 DEF op

IsMade(op, id, outs, args, inner) ==
  op \in SsaOp /\ op.id = id /\ op.outs = outs /\ op.args = args /\ BlocksOf(op) = inner

LEMMA MadeOp ==
  ASSUME NEW id \in SsaOpId, NEW outs \in Seq(Var), NEW a \in Val \cup {None},
         NEW args \in Seq(Val), NEW then \in Nat \cup {None}, NEW els \in Nat \cup {None}
  PROVE  IsMade(MakeSsaOp(id, outs, a, None, args, then, els, None, None),
                id, outs, args, {then, els} \ {None})
<1> DEFINE op == MakeSsaOp(id, outs, a, None, args, then, els, None, None)
<1>1. op \in SsaOp
  BY DEF MakeSsaOp, SsaOp
<1>2. /\ op.id = id /\ op.outs = outs /\ op.args = args
      /\ op.then = then /\ op.els = els /\ op.cond = None /\ op.do = None
  BY DEF MakeSsaOp
<1> HIDE DEF op
<1>3. BlocksOf(op) = {then, els} \ {None}
  BY <1>2 DEF BlocksOf
<1> QED BY <1>1, <1>2, <1>3 DEF op, IsMade

(* What LowerWhile makes of the program. *)
LEMMA WhileUnrolled ==
  ASSUME NEW p, Structured(p), NEW b \in DOMAIN p, NEW at \in DOMAIN p[b].ops,
         p[b].ops[at].id = "WHILE",
         NEW results \in Seq(Var), Len(results) = Len(p[b].ops[at].outs)
  PROVE  /\ IsUnrolled(p, Unrolled(p, b, at, results), b, at)
         /\ Len(FirstValues(p, p[b].ops[at])) = Len(p[b].ops[at].outs)
         /\ Len(RoundOps(p, p[b].ops[at], results)) =
              Len(p[b].ops[at].outs) + Len(p[p[b].ops[at].cond].ops) + 1
<1> DEFINE op      == p[b].ops[at]
           c       == op.cond
           e       == op.do
           N       == Len(p)
           n       == Len(op.outs)
           m       == Len(p[c].ops)
           loop    == [op EXCEPT !.id = "INFINITE", !.cond = None, !.do = N + 1]
           copies  == [k \in DOMAIN p[c].ins |-> Imm2(p[c].ins[k], p[e].ins[k])]
           branch  == MakeSsaOp("IF", results, p[c].outs[1], None, <<>>, e, N + 2, None, None)
           leave   == MakeSsaOp("BREAK", <<>>, None, None, p[e].ins, None, None, None, None)
           ops     == copies \o p[c].ops \o <<branch>>
           front   == LoopTurned(p, b, at)
           fst     == MakeBlock(b, p[e].ins, ops, results)
           snd     == MakeBlock(N + 1, <<>>, <<leave>>, p[e].ins)
           back    == <<fst, snd>>
           q       == front \o back
<1>22. /\ q = Unrolled(p, b, at, results)
       /\ copies = FirstValues(p, op) /\ ops = RoundOps(p, op, results)
  BY DEF Unrolled, FirstValues, RoundOps
<1>23. /\ c = p[b].ops[at].cond /\ e = p[b].ops[at].do
       /\ loop = [p[b].ops[at] EXCEPT !.id = "INFINITE", !.cond = None, !.do = Len(p) + 1]
  OBVIOUS
<1>1. /\ p \in Seq(SsaBlock) /\ op \in SsaOp /\ op.then = None /\ op.els = None
      /\ c \in DOMAIN p \ {Root, b} /\ e \in DOMAIN p \ {Root, b, c}
      /\ Len(op.args) = n /\ Len(p[c].ins) = n /\ p[c].outs # <<>>
      /\ Len(p[e].ins) = n /\ Len(p[e].outs) = n
  <2>1. p \in Seq(SsaBlock) /\ IsWhile(p, b, op)
    BY WhileFields
  <2> HIDE DEF op
  <2> QED BY <2>1 DEF IsWhile
<1> HIDE DEF op
<1>2. /\ N \in Nat /\ DOMAIN p = 1 .. N /\ n \in Nat /\ m \in Nat /\ None \notin Nat
      /\ N + 1 \in Nat /\ N + 2 \in Nat /\ b \in Nat /\ e \in Nat
      /\ p[c].ops \in Seq(SsaOp) /\ p[c].ins \in Seq(Var) /\ p[c].outs \in Seq(Var)
      /\ p[e].ins \in Seq(Var)
  <2>1. p[c].ops \in Seq(SsaOp) /\ p[c].ins \in Seq(Var) /\ p[c].outs \in Seq(Var)
        /\ p[e].ins \in Seq(Var)
    BY <1>1, BlockFields
  <2>2. op.outs \in Seq(Var)
    BY <1>1, OpFields
  <2>3. N \in Nat /\ DOMAIN p = 1 .. N /\ b \in Nat /\ e \in Nat
    BY <1>1
  <2>4. None \notin Nat
    BY LowerAssumption
  <2>5. n \in Nat /\ m \in Nat
    BY <2>1, <2>2
  <2> HIDE DEF N, n, m, c, e
  <2> QED BY <2>1, <2>3, <2>4, <2>5
<1> HIDE DEF N, n, m, c, e
<1>3. loop \in SsaOp /\ IsEndless(loop, n, N + 1)
  <2>1. "INFINITE" \in SsaOpId
    BY DEF SsaOpId, LoopId
  <2>2. loop \in SsaOp
    BY <1>1, <1>2, <2>1 DEF SsaOp
  <2>3. /\ loop.id = "INFINITE" /\ loop.then = op.then /\ loop.els = op.els
        /\ loop.cond = None /\ loop.do = N + 1 /\ loop.outs = op.outs /\ loop.args = op.args
    BY <1>1 DEF SsaOp
  <2> HIDE DEF loop
  <2>4. BlocksOf(loop) = {N + 1}
    BY <1>1, <1>2, <2>3 DEF BlocksOf
  <2> QED BY <1>1, <2>2, <2>3, <2>4 DEF IsEndless, n
<1>4. /\ copies \in Seq(SsaOp) /\ Len(copies) = n
      /\ \A k \in 1 .. n : copies[k].id = "IMM" /\ BlocksOf(copies[k]) = {}
  <2>1. DOMAIN p[c].ins = 1 .. n /\ DOMAIN p[e].ins = 1 .. n
    BY <1>1, <1>2
  <2>2. ASSUME NEW k \in 1 .. n
        PROVE  LET x == Imm2(p[c].ins[k], p[e].ins[k])
               IN  x \in SsaOp /\ x.id = "IMM" /\ BlocksOf(x) = {}
    <3>1. p[c].ins[k] \in Var /\ p[e].ins[k] \in Val
      BY <1>2, <2>1, SMTT(60) DEF Val
    <3>2. "IMM" \in SsaOpId /\ <<p[c].ins[k]>> \in Seq(Var) /\ <<>> \in Seq(Val)
      BY <3>1 DEF SsaOpId, PlainId
    <3> DEFINE x == Imm2(p[c].ins[k], p[e].ins[k])
    <3>3. IsMade(x, "IMM", <<p[c].ins[k]>>, <<>>, {None, None} \ {None})
      BY <3>1, <3>2, MadeOp DEF Imm2
    <3> QED BY <3>3 DEF IsMade
  <2>3. \A k \in 1 .. n : /\ copies[k] \in SsaOp /\ copies[k].id = "IMM"
                          /\ BlocksOf(copies[k]) = {}
    BY <2>1, <2>2
  <2>4. copies = [k \in 1 .. n |-> copies[k]]
    BY <2>1
  <2> HIDE DEF copies
  <2>5. [k \in 1 .. n |-> copies[k]] \in Seq(SsaOp) /\ Len([k \in 1 .. n |-> copies[k]]) = n
    BY <1>2, <2>3, SMTT(60)
  <2> QED BY <2>3, <2>4, <2>5
<1>5. branch \in SsaOp /\ IsChoice(branch, n, e, N + 2)
  <2>1. "IF" \in SsaOpId /\ <<>> \in Seq(Val) /\ p[c].outs[1] \in Val
    BY <1>1, <1>2 DEF SsaOpId, Val
  <2>2. IsMade(branch, "IF", results, <<>>, {e, N + 2} \ {None})
    BY <1>2, <2>1, MadeOp
  <2> HIDE DEF branch
  <2>3. {e, N + 2} \ {None} = {e, N + 2}
    BY <1>2
  <2> QED BY <2>2, <2>3 DEF IsMade, IsChoice, n, op
<1>6. leave \in SsaOp /\ IsWayOut(<<leave>>, n)
  <2>1. "BREAK" \in SsaOpId /\ <<>> \in Seq(Var) /\ p[e].ins \in Seq(Val)
    BY <1>2 DEF SsaOpId, Val
  <2>2. IsMade(leave, "BREAK", <<>>, p[e].ins, {None, None} \ {None})
    BY <2>1, MadeOp
  <2> HIDE DEF leave
  <2> QED BY <1>1, <2>2 DEF IsMade, IsWayOut
<1> HIDE DEF loop, copies, branch, leave
<1>7. IsRound(ops, copies, p[c].ops, branch)
  BY <1>2, <1>4, <1>5, RoundJoined
<1>8. /\ ops \in Seq(SsaOp) /\ DOMAIN ops = 1 .. n + m + 1 /\ Len(ops) = n + m + 1
      /\ \A k \in 1 .. n : ops[k].id = "IMM" /\ BlocksOf(ops[k]) = {}
      /\ \A k \in n + 1 .. n + m : ops[k] = p[c].ops[k - n]
      /\ IsChoice(ops[n + m + 1], n, e, N + 2)
  <2> HIDE DEF ops
  <2>1. ops \in Seq(SsaOp) /\ DOMAIN ops = 1 .. n + m + 1
    BY <1>4, <1>7 DEF IsRound, m
  <2>2. Len(ops) = n + m + 1
    BY <1>4, <1>7 DEF IsRound, m
  <2>3. \A k \in 1 .. n : ops[k] = copies[k]
    BY <1>4, <1>7 DEF IsRound
  <2>4. \A k \in n + 1 .. n + m : ops[k] = p[c].ops[k - n]
    BY <1>4, <1>7 DEF IsRound, m
  <2>5. ops[n + m + 1] = branch
    BY <1>4, <1>7 DEF IsRound, m
  <2> QED BY <1>4, <1>5, <2>1, <2>2, <2>3, <2>4, <2>5
<1> HIDE DEF ops
<1>9. front \in Seq(SsaBlock) /\ IsTurned(p, front, b, at, c, e, loop)
  <2>1. /\ at \in DOMAIN p[b].ops /\ c \in DOMAIN p \ {b} /\ e \in DOMAIN p \ {b, c}
    BY <1>1
  <2> QED BY <1>1, <1>2, <1>3, <1>23, <2>1, LoopIsTurned
<1> HIDE DEF front
<1>10. fst \in SsaBlock /\ fst.ins = p[e].ins /\ fst.ops = ops /\ fst.outs = results
  BY <1>2, <1>8 DEF MakeBlock, SsaBlock
<1>11. snd \in SsaBlock /\ snd.ops = <<leave>> /\ snd.outs = p[e].ins
  <2>1. <<leave>> \in Seq(SsaOp) /\ <<>> \in Seq(Var)
    BY <1>6
  <2> QED BY <1>2, <2>1 DEF MakeBlock, SsaBlock
<1> HIDE DEF fst, snd
<1>12. back \in Seq(SsaBlock) /\ Len(back) = 2 /\ back[1] = fst /\ back[2] = snd
  BY <1>10, <1>11
<1> HIDE DEF back
<1>13. q \in Seq(SsaBlock) /\ DOMAIN q = 1 .. Len(front) + Len(back)
  BY <1>9, <1>12, Joined, ZenonT(60)
<1>14. \A f \in 1 .. Len(front) + Len(back) :
         q[f] = IF f <= Len(front) THEN front[f] ELSE back[f - Len(front)]
  <2>1. front \in Seq(SsaBlock) /\ back \in Seq(SsaBlock)
    BY <1>9, <1>12
  <2> QED BY <2>1, Joined
<1> HIDE DEF q
<1>15. Len(front) = N
  BY <1>9 DEF IsTurned, N
<1>16. /\ DOMAIN q = 1 .. N + 2 /\ q[N + 1] = fst /\ q[N + 2] = snd
       /\ \A f \in DOMAIN p : q[f] = front[f]
  <2>1. N + 1 \in 1 .. N + 2 /\ N + 2 \in 1 .. N + 2 /\ (N + 1) - N = 1 /\ (N + 2) - N = 2
        /\ ~ (N + 1 <= N) /\ ~ (N + 2 <= N)
    BY <1>2
  <2>2. \A f \in 1 .. N + 2 : q[f] = IF f <= N THEN front[f] ELSE back[f - N]
    BY <1>12, <1>14, <1>15
  <2>3. q[N + 1] = fst /\ q[N + 2] = snd
    BY <1>12, <2>1, <2>2
  <2>4. \A f \in DOMAIN p : q[f] = front[f]
    BY <1>2, <2>2
  <2> QED BY <1>12, <1>13, <1>15, <2>3, <2>4
<1>17. \A f \in DOMAIN p \ {c} :
         /\ q[f].outs = p[f].outs /\ DOMAIN q[f].ops = DOMAIN p[f].ops
         /\ f # e => q[f].ins = p[f].ins
         /\ \A k \in DOMAIN p[f].ops : (f = b /\ k = at) \/ q[f].ops[k] = p[f].ops[k]
  BY <1>9, <1>16 DEF IsTurned
<1>18. q[c].ops = <<>> /\ q[b].ops[at] = loop
  BY <1>1, <1>9, <1>16 DEF IsTurned
<1>19. /\ Len(q[N + 1].ins) = n /\ Len(q[N + 1].outs) = n /\ Len(q[N + 2].outs) = n
       /\ q[N + 1].ops = ops /\ q[N + 2].ops = <<leave>>
  BY <1>1, <1>10, <1>11, <1>16 DEF n, op
<1>20. IsUnrolled(p, q, b, at)
  BY <1>3, <1>6, <1>8, <1>13, <1>16, <1>17, <1>18, <1>19 DEF IsUnrolled, op, n, m, N, c, e
<1>21. IsUnrolled(p, q, b, at) /\ Len(copies) = n /\ Len(ops) = n + m + 1
  BY <1>4, <1>8, <1>20
<1> QED BY <1>21, <1>22 DEF op, n, m, c

(* Where an op of the new program was: those of the condition, block c,    *)
(* have moved behind n copies in the first new block.                      *)
WasIn(p, c, f) == IF f = Len(p) + 1 THEN c ELSE f
WasAt(p, n, f, k) == IF f = Len(p) + 1 THEN k - n ELSE k

IsOld(p, q, b, at, f, k) ==
  LET op == p[b].ops[at]
      g == WasIn(p, op.cond, f)
      j == WasAt(p, Len(op.outs), f, k)
  IN  /\ f \in 1 .. Len(p) + 1 /\ f # op.cond
      /\ g \in DOMAIN p /\ j \in DOMAIN p[g].ops /\ ~ (g = b /\ j = at)
      /\ q[f].ops[k] = p[g].ops[j]
      /\ BlocksOf(q[f].ops[k]) \subseteq DOMAIN p \ {op.cond, op.do}

IsAdded(p, q, b, at, f, k) ==
  LET op == p[b].ops[at]
      n == Len(op.outs)
      N == Len(p)
      new == q[f].ops[k]
  IN  \/ f = b /\ k = at /\ IsEndless(new, n, N + 1)
      \/ f = N + 1 /\ new.id = "IMM" /\ BlocksOf(new) = {}
      \/ f = N + 1 /\ k = n + Len(p[op.cond].ops) + 1 /\ IsChoice(new, n, op.do, N + 2)
      \/ f = N + 2 /\ new.id = "BREAK" /\ BlocksOf(new) = {} /\ Len(new.args) = n

LEMMA UnrolledOps ==
  ASSUME NEW p, Structured(p), NEW b \in DOMAIN p, NEW at \in DOMAIN p[b].ops,
         p[b].ops[at].id = "WHILE", NEW q, IsUnrolled(p, q, b, at),
         NEW f \in DOMAIN q, NEW k \in DOMAIN q[f].ops
  PROVE  IsOld(p, q, b, at, f, k) \/ IsAdded(p, q, b, at, f, k)
<1> DEFINE op == p[b].ops[at]
           c == op.cond
           e == op.do
           n == Len(op.outs)
           m == Len(p[c].ops)
           N == Len(p)
<1>1. /\ p \in Seq(SsaBlock) /\ op \in SsaOp /\ c \in DOMAIN p \ {b}
      /\ BlocksOf(op) = {c, e}
  <2>1. p \in Seq(SsaBlock) /\ IsWhile(p, b, op)
    BY WhileFields
  <2> HIDE DEF op
  <2> QED BY <2>1 DEF IsWhile
<1>2. /\ N \in Nat /\ DOMAIN p = 1 .. N /\ n \in Nat /\ m \in Nat
      /\ p[c].ops \in Seq(SsaOp) /\ DOMAIN p[c].ops = 1 .. m
  <2>1. p[c].ops \in Seq(SsaOp)
    BY <1>1, BlockFields
  <2>2. op.outs \in Seq(Var)
    BY <1>1, OpFields
  <2>3. N \in Nat /\ DOMAIN p = 1 .. N
    BY <1>1
  <2> HIDE DEF op, c
  <2> QED BY <2>1, <2>2, <2>3
<1> HIDE DEF op, c, e, n, m, N
<1>3. /\ q \in Seq(SsaBlock) /\ DOMAIN q = 1 .. N + 2
      /\ \A g \in DOMAIN p \ {c} :
           /\ DOMAIN q[g].ops = DOMAIN p[g].ops
           /\ \A j \in DOMAIN p[g].ops : (g = b /\ j = at) \/ q[g].ops[j] = p[g].ops[j]
      /\ q[c].ops = <<>> /\ IsEndless(q[b].ops[at], n, N + 1)
      /\ DOMAIN q[N + 1].ops = 1 .. n + m + 1
      /\ \A j \in 1 .. n : q[N + 1].ops[j].id = "IMM" /\ BlocksOf(q[N + 1].ops[j]) = {}
      /\ \A j \in n + 1 .. n + m : q[N + 1].ops[j] = p[c].ops[j - n]
      /\ IsChoice(q[N + 1].ops[n + m + 1], n, e, N + 2)
      /\ IsWayOut(q[N + 2].ops, n)
  BY DEF IsUnrolled, op, c, e, n, m, N
<1>4. ASSUME NEW g \in DOMAIN p, NEW j \in DOMAIN p[g].ops, ~ (g = b /\ j = at)
      PROVE  BlocksOf(p[g].ops[j]) \subseteq DOMAIN p \ {c, e}
  <2>1. Lowerable(p, g, p[g].ops[j]) /\ NestedOnce(p)
    BY DEF Structured
  <2>2. BlocksOf(p[g].ops[j]) \subseteq DOMAIN p
    BY <2>1 DEF Lowerable
  <2>3. BlocksOf(p[g].ops[j]) \cap BlocksOf(p[b].ops[at]) = {}
    BY <1>4, <2>1 DEF NestedOnce
  <2> QED BY <1>1, <2>2, <2>3 DEF op
<1>5. CASE f \in DOMAIN p
  <2>1. f # c
    BY <1>3, <1>5
  <2>2. f # N + 1 /\ f \in 1 .. N + 1
    BY <1>2, <1>5
  <2>3. k \in DOMAIN p[f].ops
    BY <1>3, <1>5, <2>1
  <2>4. CASE f = b /\ k = at
    BY <1>3, <2>4 DEF IsAdded, op, n, N
  <2>5. CASE ~ (f = b /\ k = at)
    <3>1. q[f].ops[k] = p[f].ops[k]
      BY <1>3, <1>5, <2>1, <2>3, <2>5
    <3>2. WasIn(p, c, f) = f /\ WasAt(p, n, f, k) = k
      BY <2>2 DEF WasIn, WasAt, N
    <3>3. BlocksOf(q[f].ops[k]) \subseteq DOMAIN p \ {c, e}
      BY <1>4, <1>5, <2>3, <2>5, <3>1
    <3> QED BY <1>5, <2>1, <2>2, <2>3, <2>5, <3>1, <3>2, <3>3 DEF IsOld, op, n, c, e, N
  <2> QED BY <2>4, <2>5
<1>6. CASE f = N + 1
  <2>1. k \in 1 .. n + m + 1
    BY <1>3, <1>6
  <2>2. CASE k \in 1 .. n
    BY <1>3, <1>6, <2>2 DEF IsAdded, N
  <2>3. CASE k = n + m + 1
    BY <1>3, <1>6, <2>3 DEF IsAdded, op, c, e, n, m, N
  <2>4. CASE k \in n + 1 .. n + m
    <3>1. q[f].ops[k] = p[c].ops[k - n]
      BY <1>3, <1>6, <2>4
    <3>2. WasIn(p, c, f) = c /\ WasAt(p, n, f, k) = k - n
      BY <1>6 DEF WasIn, WasAt, N
    <3>3. k - n \in 1 .. m
      BY <1>2, <2>4
    <3>4. c \in DOMAIN p /\ c # b /\ k - n \in DOMAIN p[c].ops
      BY <1>1, <1>2, <3>3
    <3>5. BlocksOf(q[f].ops[k]) \subseteq DOMAIN p \ {c, e}
      BY <1>4, <3>1, <3>4
    <3>6. f # c /\ f \in 1 .. N + 1
      BY <1>1, <1>2, <1>6
    <3> QED BY <3>1, <3>2, <3>4, <3>5, <3>6 DEF IsOld, op, n, c, e, N
  <2> QED BY <1>2, <2>1, <2>2, <2>3, <2>4
<1>7. CASE f = N + 2
  <2>1. k = 1
    BY <1>3, <1>7 DEF IsWayOut
  <2> QED BY <1>3, <1>7, <2>1 DEF IsAdded, IsWayOut, op, n, N
<1>8. f \in DOMAIN p \/ f = N + 1 \/ f = N + 2
  BY <1>2, <1>3, SMTT(60)
<1> QED BY <1>5, <1>6, <1>7, <1>8

LEMMA UnrolledNestedOnce ==
  ASSUME NEW p, Structured(p), NEW b \in DOMAIN p, NEW at \in DOMAIN p[b].ops,
         p[b].ops[at].id = "WHILE", NEW q, IsUnrolled(p, q, b, at)
  PROVE  NestedOnce(q)
<1> DEFINE op == p[b].ops[at]
           c == op.cond
           e == op.do
           n == Len(op.outs)
           M == Len(p[c].ops)
           N == Len(p)
<1>1. /\ N \in Nat /\ DOMAIN p = 1 .. N /\ NestedOnce(p) /\ b \in Nat /\ n \in Nat
      /\ e \in DOMAIN p /\ q \in Seq(SsaBlock)
  <2>1. p \in Seq(SsaBlock) /\ op.outs \in Seq(Var) /\ e \in DOMAIN p
    <3>1. p \in Seq(SsaBlock) /\ IsWhile(p, b, op)
      BY WhileFields
    <3> HIDE DEF op
    <3> QED BY <3>1, OpFields DEF IsWhile
  <2>2. q \in Seq(SsaBlock)
    BY DEF IsUnrolled
  <2>3. NestedOnce(p)
    BY DEF Structured
  <2> HIDE DEF op, c
  <2> QED BY <2>1, <2>2, <2>3
<1> HIDE DEF op, c, e, n, M, N
<1>2. ASSUME NEW f \in DOMAIN q, NEW k \in DOMAIN q[f].ops, IsAdded(p, q, b, at, f, k),
             BlocksOf(q[f].ops[k]) # {}
      PROVE  \/ f = b /\ k = at /\ BlocksOf(q[f].ops[k]) = {N + 1}
             \/ f = N + 1 /\ k = n + M + 1 /\ BlocksOf(q[f].ops[k]) = {e, N + 2}
  BY <1>2 DEF IsAdded, IsEndless, IsChoice, op, c, e, n, M, N
<1>3. ASSUME NEW f \in DOMAIN q, NEW k \in DOMAIN q[f].ops, IsOld(p, q, b, at, f, k)
      PROVE  BlocksOf(q[f].ops[k]) \subseteq 1 .. N /\ e \notin BlocksOf(q[f].ops[k])
  BY <1>1, <1>3 DEF IsOld, op, c, e, n, N
<1>4. ASSUME NEW f \in DOMAIN q, NEW k \in DOMAIN q[f].ops,
             NEW g \in DOMAIN q, NEW j \in DOMAIN q[g].ops,
             IsAdded(p, q, b, at, f, k), BlocksOf(q[f].ops[k]) \cap BlocksOf(q[g].ops[j]) # {}
      PROVE  f = g /\ k = j
  <2>1. /\ N + 1 \notin 1 .. N /\ N + 2 \notin 1 .. N /\ N + 1 # N + 2
        /\ e # N + 1
    BY <1>1
  <2>2. BlocksOf(q[f].ops[k]) # {} /\ BlocksOf(q[g].ops[j]) # {}
    BY <1>4
  <2>3. \/ f = b /\ k = at /\ BlocksOf(q[f].ops[k]) = {N + 1}
        \/ f = N + 1 /\ k = n + M + 1 /\ BlocksOf(q[f].ops[k]) = {e, N + 2}
    BY <1>2, <1>4, <2>2
  <2>4. CASE IsAdded(p, q, b, at, g, j)
    <3>1. \/ g = b /\ j = at /\ BlocksOf(q[g].ops[j]) = {N + 1}
          \/ g = N + 1 /\ j = n + M + 1 /\ BlocksOf(q[g].ops[j]) = {e, N + 2}
      BY <1>2, <2>2, <2>4
    <3> QED BY <1>4, <2>1, <2>3, <3>1
  <2>5. CASE IsOld(p, q, b, at, g, j)
    <3>1. BlocksOf(q[g].ops[j]) \subseteq 1 .. N /\ e \notin BlocksOf(q[g].ops[j])
      BY <1>3, <2>5
    <3> QED BY <1>4, <2>1, <2>3, <3>1
  <2> QED BY <2>4, <2>5, UnrolledOps
<1>5. ASSUME NEW f \in DOMAIN q, NEW k \in DOMAIN q[f].ops,
             NEW g \in DOMAIN q, NEW j \in DOMAIN q[g].ops,
             IsOld(p, q, b, at, f, k), IsOld(p, q, b, at, g, j),
             BlocksOf(q[f].ops[k]) \cap BlocksOf(q[g].ops[j]) # {}
      PROVE  f = g /\ k = j
  <2>1. WasIn(p, c, f) = WasIn(p, c, g) /\ WasAt(p, n, f, k) = WasAt(p, n, g, j)
    <3>1. /\ WasIn(p, c, f) \in DOMAIN p /\ WasAt(p, n, f, k) \in DOMAIN p[WasIn(p, c, f)].ops
          /\ q[f].ops[k] = p[WasIn(p, c, f)].ops[WasAt(p, n, f, k)]
      BY <1>5 DEF IsOld, op, c, n
    <3>2. /\ WasIn(p, c, g) \in DOMAIN p /\ WasAt(p, n, g, j) \in DOMAIN p[WasIn(p, c, g)].ops
          /\ q[g].ops[j] = p[WasIn(p, c, g)].ops[WasAt(p, n, g, j)]
      BY <1>5 DEF IsOld, op, c, n
    <3> DEFINE u == WasIn(p, c, f)
               v == WasIn(p, c, g)
               x == WasAt(p, n, f, k)
               y == WasAt(p, n, g, j)
    <3>3. \A i \in DOMAIN p[u].ops, h \in DOMAIN p[v].ops :
            BlocksOf(p[u].ops[i]) \cap BlocksOf(p[v].ops[h]) # {} => u = v /\ i = h
      BY <1>1, <3>1, <3>2 DEF NestedOnce
    <3>4. BlocksOf(p[u].ops[x]) \cap BlocksOf(p[v].ops[y]) # {}
      BY <1>5, <3>1, <3>2
    <3> HIDE DEF u, v, x, y
    <3>5. x \in DOMAIN p[u].ops /\ y \in DOMAIN p[v].ops
      BY <3>1, <3>2 DEF u, v, x, y
    <3>6. u = v /\ x = y
      BY <3>3, <3>4, <3>5
    <3> QED BY <3>6 DEF u, v, x, y
  <2>2. f # c /\ g # c
    BY <1>5 DEF IsOld, op, c
  <2>3. f = g
    BY <2>1, <2>2 DEF WasIn
  <2>4. k \in Nat /\ j \in Nat
    BY <1>1, OpsOfBlocks
  <2>5. k = j
    BY <1>1, <2>1, <2>3, <2>4 DEF WasAt
  <2> QED BY <2>3, <2>5
<1> QED
  <2> SUFFICES ASSUME NEW f \in DOMAIN q, NEW g \in DOMAIN q,
                      NEW k \in DOMAIN q[f].ops, NEW j \in DOMAIN q[g].ops,
                      BlocksOf(q[f].ops[k]) \cap BlocksOf(q[g].ops[j]) # {}
               PROVE  f = g /\ k = j
    BY DEF NestedOnce
  <2>1. CASE IsAdded(p, q, b, at, f, k)
    BY <1>4, <2>1
  <2>2. CASE IsAdded(p, q, b, at, g, j)
    <3>1. BlocksOf(q[g].ops[j]) \cap BlocksOf(q[f].ops[k]) # {}
      OBVIOUS
    <3> QED BY <1>4, <2>2, <3>1
  <2>3. CASE IsOld(p, q, b, at, f, k) /\ IsOld(p, q, b, at, g, j)
    BY <1>5, <2>3
  <2> QED BY <2>1, <2>2, <2>3, UnrolledOps

(* What is known of the blocks of the new program. *)
LEMMA UnrolledBlocks ==
  ASSUME NEW p, Structured(p), NEW b \in DOMAIN p, NEW at \in DOMAIN p[b].ops,
         p[b].ops[at].id = "WHILE", NEW q, IsUnrolled(p, q, b, at)
  PROVE  LET op == p[b].ops[at]
             n == Len(op.outs)
             N == Len(p)
         IN  /\ N \in Nat /\ n \in Nat /\ DOMAIN p = 1 .. N /\ DOMAIN q = 1 .. N + 2
             /\ \A f \in DOMAIN p \ {op.cond} :
                  q[f].outs = p[f].outs /\ (f # op.do => q[f].ins = p[f].ins)
             /\ Len(q[N + 1].ins) = n /\ Len(q[N + 1].outs) = n /\ Len(q[N + 2].outs) = n
             /\ Len(q[op.do].outs) = n
<1> DEFINE op == p[b].ops[at]
           n == Len(op.outs)
           N == Len(p)
<1>1. p \in Seq(SsaBlock) /\ IsWhile(p, b, op)
  BY WhileFields
<1>2. /\ DOMAIN q = 1 .. N + 2
      /\ \A f \in DOMAIN p \ {op.cond} :
           q[f].outs = p[f].outs /\ (f # op.do => q[f].ins = p[f].ins)
      /\ Len(q[N + 1].ins) = n /\ Len(q[N + 1].outs) = n /\ Len(q[N + 2].outs) = n
  BY DEF IsUnrolled
<1> HIDE DEF op
<1>3. N \in Nat /\ DOMAIN p = 1 .. N
  BY <1>1
<1>4. op.outs \in Seq(Var)
  BY <1>1, OpFields DEF IsWhile
<1>5. n \in Nat
  BY <1>4
<1>6. Len(q[op.do].outs) = n
  BY <1>1, <1>2 DEF IsWhile
<1> QED BY <1>2, <1>3, <1>5, <1>6 DEF op

LEMMA AddedLowerable ==
  ASSUME NEW p, Structured(p), NEW b \in DOMAIN p, NEW at \in DOMAIN p[b].ops,
         p[b].ops[at].id = "WHILE", NEW q, IsUnrolled(p, q, b, at),
         NEW f \in DOMAIN q, NEW k \in DOMAIN q[f].ops, IsAdded(p, q, b, at, f, k)
  PROVE  Lowerable(q, f, q[f].ops[k])
<1> DEFINE op == p[b].ops[at]
           e == op.do
           n == Len(op.outs)
           N == Len(p)
           new == q[f].ops[k]
<1>1. /\ N \in Nat /\ n \in Nat /\ DOMAIN p = 1 .. N /\ DOMAIN q = 1 .. N + 2
      /\ Len(q[N + 1].ins) = n /\ Len(q[N + 1].outs) = n /\ Len(q[N + 2].outs) = n
      /\ Len(q[e].outs) = n
  BY UnrolledBlocks
<1>2. b \in DOMAIN p /\ e \in DOMAIN p \ {Root} /\ Root \in DOMAIN p
  <2>1. IsWhile(p, b, op)
    BY WhileFields
  <2> HIDE DEF op
  <2> QED BY <2>1 DEF IsWhile, Structured
<1>3. /\ N + 1 \in 1 .. N + 2 /\ N + 2 \in 1 .. N + 2 /\ N + 1 \notin 1 .. N /\ N + 2 \notin 1 .. N
      /\ N + 1 # N + 2 /\ \A i \in 1 .. N : i \in 1 .. N + 2
  BY <1>1
<1>4. \/ f = b /\ IsEndless(new, n, N + 1)
      \/ new.id = "IMM" /\ BlocksOf(new) = {}
      \/ f = N + 1 /\ IsChoice(new, n, e, N + 2)
      \/ f = N + 2 /\ new.id = "BREAK" /\ BlocksOf(new) = {} /\ Len(new.args) = n
  BY DEF IsAdded
<1> HIDE DEF op, e, n, N, new
<1>5. CASE f = b /\ IsEndless(new, n, N + 1)
  <2>1. BlocksOf(new) \subseteq DOMAIN q \ {Root, f}
    BY <1>1, <1>2, <1>3, <1>5 DEF IsEndless
  <2>2. /\ new.id \in LoopId => /\ new.do \in DOMAIN q /\ new.then = None /\ new.els = None
                                /\ Len(new.args) = Len(new.outs)
                                /\ Len(q[new.do].ins) = Len(new.outs)
                                /\ Len(q[new.do].outs) = Len(new.outs)
    BY <1>1, <1>3, <1>5 DEF IsEndless
  <2>3. new.id # "IF" /\ new.id # "WHILE" /\ new.id \notin LeaveId
    BY <1>5 DEF IsEndless, LeaveId
  <2>4. Lowerable(q, f, new)
    BY <2>1, <2>2, <2>3 DEF Lowerable
  <2> QED BY <2>4 DEF new
<1>6. CASE new.id = "IMM" /\ BlocksOf(new) = {}
  <2>1. Lowerable(q, f, new)
    BY <1>6 DEF Lowerable, LoopId, LeaveId
  <2> QED BY <2>1 DEF new
<1>7. CASE f = N + 1 /\ IsChoice(new, n, e, N + 2)
  <2>1. BlocksOf(new) \subseteq DOMAIN q \ {Root, f}
    BY <1>1, <1>2, <1>3, <1>7 DEF IsChoice
  <2>2. \A g \in BlocksOf(new) : Len(q[g].outs) = Len(new.outs)
    BY <1>1, <1>7 DEF IsChoice
  <2>3. new.id = "IF"
    BY <1>7 DEF IsChoice
  <2>4. Lowerable(q, f, new)
    BY <2>1, <2>2, <2>3 DEF Lowerable, LoopId, LeaveId
  <2> QED BY <2>4 DEF new
<1>8. CASE f = N + 2 /\ new.id = "BREAK" /\ BlocksOf(new) = {} /\ Len(new.args) = n
  <2>1. Len(new.args) >= Len(q[f].outs)
    BY <1>1, <1>8
  <2>2. Lowerable(q, f, new)
    BY <1>8, <2>1 DEF Lowerable, LoopId, LeaveId
  <2> QED BY <2>2 DEF new
<1> QED BY <1>4, <1>5, <1>6, <1>7, <1>8

LEMMA OldLowerable ==
  ASSUME NEW p, Structured(p), NEW b \in DOMAIN p, NEW at \in DOMAIN p[b].ops,
         p[b].ops[at].id = "WHILE", NEW q, IsUnrolled(p, q, b, at),
         NEW f \in DOMAIN q, NEW k \in DOMAIN q[f].ops, IsOld(p, q, b, at, f, k)
  PROVE  Lowerable(q, f, q[f].ops[k])
<1> DEFINE op == p[b].ops[at]
           c == op.cond
           e == op.do
           n == Len(op.outs)
           N == Len(p)
           new == q[f].ops[k]
           g == WasIn(p, c, f)
           j == WasAt(p, n, f, k)
<1>1. /\ N \in Nat /\ DOMAIN p = 1 .. N /\ DOMAIN q = 1 .. N + 2
      /\ \A h \in DOMAIN p \ {c} : q[h].outs = p[h].outs /\ (h # e => q[h].ins = p[h].ins)
  BY UnrolledBlocks
<1>2. \A i \in DOMAIN p[c].ops : p[c].ops[i].id \notin LeaveId
  <2>1. IsWhile(p, b, op)
    BY WhileFields
  <2> HIDE DEF op
  <2> QED BY <2>1 DEF IsWhile
<1>3. /\ f \in 1 .. N + 1 /\ f # c /\ g \in DOMAIN p /\ j \in DOMAIN p[g].ops
      /\ new = p[g].ops[j] /\ BlocksOf(new) \subseteq DOMAIN p \ {c, e}
  BY DEF IsOld
<1>4. \A h \in DOMAIN p \ {c} : \A i \in DOMAIN q[h].ops :
        i \in DOMAIN p[h].ops /\ (q[h].ops[i] = p[h].ops[i] \/ q[h].ops[i].id = "INFINITE")
  BY DEF IsUnrolled, IsEndless
<1>5. Lowerable(p, g, new)
  BY <1>3 DEF Structured
<1>6. (f = N + 1 /\ g = c) \/ (f \in DOMAIN p /\ f = g)
  <2>1. (f = N + 1 => g = c) /\ (f # N + 1 => g = f)
    BY DEF WasIn
  <2> HIDE DEF g, c, N
  <2>2. f = N + 1 \/ f \in 1 .. N
    <3>1. N \in Nat /\ f \in 1 .. N + 1
      BY <1>1, <1>3, Zenon
    <3> HIDE DEF new, j
    <3> QED BY <3>1, SMTT(60)
  <2> QED BY <1>1, <2>1, <2>2
<1> HIDE DEF op, c, e, n, N, new, g, j
<1>7. None \notin DOMAIN q /\ \A i \in 1 .. N : i \in 1 .. N + 2 /\ i # N + 1
  <2>1. None \notin Nat
    BY LowerAssumption
  <2> QED BY <1>1, <2>1
<1>8. BlocksOf(new) \subseteq DOMAIN q \ {Root, f}
  <2>1. BlocksOf(new) \subseteq DOMAIN p \ {Root, g}
    BY <1>5 DEF Lowerable
  <2> QED BY <1>1, <1>6, <1>7, <2>1
<1>9. new.id = "IF" => \A h \in BlocksOf(new) : Len(q[h].outs) = Len(new.outs)
  BY <1>1, <1>3, <1>5 DEF Lowerable
<1>10. ASSUME new.id \in LoopId
       PROVE  /\ new.do \in DOMAIN q /\ new.then = None /\ new.els = None
              /\ Len(new.args) = Len(new.outs)
              /\ Len(q[new.do].ins) = Len(new.outs) /\ Len(q[new.do].outs) = Len(new.outs)
  <2>1. /\ new.do \in DOMAIN p /\ new.then = None /\ new.els = None
        /\ Len(new.args) = Len(new.outs)
        /\ Len(p[new.do].ins) = Len(new.outs) /\ Len(p[new.do].outs) = Len(new.outs)
    BY <1>5, <1>10 DEF Lowerable
  <2>2. new.do \in BlocksOf(new)
    BY <1>1, <1>7, <2>1 DEF BlocksOf
  <2>3. new.do \in DOMAIN p \ {c, e}
    BY <1>3, <2>2
  <2> QED BY <1>1, <1>7, <2>1, <2>3
<1>11. ASSUME new.id = "WHILE"
       PROVE  /\ new.cond \in DOMAIN q \ {new.do}
              /\ Len(q[new.cond].ins) = Len(new.outs) /\ q[new.cond].outs # <<>>
              /\ \A i \in DOMAIN q[new.cond].ops : q[new.cond].ops[i].id \notin LeaveId
  <2>1. /\ new.cond \in DOMAIN p \ {new.do}
        /\ Len(p[new.cond].ins) = Len(new.outs) /\ p[new.cond].outs # <<>>
        /\ \A i \in DOMAIN p[new.cond].ops : p[new.cond].ops[i].id \notin LeaveId
    BY <1>5, <1>11 DEF Lowerable
  <2>2. new.cond \in BlocksOf(new)
    BY <1>1, <1>7, <2>1 DEF BlocksOf
  <2>3. new.cond \in DOMAIN p \ {c, e}
    BY <1>3, <2>2
  <2>4. \A i \in DOMAIN q[new.cond].ops : q[new.cond].ops[i].id \notin LeaveId
    BY <1>4, <2>1, <2>3 DEF LeaveId
  <2> QED BY <1>1, <1>7, <2>1, <2>3, <2>4
<1>12. new.id \in LeaveId => Len(new.args) >= Len(q[f].outs)
  <2>1. CASE f = N + 1 /\ g = c
    BY <1>2, <1>3, <2>1
  <2>2. CASE f \in DOMAIN p /\ f = g
    <3>1. q[f].outs = p[g].outs
      BY <1>1, <1>3, <2>2
    <3> QED BY <1>5, <3>1 DEF Lowerable
  <2> QED BY <1>6, <2>1, <2>2
<1>13. Lowerable(q, f, new)
  BY <1>8, <1>9, <1>10, <1>11, <1>12 DEF Lowerable
<1> QED BY <1>13 DEF new

LEMMA UnrolledStructured ==
  ASSUME NEW p, Structured(p), NEW b \in DOMAIN p, NEW at \in DOMAIN p[b].ops,
         p[b].ops[at].id = "WHILE", NEW q, IsUnrolled(p, q, b, at),
         NEW loops \in SUBSET (DOMAIN p \ {Root}), LeavesWithin(p, loops)
  PROVE  /\ Structured(q)
         /\ loops \cup {Len(p) + 1, Len(p) + 2} \in SUBSET (DOMAIN q \ {Root})
         /\ LeavesWithin(q, loops \cup {Len(p) + 1, Len(p) + 2})
<1> DEFINE op == p[b].ops[at]
           c == op.cond
           n == Len(op.outs)
           N == Len(p)
           new == loops \cup {N + 1, N + 2}
<1>1. /\ N \in Nat /\ DOMAIN p = 1 .. N /\ DOMAIN q = 1 .. N + 2
      /\ \A h \in DOMAIN p \ {c} : q[h].outs = p[h].outs
  BY UnrolledBlocks
<1>2. c # Root /\ Root \in DOMAIN p /\ p[Root].outs # <<>>
  <2>1. IsWhile(p, b, op)
    BY WhileFields
  <2> HIDE DEF op
  <2> QED BY <2>1 DEF IsWhile, Structured
<1>3. q \in Seq(SsaBlock)
  BY DEF IsUnrolled
<1> HIDE DEF op, c, n, N
<1>4. \A i \in 1 .. N : i \in 1 .. N + 2 /\ i # N + 1 /\ i # N + 2
  BY <1>1
<1>5. Root \in DOMAIN q /\ q[Root].outs # <<>>
  BY <1>1, <1>2, <1>4
<1>6. \A f \in DOMAIN q : \A k \in DOMAIN q[f].ops : Lowerable(q, f, q[f].ops[k])
  BY UnrolledOps, OldLowerable, AddedLowerable
<1>7. Structured(q)
  BY <1>3, <1>5, <1>6, UnrolledNestedOnce DEF Structured
<1>8. new \in SUBSET (DOMAIN q \ {Root})
  <2>1. N + 1 \in 1 .. N + 2 /\ N + 2 \in 1 .. N + 2
    BY <1>1
  <2> QED BY <1>1, <1>2, <1>4, <2>1
<1>9. LeavesWithin(q, new)
  <2> SUFFICES ASSUME NEW f \in DOMAIN q, NEW k \in DOMAIN q[f].ops
               PROVE  /\ q[f].ops[k].id \in LeaveId => f \in new
                      /\ \/ f \in new \/ q[f].ops[k].id \in LoopId
                         \/ BlocksOf(q[f].ops[k]) \cap new = {}
    BY DEF LeavesWithin
  <2>1. CASE IsAdded(p, q, b, at, f, k)
    <3>1. \/ IsEndless(q[f].ops[k], n, N + 1) \/ f = N + 1 \/ f = N + 2
      BY <2>1 DEF IsAdded, op, n, N
    <3> QED BY <3>1 DEF IsEndless, LoopId, LeaveId
  <2>2. CASE IsOld(p, q, b, at, f, k) /\ f # N + 1
    <3>1. /\ f \in DOMAIN p /\ k \in DOMAIN p[f].ops /\ q[f].ops[k] = p[f].ops[k]
          /\ BlocksOf(q[f].ops[k]) \subseteq DOMAIN p
      BY <2>2 DEF IsOld, WasIn, WasAt, N
    <3>2. /\ q[f].ops[k].id \in LeaveId => f \in loops
          /\ \/ f \in loops \/ q[f].ops[k].id \in LoopId
             \/ BlocksOf(q[f].ops[k]) \cap loops = {}
      BY <3>1 DEF LeavesWithin
    <3>3. BlocksOf(q[f].ops[k]) \cap {N + 1, N + 2} = {}
      BY <1>1, <1>4, <3>1
    <3> QED BY <3>2, <3>3
  <2> QED BY <2>1, <2>2, UnrolledOps
<1>10. /\ Structured(q) /\ new \in SUBSET (DOMAIN q \ {Root}) /\ LeavesWithin(q, new)
  BY <1>7, <1>8, <1>9
<1> QED BY <1>10 DEF N

LEMMA ResultsMade ==
  ASSUME NEW outs \in Seq(Var), NEW first \in Nat, first - 1 \in Var,
         NEW results, results = [k \in DOMAIN outs |-> first + k - 1],
         Members(results) \subseteq Var
  PROVE  /\ results \in Seq(Var) /\ Len(results) = Len(outs)
         /\ first + Len(results) \in Nat /\ first + Len(results) - 1 \in Var
<1> DEFINE n == Len(outs)
<1>1. n \in Nat /\ DOMAIN outs = 1 .. n
  OBVIOUS
<1> HIDE DEF n
<1>2. results = [k \in 1 .. n |-> results[k]] /\ DOMAIN results = 1 .. n
  BY <1>1
<1>3. \A k \in 1 .. n : results[k] \in Var /\ results[k] = first + k - 1
  BY <1>1, <1>2 DEF Members
<1>4. [k \in 1 .. n |-> results[k]] \in Seq(Var) /\ Len([k \in 1 .. n |-> results[k]]) = n
  BY <1>1, <1>3
<1>5. results \in Seq(Var) /\ Len(results) = n
  BY <1>2, <1>4
<1>6. first + n \in Nat /\ first + n - 1 \in Var
  <2>1. CASE n = 0
    BY <2>1
  <2>2. CASE n # 0
    <3>1. n \in 1 .. n
      BY <1>1, <2>2
    <3>2. results[n] \in Var /\ results[n] = first + n - 1
      BY <1>3, <3>1
    <3> QED BY <1>1, <3>2
  <2> QED BY <2>1, <2>2
<1> QED BY <1>5, <1>6 DEF n

LEMMA UnrolledDecls ==
  ASSUME LowerInv, NEW b \in DOMAIN blocks, NEW at \in DOMAIN blocks[b].ops,
         blocks[b].ops[at].id = "WHILE", IsUnrolled(blocks, blocks', b, at),
         NEW made,
         decl' = [v \in Var |->
                    IF v \in made
                    THEN [block |-> Len(blocks) + 1,
                          at |-> Len(blocks[b].ops[at].outs)
                                   + Len(blocks[blocks[b].ops[at].cond].ops) + 1]
                    ELSE Moved(decl, blocks[b].ops[at].cond, 1, Len(blocks) + 1,
                               Len(blocks[b].ops[at].outs))[v]]
  PROVE  DeclsRight'
<1> DEFINE op == blocks[b].ops[at]
           c == op.cond
           n == Len(op.outs)
           m == Len(blocks[c].ops)
           N == Len(blocks)
           q == blocks'
           place == [block |-> N + 1, at |-> n + m + 1]
<1>1. /\ N \in Nat /\ n \in Nat /\ DOMAIN blocks = 1 .. N /\ DOMAIN q = 1 .. N + 2
  <2>1. Structured(blocks)
    BY DEF LowerInv
  <2> QED BY <2>1, UnrolledBlocks
<1>2. /\ c \in DOMAIN blocks /\ blocks[c].ops \in Seq(SsaOp)
  <2>1. blocks \in Seq(SsaBlock) /\ IsWhile(blocks, b, op)
    BY WhileFields DEF LowerInv
  <2> HIDE DEF op
  <2> QED BY <2>1, BlockFields DEF IsWhile
<1>3. /\ \A f \in DOMAIN blocks \ {c} : DOMAIN q[f].ops = DOMAIN blocks[f].ops
      /\ DOMAIN q[N + 1].ops = 1 .. n + m + 1
  BY DEF IsUnrolled
<1>4. decl' = [v \in Var |-> IF v \in made THEN place ELSE Moved(decl, c, 1, N + 1, n)[v]]
  OBVIOUS
<1>5. /\ decl \in [Var -> [block : Nat, at : Nat]]
      /\ \A v \in Var : decl[v] # NoDecl =>
           decl[v].block \in DOMAIN blocks /\ decl[v].at \in DOMAIN blocks[decl[v].block].ops
  BY DEF LowerInv, Tables, DeclsRight
<1>6. m \in Nat /\ DOMAIN blocks[c].ops = 1 .. m /\ c \in Nat /\ c # 0
  <2> HIDE DEF op, c, q, n, place
  <2>1. m \in Nat /\ DOMAIN blocks[c].ops = 1 .. m
    BY <1>2
  <2>2. c \in 1 .. N
    <3> HIDE DEF N
    <3> QED BY <1>1, <1>2
  <2> HIDE DEF m, N
  <2> QED BY <1>1, <2>1, <2>2
<1>7. /\ N + 1 \in Nat /\ n + m + 1 \in Nat /\ N + 1 \in DOMAIN q
      /\ n + m + 1 \in DOMAIN q[N + 1].ops
      /\ \A i \in DOMAIN blocks : i \in DOMAIN q
  <2> HIDE DEF op, c, n, m, N, q
  <2>1. N + 1 \in 1 .. N + 2 /\ \A i \in 1 .. N : i \in 1 .. N + 2
    BY <1>1
  <2>2. n + m + 1 \in 1 .. n + m + 1
    BY <1>1, <1>6
  <2> QED BY <1>1, <1>3, <1>6, <2>1, <2>2
<1> HIDE DEF op, c, n, m, N, q
<1>13. place \in [block : Nat, at : Nat] /\ place.block = N + 1 /\ place.at = n + m + 1
  BY <1>7
<1>8. ASSUME NEW v \in Var
      PROVE  \/ decl'[v] = place
             \/ /\ decl[v].block = c /\ decl[v].at >= 1
                /\ decl'[v] = [block |-> N + 1, at |-> decl[v].at + n]
             \/ decl'[v] = decl[v] /\ ~ (decl[v].block = c /\ decl[v].at >= 1)
  BY <1>4 DEF Moved
<1>9. \A v \in Var : /\ decl[v] \in [block : Nat, at : Nat]
                     /\ decl[v].block \in Nat /\ decl[v].at \in Nat
  BY <1>5
<1>10. \A v \in Var : decl'[v] \in [block : Nat, at : Nat]
  <2> SUFFICES ASSUME NEW v \in Var PROVE decl'[v] \in [block : Nat, at : Nat]
    OBVIOUS
  <2>1. CASE decl'[v] = place
    BY <1>13, <2>1
  <2>2. CASE decl'[v] = [block |-> N + 1, at |-> decl[v].at + n]
    <3>1. decl[v].at + n \in Nat
      BY <1>1, <1>9
    <3>2. N + 1 \in Nat
      BY <1>7
    <3>3. [block |-> N + 1, at |-> decl[v].at + n] \in [block : Nat, at : Nat]
      BY <3>1, <3>2
    <3> QED BY <2>2, <3>3
  <2>3. CASE decl'[v] = decl[v]
    BY <1>9, <2>3
  <2> QED BY <1>8, <2>1, <2>2, <2>3
<1>11. ASSUME NEW v \in Var, decl'[v] # NoDecl
       PROVE  decl'[v].block \in DOMAIN q /\ decl'[v].at \in DOMAIN q[decl'[v].block].ops
  <2>1. CASE decl'[v] = place
    <3>1. decl'[v].block = N + 1 /\ decl'[v].at = n + m + 1
      BY <1>13, <2>1
    <3> QED BY <1>7, <3>1
  <2>2. CASE /\ decl[v].block = c /\ decl[v].at >= 1
             /\ decl'[v] = [block |-> N + 1, at |-> decl[v].at + n]
    <3>1. decl'[v].block = N + 1 /\ decl'[v].at = decl[v].at + n
      <4> DEFINE w == [block |-> N + 1, at |-> decl[v].at + n]
      <4>1. decl'[v] = w
        BY <2>2
      <4>2. w.block = N + 1 /\ w.at = decl[v].at + n
        OBVIOUS
      <4> HIDE DEF w
      <4> QED BY <4>1, <4>2
    <3>2. decl[v] # NoDecl
      BY <1>6, <2>2 DEF NoDecl
    <3>3. decl[v].at \in 1 .. m
      BY <1>5, <1>6, <2>2, <3>2
    <3>4. decl[v].at + n \in 1 .. n + m + 1
      BY <1>1, <1>6, <3>3
    <3> QED BY <1>3, <1>7, <3>1, <3>4
  <2>3. CASE decl'[v] = decl[v] /\ ~ (decl[v].block = c /\ decl[v].at >= 1)
    <3>1. /\ decl[v].block \in DOMAIN blocks
          /\ decl[v].at \in DOMAIN blocks[decl[v].block].ops
      BY <1>5, <1>11, <2>3
    <3>2. decl[v].block # c
      <4> SUFFICES ASSUME decl[v].block = c PROVE FALSE
        OBVIOUS
      <4>1. decl[v].at \in 1 .. m
        BY <1>6, <3>1
      <4>2. ~ (decl[v].at >= 1)
        BY <2>3
      <4> QED BY <1>6, <4>1, <4>2
    <3>3. DOMAIN q[decl[v].block].ops = DOMAIN blocks[decl[v].block].ops
      BY <1>3, <3>1, <3>2
    <3> QED BY <1>7, <2>3, <3>1, <3>3
  <2> QED BY <1>8, <2>1, <2>2, <2>3
<1>12. decl' \in [Var -> [block : Nat, at : Nat]]
  <2>1. decl' = [v \in Var |-> decl'[v]]
    BY <1>4
  <2> QED BY <1>10, <2>1
<1> QED BY <1>11, <1>12 DEF DeclsRight, NoDecl, q

LEMMA LowerWhileKeeps ==
  ASSUME LowerInv, NEW d \in Todo, LowerWhile(d)
  PROVE  LowerInv'
<1> DEFINE b       == d.block
           at      == d.at
           op      == blocks[b].ops[at]
           body    == blocks[op.do]
           results == [n \in DOMAIN body.outs |-> nextVar + n - 1]
           ops     == RoundOps(blocks, op, results)
           copies  == FirstValues(blocks, op)
           place   == [block |-> Len(blocks) + 1, at |-> Len(ops)]
           moved   == Moved(decl, op.cond, 1, Len(blocks) + 1, Len(copies))
<1>1. /\ phase = "loops" /\ Members(results) \subseteq Var
      /\ blocks' = Unrolled(blocks, b, at, results)
      /\ decl' = [v \in Var |-> IF v \in Members(results) THEN place ELSE moved[v]]
      /\ nextVar' = nextVar + Len(results)
      /\ UNCHANGED <<turned, phase, nextLabel, stack, dest, meaning>>
  BY DEF LowerWhile, OpAt
<1>2. op.id = "WHILE"
  <2>1. OpAt(blocks, d).id = "WHILE"
    BY <1>1 DEF Todo, ElseLeaves, ThenOnly
  <2> QED BY <2>1 DEF OpAt
<1>3. b \in DOMAIN blocks /\ at \in DOMAIN blocks[b].ops /\ Structured(blocks)
  BY TodoPlace DEF LowerInv
<1> HIDE DEF b, at
<1>4. /\ blocks \in Seq(SsaBlock) /\ body.outs \in Seq(Var) /\ Len(body.outs) = Len(op.outs)
  <2>1. blocks \in Seq(SsaBlock) /\ IsWhile(blocks, b, op)
    BY <1>2, <1>3, WhileFields
  <2> HIDE DEF op
  <2> QED BY <2>1, BlockFields DEF IsWhile
<1>5. /\ results \in Seq(Var) /\ Len(results) = Len(op.outs)
      /\ nextVar' \in Nat /\ nextVar' - 1 \in Var
  <2>1. nextVar \in Nat /\ nextVar - 1 \in Var
    BY DEF LowerInv, Tables
  <2>2. results = [n \in DOMAIN body.outs |-> nextVar + n - 1] /\ Members(results) \subseteq Var
    BY <1>1
  <2>3. nextVar' = nextVar + Len(results) /\ body.outs \in Seq(Var)
    BY <1>1, <1>4
  <2>4. Len(body.outs) = Len(op.outs)
    BY <1>4
  <2> HIDE DEF results, body, op
  <2>5. /\ results \in Seq(Var) /\ Len(results) = Len(body.outs)
        /\ nextVar + Len(results) \in Nat /\ nextVar + Len(results) - 1 \in Var
    BY <2>1, <2>2, <2>3, ResultsMade
  <2>6. nextVar' \in Nat
    BY <2>3, <2>5
  <2>7. nextVar' - 1 \in Var
    <3>1. Len(results) \in Nat
      BY <2>5
    <3> QED BY <2>1, <2>3, <2>5, <3>1
  <2>8. Len(results) = Len(op.outs)
    BY <2>4, <2>5
  <2> QED BY <2>5, <2>6, <2>7, <2>8
<1> HIDE DEF results
<1>6. /\ IsUnrolled(blocks, Unrolled(blocks, b, at, results), b, at)
      /\ Len(copies) = Len(op.outs) /\ Len(ops) = Len(op.outs) + Len(blocks[op.cond].ops) + 1
  BY <1>2, <1>3, <1>5, WhileUnrolled
<1>7. IsUnrolled(blocks, blocks', b, at)
  BY <1>1, <1>6
<1>8. decl' = [v \in Var |->
                 IF v \in Members(results)
                 THEN [block |-> Len(blocks) + 1, at |-> Len(op.outs) + Len(blocks[op.cond].ops) + 1]
                 ELSE Moved(decl, op.cond, 1, Len(blocks) + 1, Len(op.outs))[v]]
  <2> HIDE DEF copies, ops
  <2> QED BY <1>1, <1>6
<1> HIDE DEF copies, ops, place, moved
<1>9. DeclsRight'
  BY <1>2, <1>3, <1>7, <1>8, UnrolledDecls
<1>10. PICK loops \in SUBSET (DOMAIN blocks \ {Root}) : LeavesWithin(blocks, loops)
  BY DEF LowerInv
<1>11. /\ Structured(blocks')
       /\ loops \cup {Len(blocks) + 1, Len(blocks) + 2} \in SUBSET (DOMAIN blocks' \ {Root})
       /\ LeavesWithin(blocks', loops \cup {Len(blocks) + 1, Len(blocks) + 2})
  BY <1>2, <1>3, <1>7, <1>10, UnrolledStructured
<1>12. turned' \subseteq Var
  BY <1>1 DEF LowerInv, Tables
<1> QED BY <1>1, <1>5, <1>9, <1>11, <1>12, PreparingKeeps

-----------------------------------------------------------------------------
(* The theorems *)

LEMMA GreatestIsIn ==
  ASSUME NEW S \in SUBSET Nat, IsFiniteSet(S), S # {}
  PROVE  Max(S) \in S
<1> DEFINE HasMax(s) == \E x \in s : \A y \in s : x >= y
           T == {n \in Nat : \E s \in SUBSET S : s # {} /\ Cardinality(s) = n /\ ~ HasMax(s)}
<1>1. T = {}
  <2> SUFFICES ASSUME T # {} PROVE FALSE
    OBVIOUS
  <2>1. PICK n \in T : \A m \in T : n <= m
    BY LeastExists
  <2>2. PICK s \in SUBSET S : s # {} /\ Cardinality(s) = n /\ ~ HasMax(s)
    OBVIOUS
  <2>3. PICK x \in s : TRUE
    BY <2>2
  <2> DEFINE t == s \ {x}
  <2>4. IsFiniteSet(s)
    BY FS_Subset
  <2>5. Cardinality(t) = n - 1 /\ Cardinality(t) \in Nat
    <3>1. Cardinality(t) = Cardinality(s) - 1 /\ IsFiniteSet(t)
      BY <2>4, FS_RemoveElement
    <3> QED BY <2>2, <3>1, FS_CardinalityType
  <2>6. t # {}
    <3> SUFFICES ASSUME t = {} PROVE FALSE
      OBVIOUS
    <3>1. \A y \in s : y = x
      OBVIOUS
    <3>2. x \in Nat
      OBVIOUS
    <3> QED BY <2>2, <3>1, <3>2
  <2>7. HasMax(t)
    <3> SUFFICES ASSUME ~ HasMax(t) PROVE FALSE
      OBVIOUS
    <3>1. t \in SUBSET S
      OBVIOUS
    <3>2. Cardinality(t) \in T
      BY <2>5, <2>6, <3>1
    <3>3. n \in Nat
      OBVIOUS
    <3> HIDE DEF T, t
    <3> QED BY <2>1, <2>5, <3>2, <3>3
  <2>8. PICK u \in t : \A y \in t : u >= y
    BY <2>7
  <2>9. \A y \in s : y = x \/ y \in t
    OBVIOUS
  <2>10. \A y \in s : y \in Nat
    OBVIOUS
  <2>11. CASE x >= u
    <3>1. \A y \in s : x >= y
      BY <2>8, <2>9, <2>10, <2>11
    <3> QED BY <2>2, <3>1
  <2>12. CASE ~ (x >= u)
    <3>1. \A y \in s : u >= y
      BY <2>8, <2>9, <2>10, <2>12
    <3> QED BY <2>2, <2>8, <3>1
  <2> QED BY <2>11, <2>12
<1>2. Cardinality(S) \in Nat
  BY FS_CardinalityType
<1>3. HasMax(S)
  BY <1>1, <1>2
<1> QED BY <1>3 DEF Max

LEMMA LowerStarts ==
  ASSUME Init
  PROVE  LowerInv
<1>1. PICK p \in Programs :
        /\ blocks = p
        /\ phase = IF OneBranch(p) THEN "ifs" ELSE "loops"
        /\ turned = {} /\ decl = DeclsOf(p)
        /\ nextVar = Max(VarsOf(p)) + 1 /\ nextLabel = 2
        /\ stack = <<>> /\ dest = <<>>
  BY DEF Init
<1>2. Structured(p) /\ VarsOf(p) # {} /\ p \in Seq(SsaBlock)
  BY LowerAssumption DEF WellFormed, Structured
<1>3. PICK loops \in SUBSET (DOMAIN p \ {Root}) : LeavesWithin(p, loops)
  BY LowerAssumption DEF WellFormed
<1>4. DeclsRight
  <2>1. ASSUME NEW v \in Var
        PROVE  /\ decl[v] \in [block : Nat, at : Nat]
               /\ decl[v] # NoDecl =>
                    decl[v].block \in DOMAIN p /\ decl[v].at \in DOMAIN p[decl[v].block].ops
    <3> DEFINE here == {d \in Places(p) : d.at <= Len(p[d.block].ops)
                                          /\ v \in Members(OpAt(p, d).outs)}
    <3>1. decl[v] = IF here = {} THEN NoDecl ELSE CHOOSE d \in here : TRUE
      BY <1>1 DEF DeclsOf
    <3>2. CASE here = {}
      <4>1. decl[v] = NoDecl
        BY <3>1, <3>2
      <4> QED BY <4>1 DEF NoDecl
    <3>3. CASE here # {}
      <4>1. decl[v] \in here
        BY <3>1, <3>3
      <4>2. decl[v] \in Places(p) /\ decl[v].at <= Len(p[decl[v].block].ops)
        BY <4>1
      <4>3. PICK b \in DOMAIN p, k \in 1 .. 2 * MaxOps : decl[v] = [block |-> b, at |-> k]
        BY <4>2 DEF Places
      <4>4. b \in Nat /\ k \in Nat /\ k > 0
        <5>1. 2 * MaxOps \in Nat
          BY LlirAssumption
        <5> QED BY <1>2, <5>1
      <4>5. decl[v].block = b /\ decl[v].at = k
        BY <4>3
      <4>6. p[b].ops \in Seq(SsaOp)
        BY <1>2, BlockFields
      <4>7. k \in DOMAIN p[b].ops
        BY <4>2, <4>4, <4>5, <4>6
      <4>8. decl[v] \in [block : Nat, at : Nat]
        BY <4>3, <4>4
      <4> QED BY <4>5, <4>7, <4>8
    <3> QED BY <3>2, <3>3
  <2>2. decl = [v \in Var |-> decl[v]]
    BY <1>1 DEF DeclsOf
  <2>3. decl \in [Var -> [block : Nat, at : Nat]]
    BY <2>1, <2>2
  <2> QED BY <1>1, <2>1, <2>3 DEF DeclsRight
<1>5. nextVar \in Nat /\ nextVar - 1 \in Var
  <2>1. VarsOf(p) \subseteq Var
    <3>1. \A b \in DOMAIN p : Members(p[b].ins) \subseteq Var
      BY <1>2, BlockFields DEF Members
    <3>2. \A b \in DOMAIN p : \A k \in DOMAIN p[b].ops : Members(p[b].ops[k].outs) \subseteq Var
      <4> SUFFICES ASSUME NEW b \in DOMAIN p, NEW k \in DOMAIN p[b].ops
                   PROVE  Members(p[b].ops[k].outs) \subseteq Var
        OBVIOUS
      <4>1. p[b].ops[k].outs \in Seq(Var)
        BY <1>2, OpsOfBlocks, OpFields
      <4> QED BY <4>1 DEF Members
    <3> QED BY <3>1, <3>2 DEF VarsOf
  <2>2. Var \subseteq Nat /\ IsFiniteSet(Var)
    BY LowerAssumption
  <2>3. IsFiniteSet(VarsOf(p)) /\ VarsOf(p) \in SUBSET Nat
    BY <2>1, <2>2, FS_Subset
  <2>4. Max(VarsOf(p)) \in Var
    BY <1>2, <2>1, <2>3, GreatestIsIn
  <2>5. Max(VarsOf(p)) \in Nat
    BY <2>2, <2>4
  <2> QED BY <1>1, <2>4, <2>5
<1>6. Tables
  BY <1>1, <1>4, <1>5 DEF Tables
<1>7. DOMAIN dest = {} /\ DOMAIN stack = {}
  BY <1>1
<1>8. LabelsNew /\ BreaksOpen /\ JumpsLead
  BY <1>7 DEF LabelsNew, BreaksOpen, JumpsLead, OpenLoops
<1>9. Frames /\ LoopsKnown(loops)
  BY <1>1, <1>7 DEF Frames, LoopsKnown
<1>10. loops \in SUBSET (DOMAIN blocks \ {Root}) /\ LeavesWithin(blocks, loops)
  BY <1>1, <1>3
<1> QED BY <1>1, <1>2, <1>6, <1>8, <1>9, <1>10 DEF LowerInv

LEMMA LowerStays ==
  ASSUME LowerInv, UNCHANGED vars
  PROVE  LowerInv'
<1>1. /\ blocks' = blocks /\ phase' = phase /\ turned' = turned /\ decl' = decl
      /\ nextVar' = nextVar /\ nextLabel' = nextLabel /\ stack' = stack /\ dest' = dest
  BY DEF vars
<1>2. Tables' /\ LabelsNew' /\ BreaksOpen' /\ JumpsLead'
  <2>1. Tables'
    BY <1>1 DEF LowerInv, Tables, DeclsRight
  <2>2. LabelsNew'
    BY <1>1 DEF LowerInv, LabelsNew
  <2>3. BreaksOpen'
    BY <1>1 DEF LowerInv, BreaksOpen, OpenLoops
  <2>4. JumpsLead'
    BY <1>1 DEF LowerInv, JumpsLead, OpenLoops
  <2> QED BY <2>1, <2>2, <2>3, <2>4
<1>3. Frames'
  <2>1. stack' \in Seq(FrameType) /\ OpenLoops' = OpenLoops
    BY <1>1 DEF LowerInv, Frames, OpenLoops
  <2> SUFFICES ASSUME NEW d \in DOMAIN stack
               PROVE  /\ FrameKeeps(d)'
                      /\ IF d = 1 THEN stack[d].role = "root" /\ stack[d].block = Root
                         ELSE stack[d].role # "root" /\ FrameNested(d)'
    BY <1>1, <2>1 DEF Frames
  <2>2. FrameKeeps(d) => FrameKeeps(d)'
    BY <1>1, <2>1 DEF FrameKeeps
  <2>3. FrameNested(d) => FrameNested(d)'
    BY <1>1 DEF FrameNested
  <2> QED BY <2>2, <2>3 DEF LowerInv, Frames
<1>4. PICK loops \in SUBSET (DOMAIN blocks \ {Root}) :
        LeavesWithin(blocks, loops) /\ LoopsKnown(loops)
  BY DEF LowerInv
<1>5. LeavesWithin(blocks', loops) /\ LoopsKnown(loops)' /\ Structured(blocks')
  BY <1>1, <1>4 DEF LoopsKnown, LowerInv
<1> QED BY <1>1, <1>2, <1>3, <1>4, <1>5 DEF LowerInv

LEMMA LowerKeeps ==
  ASSUME LowerInv, [Next]_vars
  PROVE  LowerInv'
<1>1. CASE \E d \in Todo : LowerWhile(d) \/ SwapCases(d) \/ InvertIf(d)
  BY <1>1, LowerWhileKeeps, SwapCasesKeeps, InvertIfKeeps
<1>2. CASE NextPhase
  BY <1>2, NextPhaseKeeps
<1>3. CASE CopyOp
  BY <1>3, CopyOpKeeps
<1>4. CASE SkipIf
  BY <1>4, SkipIfKeeps
<1>5. CASE BeginIf
  BY <1>5, BeginIfKeeps
<1>6. CASE ElseDone
  BY <1>6, ElseDoneKeeps
<1>7. CASE BranchDone
  BY <1>7, BranchDoneKeeps
<1>8. CASE BeginLoop
  BY <1>8, BeginLoopKeeps
<1>9. CASE LoopDone
  BY <1>9, LoopDoneKeeps
<1>10. CASE LeaveRound
  BY <1>10, LeaveRoundKeeps
<1>11. CASE Finish
  BY <1>11, FinishKeeps
<1>12. CASE Terminated \/ UNCHANGED vars
  BY <1>12, LowerStays DEF Terminated
<1> QED BY <1>1, <1>2, <1>3, <1>4, <1>5, <1>6, <1>7, <1>8, <1>9, <1>10, <1>11, <1>12
        DEF Next

LEMMA LowerAlways == Spec => []LowerInv
<1>1. Init => LowerInv
  BY LowerStarts
<1>2. LowerInv /\ [Next]_vars => LowerInv'
  BY LowerKeeps
<1> QED BY <1>1, <1>2, PTL DEF Spec

(* Whatever blocks are nested in whatever way, the ops of both forms keep  *)
(* the fields of their kind, the table of declarations says where a        *)
(* variable is computed, and the frames of lower_into stand in blocks      *)
(* there are, before jumps that have been written.                         *)
THEOREM Types == Spec => []TypeOK
<1>1. LowerInv => TypeOK
  <2> SUFFICES ASSUME LowerInv PROVE TypeOK
    OBVIOUS
  <2>1. blocks \in Seq(SsaBlock) /\ dest \in Seq(Op)
    BY LowerTypes
  <2>2. ASSUME NEW b \in DOMAIN blocks, NEW k \in DOMAIN blocks[b].ops
        PROVE  /\ blocks[b].ops[k].id \in SsaOpId
               /\ Members(blocks[b].ops[k].outs) \subseteq Var
               /\ BlocksOf(blocks[b].ops[k]) \subseteq DOMAIN blocks
    <3>1. blocks[b].ops[k].id \in SsaOpId /\ blocks[b].ops[k].outs \in Seq(Var)
      BY <2>1, OpsOfBlocks, OpFields
    <3>2. Lowerable(blocks, b, blocks[b].ops[k])
      BY DEF LowerInv, Structured
    <3>3. BlocksOf(blocks[b].ops[k]) \subseteq DOMAIN blocks
      BY <3>2 DEF Lowerable
    <3> QED BY <3>1, <3>3 DEF Members
  <2>3. \A k \in DOMAIN dest : dest[k] \in Op
    BY <2>1
  <2>4. ASSUME NEW d \in DOMAIN stack
        PROVE  /\ stack[d].block \in DOMAIN blocks
               /\ stack[d].used \subseteq DOMAIN blocks[stack[d].block].outs
               /\ stack[d].jump \in DOMAIN dest \cup {0}
    BY DEF LowerInv, Frames, FrameKeeps
  <2>5. /\ phase \in {"loops", "swap", "ifs", "lower", "done"} /\ turned \subseteq Var
        /\ nextLabel - 1 \in Label \cup {1} /\ nextVar - 1 \in Var
        /\ \A v \in Var : decl[v] # NoDecl =>
             decl[v].block \in DOMAIN blocks /\ decl[v].at \in DOMAIN blocks[decl[v].block].ops
    BY DEF LowerInv, Tables, DeclsRight
  <2> QED BY <2>2, <2>3, <2>4, <2>5 DEF TypeOK
<1> QED BY <1>1, LowerAlways, PTL

(* No label is declared twice, and a jump without one is that of an open   *)
(* branch: whatever branches and loops are nested and wherever they are    *)
(* left, lower_into closes each of them where it was opened.               *)
THEOREM LabelsStayMatched == Spec => []LabelsMatch
<1>1. LowerInv => LabelsMatch
  <2> SUFFICES ASSUME LowerInv PROVE LabelsMatch
    OBVIOUS
  <2>1. LabelsNew /\ JumpsLead
    BY DEF LowerInv
  <2>2. \A l : Declared(l) = DeclaredIn(dest, l)
    BY DEF Declared, DeclaredIn
  <2>3. ASSUME NEW l \in Label
        PROVE  Cardinality(Declared(l)) <= 1
    <3>1. \A j, k \in Declared(l) : j = k
      BY <2>1 DEF LabelsNew, Declared
    <3>2. CASE Declared(l) = {}
      BY <3>2, FS_EmptySet
    <3>3. CASE Declared(l) # {}
      <4>1. PICK k : Declared(l) = {k}
        BY <3>1, <3>3
      <4>2. Cardinality({k}) = 1
        BY FS_Singleton
      <4> QED BY <4>1, <4>2
    <3> QED BY <3>2, <3>3
  <2>4. ASSUME NEW k \in DOMAIN dest, IsJump(dest[k])
        PROVE  IF dest[k].label = None THEN \E d \in DOMAIN stack : stack[d].jump = k
               ELSE \/ Declared(dest[k].label) # {}
                    \/ \E d \in DOMAIN stack :
                         stack[d].role = "loop" /\ stack[d].brk = dest[k].label
    BY <2>1, <2>2, <2>4 DEF JumpsLead, OpenLoops
  <2> QED BY <2>3, <2>4 DEF LabelsMatch
<1> QED BY <1>1, LowerAlways, PTL

=============================================================================
