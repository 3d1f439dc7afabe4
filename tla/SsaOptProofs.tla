---------------------------- MODULE SsaOptProofs ----------------------------
(***************************************************************************)
(* Proofs about the optimiser of the structured form, for every program    *)
(* the verifier lets in.                                                   *)
(***************************************************************************)
EXTENDS SsaOpt, FiniteSetTheorems, WellFoundedInduction, TLAPS

OptBlock == [parent : Nat, ins : Seq(Var), ops : Seq(Nat), outs : Seq(Var)]

(* Ops have the operands, results and blocks of their kind. *)
OpRight(u) ==
  /\ BlocksOf(ops[u]) \subseteq DOMAIN blocks
  /\ ops[u].id \in ComputingId => Len(ops[u].outs) = 1 /\ BlocksOf(ops[u]) = {}
  /\ ops[u].id \in LoopId \cup {"IF"} => BlocksOf(ops[u]) # {}
  /\ ops[u].id = "IF" =>
       \A c \in {ops[u].then, ops[u].els} \ {None} : Len(blocks[c].outs) = Len(ops[u].outs)
  /\ ops[u].a \in Val <=> ops[u].id \in ComputingId \cup {"IF"}
  /\ ops[u].b \in Val <=> ops[u].id = "OR"

(* A list names ops that exist and each once, with what is nested in them  *)
(* numbered after the list's block.                                        *)
ListRight(b) ==
  /\ ToSet(blocks[b].ops) \subseteq DOMAIN ops
  /\ IsInjective(blocks[b].ops)
  /\ \A u \in ToSet(blocks[b].ops) : \A d \in BlocksOf(ops[u]) : d > b

Shaped ==
  /\ ops \in Seq(SsaOp) /\ blocks \in Seq(OptBlock) /\ Root \in DOMAIN blocks
  /\ \A u \in DOMAIN ops : OpRight(u)
  /\ \A b \in DOMAIN blocks : ListRight(b)

PassName ==
  {"inline_vars", "vars", "constant_eval", "join_compute", "reduce_if", "if_opts", "cmov"}

Tables ==
  /\ decl \in [Var -> DOMAIN ops \cup {0}]
  /\ todo \in Seq([pass : PassName, block : DOMAIN blocks])
  /\ at \in Nat /\ crashed \in BOOLEAN

(* A block is nested in one op, and an op that is still there is in one    *)
(* list that is still there.                                               *)
NestedApart ==
  \A u, w \in DOMAIN ops : BlocksOf(ops[u]) \cap BlocksOf(ops[w]) # {} => u = w

ListsApart ==
  \A b, c \in BlocksIn(Root) :
    ToSet(blocks[b].ops) \cap ToSet(blocks[c].ops) # {} => b = c

(* Blocks are still there when their turn comes: what is visited after a   *)
(* block is not nested in it.                                              *)
Later(b) == DOMAIN blocks \ (BlocksIn(b) \ {b})

Pending ==
  /\ \A n \in DOMAIN todo : todo[n].block \in BlocksIn(Root)
  /\ \A n, m \in DOMAIN todo : n < m => todo[m].block \in Later(todo[n].block)

(* No two that are still there declare the same variable. *)
Single ==
  /\ \A u, w \in Reachable : ToSet(ops[u].outs) \cap ToSet(ops[w].outs) # {} => u = w
  /\ \A b, c \in BlocksIn(Root) :
       /\ ToSet(blocks[b].ins) \cap ToSet(blocks[c].ins) # {} => b = c
       /\ \A u \in Reachable : ToSet(blocks[b].ins) \cap ToSet(ops[u].outs) = {}

OptInv == Shaped /\ Tables /\ NestedApart /\ ListsApart /\ Pending /\ Single


-----------------------------------------------------------------------------
(* Induction over numbers, and functions defined by recursion.             *)

LEMMA CountingUp ==
  ASSUME NEW N \in Nat, NEW S, 0 \in S, \A n \in 1 .. N : n - 1 \in S => n \in S
  PROVE  \A n \in 0 .. N : n \in S
<1> DEFINE Bad == {m \in 0 .. N : m \notin S}
           R == {ss \in Nat \X Nat : ss[1] < ss[2]}
<1>1. SUFFICES ASSUME Bad # {} PROVE FALSE
  OBVIOUS
<1>2. PICK m \in Bad : \A k \in Bad : ~ (<<k, m>> \in R)
  <2>1. IsWellFoundedOn(R, Nat)
    BY NatLessThanWellFounded DEF OpToRel
  <2>2. Bad \subseteq Nat
    OBVIOUS
  <2> HIDE DEF R, Bad
  <2> QED BY <1>1, <2>1, <2>2, WFMin
<1>3. m \in 1 .. N /\ m - 1 \in 0 .. N /\ <<m - 1, m>> \in R
  OBVIOUS
<1>4. m - 1 \in S
  <2> HIDE DEF R
  <2> QED BY <1>2, <1>3
<1> QED BY <1>3, <1>4

(* A step that only looks at what has a lower rank has a fixed point.      *)
Descends(D, S, N, rank, step) ==
  /\ N \in Nat /\ rank \in [D -> 0 .. N] /\ step \in [D \X [D -> S] -> S]
  /\ \A c \in D : \A f, g \in [D -> S] :
       (\A d \in D : rank[d] < rank[c] => f[d] = g[d]) => step[<<c, f>>] = step[<<c, g>>]

FixedPoint(D, S, step, h) == h \in [D -> S] /\ \A c \in D : h[c] = step[<<c, h>>]

LEMMA RecursionExists ==
  ASSUME NEW D, NEW S, S # {}, NEW N, NEW rank, NEW step,
         Descends(D, S, N, rank, step)
  PROVE  \E h : FixedPoint(D, S, step, h)
<1> USE DEF Descends
<1> DEFINE start == CHOOSE e : e \in S
<1> DEFINE Upto(n, h) == \A c \in D : rank[c] < n => h[c] = step[<<c, h>>]
           Good == {n \in 0 .. N + 1 : \E h \in [D -> S] : Upto(n, h)}
<1>1. 0 \in Good
  <2> DEFINE g == [d \in D |-> start]
  <2>1. g \in [D -> S] /\ 0 \in 0 .. N + 1
    <3>1. start \in S
      OBVIOUS
    <3> HIDE DEF start
    <3> QED BY <3>1
  <2>2. \A c \in D : ~ (rank[c] < 0)
    OBVIOUS
  <2> HIDE DEF g
  <2>3. Upto(0, g)
    BY <2>2
  <2> QED BY <2>1, <2>3
<1>2. ASSUME NEW n \in 1 .. N + 1, n - 1 \in Good
      PROVE  n \in Good
  <2>1. PICK h \in [D -> S] : Upto(n - 1, h)
    BY <1>2
  <2> DEFINE g == [c \in D |-> step[<<c, h>>]]
  <2>2. g \in [D -> S]
    OBVIOUS
  <2>3. ASSUME NEW c \in D, rank[c] < n
        PROVE  g[c] = step[<<c, g>>]
    <3>1. \A d \in D : rank[d] < rank[c] => h[d] = g[d]
      <4> SUFFICES ASSUME NEW d \in D, rank[d] < rank[c]
                   PROVE  h[d] = g[d]
        OBVIOUS
      <4>1. rank[d] < n - 1
        <5>1. rank[d] \in Nat /\ rank[c] \in Nat /\ n \in Nat
          OBVIOUS
        <5> QED BY <5>1, <2>3
      <4>2. h[d] = step[<<d, h>>]
        BY <2>1, <4>1
      <4> QED BY <4>2
    <3>2. step[<<c, h>>] = step[<<c, g>>]
      <4> HIDE DEF g
      <4> QED BY <2>2, <3>1
    <3> QED BY <3>2
  <2> HIDE DEF g
  <2> QED BY <2>2, <2>3
<1>3. N + 1 \in Good
  <2>1. \A n \in 0 .. N + 1 : n \in Good
    <3> HIDE DEF Good
    <3> QED BY <1>1, <1>2, CountingUp
  <2> HIDE DEF Good
  <2> QED BY <2>1
<1>4. PICK h \in [D -> S] : Upto(N + 1, h)
  BY <1>3
<1>5. \A c \in D : rank[c] < N + 1
  OBVIOUS
<1>6. FixedPoint(D, S, step, h)
  BY <1>4, <1>5 DEF FixedPoint
<1> QED BY <1>6

(* Whatever is bad has a least that is, or a greatest.                     *)
LEMMA LeastBad ==
  ASSUME NEW N \in Nat, NEW Bad \in SUBSET (1 .. N), Bad # {}
  PROVE  /\ \E m \in Bad : \A k \in Bad : m <= k
         /\ \E m \in Bad : \A k \in Bad : k <= m
<1> DEFINE R == {ss \in Nat \X Nat : ss[1] < ss[2]}
           Far == {N - k : k \in Bad}
<1>1. ASSUME NEW Set \in SUBSET Nat, Set # {}
      PROVE  \E m \in Set : \A k \in Set : m <= k
  <2>1. IsWellFoundedOn(R, Nat)
    BY NatLessThanWellFounded DEF OpToRel
  <2>2. PICK m \in Set : \A k \in Set : ~ (<<k, m>> \in R)
    <3> HIDE DEF R
    <3> QED BY <1>1, <2>1, WFMin
  <2>3. ASSUME NEW k \in Set PROVE m <= k
    <3>1. k \in Nat /\ m \in Nat /\ <<k, m>> \in Nat \X Nat
      OBVIOUS
    <3>2. ~ (k < m)
      BY <2>2, <3>1
    <3> QED BY <3>1, <3>2
  <2> QED BY <2>3
<1>2. PICK f \in Far : \A g \in Far : f <= g
  <2>1. Far \in SUBSET Nat /\ Far # {}
    <3>1. \A k \in Bad : k \in 1 .. N /\ N - k \in Nat
      OBVIOUS
    <3> QED BY <3>1
  <2> HIDE DEF Far
  <2> QED BY <1>1, <2>1
<1>3. PICK k \in Bad : f = N - k
  OBVIOUS
<1>4. \A j \in Bad : j <= k
  <2> SUFFICES ASSUME NEW j \in Bad PROVE j <= k
    OBVIOUS
  <2>1. N - j \in Far
    OBVIOUS
  <2>2. f <= N - j
    <3> HIDE DEF Far
    <3> QED BY <1>2, <2>1
  <2> QED BY <1>3, <2>2
<1>5. \E m \in Bad : \A j \in Bad : m <= j
  <2>1. Bad \in SUBSET Nat
    OBVIOUS
  <2> QED BY <1>1, <2>1
<1> QED BY <1>4, <1>5

(* Induction from the greatest down, and from the least up. *)
LEMMA Downwards ==
  ASSUME NEW N \in Nat, NEW S,
         \A b \in 1 .. N : (\A c \in 1 .. N : c > b => c \in S) => b \in S
  PROVE  \A b \in 1 .. N : b \in S
<1> DEFINE Bad == {b \in 1 .. N : b \notin S}
<1>1. SUFFICES ASSUME Bad # {} PROVE FALSE
  OBVIOUS
<1>2. PICK b \in Bad : \A c \in Bad : c <= b
  <2>1. Bad \in SUBSET (1 .. N)
    OBVIOUS
  <2> HIDE DEF Bad
  <2> QED BY <1>1, <2>1, LeastBad
<1>3. ASSUME NEW c \in 1 .. N, c > b, c \notin S PROVE FALSE
  <2>1. c \in Bad /\ b \in 1 .. N
    BY <1>3
  <2>2. c <= b
    BY <1>2, <2>1
  <2> HIDE DEF Bad
  <2> QED BY <1>3, <2>1, <2>2
<1> QED BY <1>3

LEMMA Upwards ==
  ASSUME NEW N \in Nat, NEW S,
         \A b \in 1 .. N : (\A c \in 1 .. N : c < b => c \in S) => b \in S
  PROVE  \A b \in 1 .. N : b \in S
<1> DEFINE Bad == {b \in 1 .. N : b \notin S}
<1>1. SUFFICES ASSUME Bad # {} PROVE FALSE
  OBVIOUS
<1>2. PICK b \in Bad : \A c \in Bad : b <= c
  <2>1. Bad \in SUBSET (1 .. N)
    OBVIOUS
  <2> HIDE DEF Bad
  <2> QED BY <1>1, <2>1, LeastBad
<1>3. ASSUME NEW c \in 1 .. N, c < b, c \notin S PROVE FALSE
  <2>1. c \in Bad /\ b \in 1 .. N
    BY <1>3
  <2>2. b <= c
    BY <1>2, <2>1
  <2> HIDE DEF Bad
  <2> QED BY <1>3, <2>1, <2>2
<1> QED BY <1>3

-----------------------------------------------------------------------------
(* Sequences of sequences, one after the other.                            *)

(* Where each of them begins. *)
Begins(ss, off) ==
  /\ off \in [0 .. Len(ss) -> Nat] /\ off[0] = 0
  /\ \A i \in DOMAIN ss : off[i] = off[i - 1] + Len(ss[i])

(* The first i of them make s. *)
MadeOf(s, ss, off, i) ==
  /\ Len(s) = off[i]
  /\ \A j \in 1 .. i : \A k \in DOMAIN ss[j] :
       off[j - 1] + k \in DOMAIN s /\ s[off[j - 1] + k] = ss[j][k]
  /\ \A n \in DOMAIN s : \E j \in 1 .. i : \E k \in DOMAIN ss[j] : n = off[j - 1] + k

LEMMA BeginningsGrow ==
  ASSUME NEW X, NEW ss \in Seq(Seq(X)), NEW off, Begins(ss, off),
         NEW i \in 0 .. Len(ss), NEW j \in 0 .. Len(ss), i <= j
  PROVE  off[i] <= off[j]
<1> DEFINE Fine == {n \in 0 .. Len(ss) : i <= n => off[i] <= off[n]}
<1>1. Len(ss) \in Nat /\ off \in [0 .. Len(ss) -> Nat] /\ DOMAIN ss = 1 .. Len(ss)
  BY DEF Begins
<1>2. 0 \in Fine
  BY <1>1
<1>3. ASSUME NEW n \in 1 .. Len(ss), n - 1 \in Fine
      PROVE  n \in Fine
  <2>1. off[n] = off[n - 1] + Len(ss[n])
    BY <1>1 DEF Begins
  <2>2. ss[n] \in Seq(X) /\ n - 1 \in 0 .. Len(ss) /\ n \in 0 .. Len(ss)
    BY <1>1
  <2>3. off[n] \in Nat /\ off[n - 1] \in Nat /\ Len(ss[n]) \in Nat /\ off[i] \in Nat
    <3>1. Len(ss[n]) \in Nat
      BY <2>2
    <3> QED BY <1>1, <2>2, <3>1
  <2>4. i <= n - 1 => off[i] <= off[n - 1]
    BY <1>3
  <2>5. CASE i <= n - 1
    BY <2>1, <2>2, <2>3, <2>4, <2>5
  <2>6. CASE ~ (i <= n - 1)
    <3>1. i <= n => i = n
      BY <2>6
    <3> QED BY <3>1, <2>2, <2>3
  <2> QED BY <2>5, <2>6
<1>4. \A n \in 0 .. Len(ss) : n \in Fine
  <2> HIDE DEF Fine
  <2> QED BY <1>1, <1>2, <1>3, CountingUp
<1> QED BY <1>4

LEMMA FlatOneMore ==
  ASSUME NEW X, NEW ss \in Seq(Seq(X)), NEW off, Begins(ss, off),
         NEW i \in 1 .. Len(ss), NEW s \in Seq(X), MadeOf(s, ss, off, i - 1)
  PROVE  MadeOf(s \o ss[i], ss, off, i)
<1> DEFINE t == s \o ss[i]
<1>1. /\ ss[i] \in Seq(X) /\ t \in Seq(X) /\ Len(t) = Len(s) + Len(ss[i])
      /\ Len(s) \in Nat /\ Len(ss[i]) \in Nat /\ i \in DOMAIN ss
  OBVIOUS
<1>2. Len(s) = off[i - 1] /\ off[i] = off[i - 1] + Len(ss[i])
  BY <1>1 DEF MadeOf, Begins
<1>3. \A n \in 1 .. Len(s) : t[n] = s[n]
  OBVIOUS
<1>4. \A k \in 1 .. Len(ss[i]) : t[Len(s) + k] = ss[i][k]
  OBVIOUS
<1>5. DOMAIN t = 1 .. Len(t) /\ DOMAIN s = 1 .. Len(s) /\ DOMAIN ss[i] = 1 .. Len(ss[i])
  BY <1>1
<1> HIDE DEF t
<1>6. ASSUME NEW j \in 1 .. i, NEW k \in DOMAIN ss[j]
      PROVE  off[j - 1] + k \in DOMAIN t /\ t[off[j - 1] + k] = ss[j][k]
  <2>1. CASE j = i
    <3>1. k \in 1 .. Len(ss[i])
      BY <1>5, <1>6, <2>1
    <3>2. Len(s) + k \in 1 .. Len(t)
      BY <1>1, <3>1
    <3> QED BY <1>2, <1>4, <1>5, <2>1, <3>1, <3>2
  <2>2. CASE j # i
    <3>1. j \in 1 .. i - 1
      BY <2>2
    <3>2. off[j - 1] + k \in DOMAIN s /\ s[off[j - 1] + k] = ss[j][k]
      BY <1>6, <3>1 DEF MadeOf
    <3>3. 1 .. Len(s) \subseteq 1 .. Len(t)
      BY <1>1
    <3> QED BY <1>3, <1>5, <3>2, <3>3
  <2> QED BY <2>1, <2>2
<1>7. ASSUME NEW n \in DOMAIN t
      PROVE  \E j \in 1 .. i : \E k \in DOMAIN ss[j] : n = off[j - 1] + k
  <2>1. CASE n \in DOMAIN s
    <3>1. PICK j \in 1 .. i - 1 : \E k \in DOMAIN ss[j] : n = off[j - 1] + k
      BY <2>1 DEF MadeOf
    <3>2. j \in 1 .. i
      OBVIOUS
    <3> QED BY <3>1, <3>2
  <2>2. CASE n \notin DOMAIN s
    <3>1. n \in 1 .. Len(s) + Len(ss[i]) /\ ~ (n \in 1 .. Len(s))
      BY <1>1, <1>5, <1>7, <2>2
    <3>2. n - Len(s) \in DOMAIN ss[i] /\ n = Len(s) + (n - Len(s)) /\ i \in 1 .. i
      BY <1>1, <1>5, <3>1
    <3> QED BY <1>2, <3>2
  <2> QED BY <2>1, <2>2
<1>8. Len(t) = off[i]
  BY <1>1, <1>2
<1> QED BY <1>6, <1>7, <1>8 DEF MadeOf, t

LEMMA Flattened ==
  ASSUME NEW X, NEW ss \in Seq(Seq(X))
  PROVE  /\ FlattenSeq(ss) \in Seq(X)
         /\ \E off : Begins(ss, off) /\ MadeOf(FlattenSeq(ss), ss, off, Len(ss))
<1>1. CASE Len(ss) = 0
  <2> DEFINE off == [n \in 0 .. Len(ss) |-> 0]
  <2>1. ss = <<>> /\ FlattenSeq(ss) = <<>>
    BY <1>1 DEF FlattenSeq
  <2>2. Begins(ss, off)
    BY <1>1, <2>1 DEF Begins
  <2>3. off[0] = 0
    BY <1>1
  <2> HIDE DEF off
  <2>4. MadeOf(<<>>, ss, off, 0)
    BY <2>3 DEF MadeOf
  <2>5. MadeOf(FlattenSeq(ss), ss, off, Len(ss))
    BY <1>1, <2>1, <2>4
  <2>6. FlattenSeq(ss) \in Seq(X)
    <3>1. <<>> \in Seq(X)
      OBVIOUS
    <3> QED BY <2>1, <3>1
  <2> QED BY <2>2, <2>5, <2>6
<1>2. CASE Len(ss) # 0
  <2> DEFINE N == Len(ss)
             e(f, i) == IF i = 1 THEN ss[i] ELSE f[i - 1] \o ss[i]
             body(f) == [i \in 1 .. N |-> e(f, i)]
             flatten == CHOOSE f : f = body(f)
             D == 1 .. N
             S == Seq(X)
             rank == [i \in D |-> i]
             step == [cf \in D \X [D -> S] |-> e(cf[2], cf[1])]
  <2>1. N \in Nat \ {0} /\ DOMAIN ss = D /\ \A i \in D : ss[i] \in S
    BY <1>2
  <2>2. rank \in [D -> 0 .. N] /\ <<>> \in S
    BY <2>1
  <2>3. ASSUME NEW i \in D, NEW f \in [D -> S]
        PROVE  e(f, i) \in S
    <3>1. CASE i = 1
      BY <2>1, <3>1
    <3>2. CASE i # 1
      <4>1. i - 1 \in D
        BY <2>1, <3>2
      <4>2. f[i - 1] \in S /\ ss[i] \in S
        BY <2>1, <4>1
      <4>3. f[i - 1] \o ss[i] \in S
        BY <4>2
      <4> QED BY <3>2, <4>3
    <3> QED BY <3>1, <3>2
  <2>4. step \in [D \X [D -> S] -> S]
    <3> HIDE DEF e, D, S
    <3> QED BY <2>3
  <2>5. \A i \in D : \A f \in [D -> S] : step[<<i, f>>] = e(f, i)
    <3> HIDE DEF e, D, S
    <3> QED OBVIOUS
  <2>6. ASSUME NEW i \in D, NEW f \in [D -> S], NEW g \in [D -> S],
               \A d \in D : rank[d] < rank[i] => f[d] = g[d]
        PROVE  step[<<i, f>>] = step[<<i, g>>]
    <3>1. e(f, i) = e(g, i)
      <4>1. CASE i = 1
        BY <4>1
      <4>2. CASE i # 1
        <5>1. i - 1 \in D /\ rank[i - 1] < rank[i]
          BY <2>1, <4>2
        <5>2. f[i - 1] = g[i - 1]
          <6> HIDE DEF rank, D
          <6> QED BY <2>6, <5>1
        <5> QED BY <4>2, <5>2
      <4> QED BY <4>1, <4>2
    <3> HIDE DEF step, e, D, S
    <3> QED BY <2>5, <3>1
  <2>7. PICK h \in [D -> S] : \A i \in D : h[i] = step[<<i, h>>]
    <3>1. N \in Nat
      BY <2>1
    <3>2. \A i \in D : \A f, g \in [D -> S] :
            (\A d \in D : rank[d] < rank[i] => f[d] = g[d]) => step[<<i, f>>] = step[<<i, g>>]
      <4> HIDE DEF rank, step, D, S, N
      <4> QED BY <2>6
    <3> HIDE DEF rank, step, D, S, N
    <3>3. Descends(D, S, N, rank, step)
      BY <2>2, <2>4, <3>1, <3>2 DEF Descends
    <3>4. S # {}
      BY <2>2
    <3>5. \E h : FixedPoint(D, S, step, h)
      BY <3>3, <3>4, RecursionExists
    <3> QED BY <3>5 DEF FixedPoint
  <2>8. h = body(h)
    <3>1. h = [i \in D |-> h[i]]
      OBVIOUS
    <3>2. \A i \in D : h[i] = e(h, i)
      <4> HIDE DEF step, e, D, S
      <4> QED BY <2>5, <2>7
    <3>3. body(h) = [i \in D |-> e(h, i)]
      OBVIOUS
    <3> HIDE DEF body, e, D
    <3> QED BY <3>1, <3>2, <3>3
  <2>9. flatten = body(flatten)
    <3>1. flatten = CHOOSE f : f = body(f)
      OBVIOUS
    <3> HIDE DEF body, flatten
    <3> QED BY <2>8, <3>1
  <2>10. \A i \in D : flatten[i] = e(flatten, i)
    <3> HIDE DEF flatten, e
    <3> QED BY <2>9
  <2> DEFINE off == [i \in 0 .. N |-> IF i = 0 THEN 0 ELSE Len(flatten[i])]
             Fine == {n \in 0 .. N : n # 0 => flatten[n] \in S}
  <2>11. \A i \in 0 .. N : i # 0 => flatten[i] \in S
    <3>1. ASSUME NEW n \in 1 .. N, n - 1 \in Fine
          PROVE  n \in Fine
      <4>1. flatten[n] = e(flatten, n) /\ ss[n] \in S
        <5> HIDE DEF flatten, e, S
        <5> QED BY <2>1, <2>10
      <4> HIDE DEF flatten
      <4>2. CASE n = 1
        BY <4>1, <4>2
      <4>3. CASE n # 1
        <5>1. n - 1 \in 0 .. N /\ n - 1 # 0
          BY <2>1, <4>3
        <5>2. flatten[n - 1] \in S
          BY <3>1, <5>1
        <5>3. flatten[n - 1] \o ss[n] \in S
          BY <4>1, <5>2
        <5>4. flatten[n] = flatten[n - 1] \o ss[n] /\ n \in 0 .. N
          <6> HIDE DEF S
          <6> QED BY <2>1, <4>1, <4>3
        <5>5. flatten[n] \in S
          <6> HIDE DEF S
          <6> QED BY <5>3, <5>4
        <5> QED BY <5>4, <5>5
      <4> QED BY <4>2, <4>3
    <3>2. 0 \in Fine
      BY <2>1
    <3>3. \A n \in 0 .. N : n \in Fine
      <4>1. N \in Nat
        BY <2>1
      <4> HIDE DEF Fine, N
      <4> QED BY <3>1, <3>2, <4>1, CountingUp
    <3> HIDE DEF flatten, S
    <3> QED BY <3>3
  <2>12. Begins(ss, off)
    <3>1. off \in [0 .. Len(ss) -> Nat]
      <4>1. ASSUME NEW i \in 0 .. N PROVE (IF i = 0 THEN 0 ELSE Len(flatten[i])) \in Nat
        <5> HIDE DEF flatten
        <5> QED BY <2>11
      <4> HIDE DEF flatten
      <4> QED BY <4>1
    <3>2. ASSUME NEW i \in DOMAIN ss
          PROVE  off[i] = off[i - 1] + Len(ss[i])
      <4>1. i \in D /\ i \in 0 .. N /\ i # 0 /\ ss[i] \in S /\ i - 1 \in 0 .. N
        BY <2>1
      <4>2. off[i] = Len(flatten[i]) /\ flatten[i] = e(flatten, i)
        <5>1. off[i] = Len(flatten[i])
          <6> HIDE DEF flatten
          <6> QED BY <4>1
        <5> HIDE DEF flatten, e, off
        <5> QED BY <2>10, <4>1, <5>1
      <4>3. CASE i = 1
        <5>1. off[i - 1] = 0
          BY <2>1, <4>3
        <5> HIDE DEF flatten, off
        <5> QED BY <4>1, <4>2, <4>3, <5>1
      <4>4. CASE i # 1
        <5>1. i - 1 \in 0 .. N /\ i - 1 # 0
          BY <2>1, <4>1, <4>4
        <5>2. off[i - 1] = Len(flatten[i - 1])
          <6> HIDE DEF flatten
          <6> QED BY <5>1
        <5>3. flatten[i - 1] \in S
          <6> HIDE DEF flatten
          <6> QED BY <2>11, <5>1
        <5>4. flatten[i] = flatten[i - 1] \o ss[i]
          <6> HIDE DEF flatten
          <6> QED BY <4>2, <4>4
        <5>5. Len(flatten[i - 1] \o ss[i]) = Len(flatten[i - 1]) + Len(ss[i])
          <6> HIDE DEF flatten
          <6> QED BY <4>1, <5>3
        <5> HIDE DEF flatten, off
        <5> QED BY <4>2, <5>2, <5>4, <5>5
      <4> QED BY <4>3, <4>4
    <3>3. off[0] = 0
      BY <2>1
    <3> HIDE DEF off
    <3> QED BY <3>1, <3>2, <3>3 DEF Begins
  <2> DEFINE Done2 == {n \in 0 .. N : n # 0 => MadeOf(flatten[n], ss, off, n)}
  <2>13. ASSUME NEW n \in 1 .. N, n - 1 \in Done2
         PROVE  n \in Done2
    <3>1. flatten[n] = e(flatten, n) /\ ss[n] \in S /\ n \in 0 .. N
      <4> HIDE DEF flatten, e, S
      <4> QED BY <2>1, <2>10
    <3>2. CASE n = 1
      <4>1. MadeOf(<<>>, ss, off, n - 1)
        <5>1. off[n - 1] = 0
          <6>1. off[0] = 0
            BY <2>1
          <6> HIDE DEF off
          <6> QED BY <3>2, <6>1
        <5> HIDE DEF off
        <5> QED BY <3>2, <5>1 DEF MadeOf
      <4>2. MadeOf(<<>> \o ss[n], ss, off, n)
        <5> HIDE DEF off
        <5> QED BY <2>2, <2>12, <4>1, FlatOneMore
      <4>3. <<>> \o ss[n] = ss[n]
        BY <3>1
      <4>4. flatten[n] = ss[n]
        <5> HIDE DEF flatten
        <5> QED BY <3>1, <3>2
      <4> HIDE DEF flatten, off
      <4> QED BY <3>1, <4>2, <4>3, <4>4
    <3>3. CASE n # 1
      <4>1. n - 1 \in 0 .. N /\ n - 1 # 0
        BY <2>1, <3>3
      <4>2. flatten[n - 1] \in S
        <5> HIDE DEF flatten
        <5> QED BY <2>11, <4>1
      <4>3. MadeOf(flatten[n - 1], ss, off, n - 1)
        <5> HIDE DEF flatten, off
        <5> QED BY <2>13, <4>1
      <4>4. MadeOf(flatten[n - 1] \o ss[n], ss, off, n)
        <5> HIDE DEF flatten, off
        <5> QED BY <2>12, <4>2, <4>3, FlatOneMore
      <4>5. flatten[n] = flatten[n - 1] \o ss[n]
        <5> HIDE DEF flatten
        <5> QED BY <3>1, <3>3
      <4> HIDE DEF flatten, off
      <4> QED BY <3>1, <4>4, <4>5
    <3> QED BY <3>2, <3>3
  <2>14. N \in Done2
    <3>1. 0 \in Done2 /\ N \in Nat /\ N \in 0 .. N
      BY <2>1
    <3> HIDE DEF Done2, N
    <3> QED BY <2>13, <3>1, CountingUp
  <2>15. FlattenSeq(ss) = flatten[N]
    BY <1>2 DEF FlattenSeq
  <2>16. flatten[N] \in S /\ MadeOf(flatten[N], ss, off, N)
    <3>1. N \in 0 .. N /\ N # 0
      BY <2>1
    <3> HIDE DEF flatten, off, N
    <3> QED BY <2>11, <2>14, <3>1
  <2> HIDE DEF flatten, off
  <2> QED BY <2>12, <2>15, <2>16
<1> QED BY <1>1, <1>2

LEMMA FlatMembers ==
  ASSUME NEW X, NEW ss \in Seq(Seq(X))
  PROVE  ToSet(FlattenSeq(ss)) = UNION {ToSet(ss[i]) : i \in DOMAIN ss}
<1> DEFINE s == FlattenSeq(ss)
<1>1. PICK off : Begins(ss, off) /\ MadeOf(s, ss, off, Len(ss))
  BY Flattened
<1>2. DOMAIN ss = 1 .. Len(ss)
  OBVIOUS
<1> HIDE DEF s
<1>7. \A n \in DOMAIN s : \E i \in 1 .. Len(ss) : \E k \in DOMAIN ss[i] : n = off[i - 1] + k
  BY <1>1 DEF MadeOf
<1>3. ASSUME NEW i \in DOMAIN ss, NEW k \in DOMAIN ss[i]
      PROVE  \E n \in DOMAIN s : s[n] = ss[i][k]
  <2>1. off[i - 1] + k \in DOMAIN s /\ s[off[i - 1] + k] = ss[i][k]
    BY <1>1, <1>2 DEF MadeOf
  <2> QED BY <2>1
<1>4. ASSUME NEW n \in DOMAIN s
      PROVE  \E i \in DOMAIN ss : \E k \in DOMAIN ss[i] : s[n] = ss[i][k]
  <2>1. PICK i \in DOMAIN ss : \E k \in DOMAIN ss[i] : n = off[i - 1] + k
    BY <1>2, <1>7
  <2>2. PICK k \in DOMAIN ss[i] : n = off[i - 1] + k
    BY <2>1
  <2>3. s[off[i - 1] + k] = ss[i][k]
    BY <1>1, <1>2 DEF MadeOf
  <2> QED BY <2>2, <2>3
<1>5. ToSet(s) \subseteq UNION {ToSet(ss[i]) : i \in DOMAIN ss}
  BY <1>4 DEF ToSet
<1>6. UNION {ToSet(ss[i]) : i \in DOMAIN ss} \subseteq ToSet(s)
  BY <1>3 DEF ToSet
<1> QED BY <1>5, <1>6 DEF s

(* The pairs of which one comes before the other in s are in Before.       *)
InOrder(s, R) == \A n, m \in DOMAIN s : n < m => <<s[n], s[m]>> \in R

LEMMA FlatInOrder ==
  ASSUME NEW X, NEW ss \in Seq(Seq(X)), NEW R,
         \A i \in DOMAIN ss : InOrder(ss[i], R),
         \A i, j \in DOMAIN ss : i < j =>
           \A x \in ToSet(ss[i]), y \in ToSet(ss[j]) : <<x, y>> \in R
  PROVE  InOrder(FlattenSeq(ss), R)
<1> DEFINE s == FlattenSeq(ss)
<1>1. s \in Seq(X)
  BY Flattened
<1>2. PICK off : Begins(ss, off) /\ MadeOf(s, ss, off, Len(ss))
  BY Flattened
<1>3. DOMAIN ss = 1 .. Len(ss) /\ \A i \in DOMAIN ss : ss[i] \in Seq(X)
  OBVIOUS
<1> HIDE DEF s
<1>5. \A n \in DOMAIN s : \E i \in 1 .. Len(ss) : \E k \in DOMAIN ss[i] : n = off[i - 1] + k
  BY <1>2 DEF MadeOf
<1>4. ASSUME NEW n \in DOMAIN s, NEW m \in DOMAIN s, n < m
      PROVE  <<s[n], s[m]>> \in R
  <2>1. PICK i \in DOMAIN ss : \E k \in DOMAIN ss[i] : n = off[i - 1] + k
    BY <1>3, <1>5
  <2>2. PICK k \in DOMAIN ss[i] : n = off[i - 1] + k
    BY <2>1
  <2>3. PICK j \in DOMAIN ss : \E l \in DOMAIN ss[j] : m = off[j - 1] + l
    BY <1>3, <1>5
  <2>4. PICK l \in DOMAIN ss[j] : m = off[j - 1] + l
    BY <2>3
  <2>5. s[n] = ss[i][k] /\ s[m] = ss[j][l]
    BY <1>2, <1>3, <2>2, <2>4 DEF MadeOf
  <2>6. /\ k \in 1 .. Len(ss[i]) /\ l \in 1 .. Len(ss[j])
        /\ Len(ss[i]) \in Nat /\ Len(ss[j]) \in Nat
    BY <1>3
  <2>7. /\ off[i - 1] \in Nat /\ off[j - 1] \in Nat /\ off[i] \in Nat /\ off[j] \in Nat
        /\ off[j] = off[j - 1] + Len(ss[j])
    <3>1. i - 1 \in 0 .. Len(ss) /\ j - 1 \in 0 .. Len(ss) /\ i \in 0 .. Len(ss) /\ j \in 0 .. Len(ss)
      BY <1>3
    <3> QED BY <1>2, <3>1 DEF Begins
  <2>8. CASE i = j
    <3>1. k < l
      BY <1>4, <2>2, <2>4, <2>6, <2>7, <2>8
    <3> QED BY <2>5, <2>8, <3>1 DEF InOrder
  <2>9. CASE i < j
    BY <2>5, <2>9 DEF ToSet
  <2>10. CASE j < i
    <3>1. j \in 0 .. Len(ss) /\ i - 1 \in 0 .. Len(ss) /\ j <= i - 1
      BY <1>3, <2>10
    <3>2. off[j] <= off[i - 1]
      BY <1>2, <3>1, BeginningsGrow
    <3>4. m \in Nat /\ n \in Nat
      BY <1>1
    <3>5. k \in Nat /\ k > 0 /\ l \in Nat /\ l <= Len(ss[j]) /\ Len(ss[j]) \in Nat
      BY <2>6
    <3>6. off[i - 1] < n
      <4> DEFINE a == off[i - 1]
      <4>1. n = a + k /\ a \in Nat
        BY <2>2, <2>7
      <4> HIDE DEF a
      <4>2. a < n
        BY <3>5, <4>1
      <4> QED BY <4>2 DEF a
    <3>7. m <= off[j]
      <4> DEFINE a == off[j - 1]
                 b == off[j]
                 c == Len(ss[j])
      <4>1. m = a + l /\ a \in Nat /\ b = a + c
        BY <2>4, <2>7
      <4>2. c \in Nat /\ l <= c /\ l \in Nat
        BY <3>5
      <4> HIDE DEF a, b, c
      <4>3. m <= b
        BY <4>1, <4>2
      <4> QED BY <4>3 DEF b
    <3>8. FALSE
      <4> DEFINE a == off[i - 1]
                 b == off[j]
      <4>1. m <= b /\ b <= a /\ a < n /\ a \in Nat /\ b \in Nat
        BY <2>7, <3>2, <3>6, <3>7
      <4>2. n < m
        BY <1>4
      <4> HIDE DEF a, b
      <4> QED BY <3>4, <4>1, <4>2
    <3> QED BY <3>8
  <2> QED BY <1>3, <2>8, <2>9, <2>10
<1> QED BY <1>4 DEF InOrder, s

LEMMA JoinedInOrder ==
  ASSUME NEW X, NEW s \in Seq(X), NEW t \in Seq(X), NEW R, InOrder(s, R), InOrder(t, R),
         \A x \in ToSet(s), y \in ToSet(t) : <<x, y>> \in R
  PROVE  InOrder(s \o t, R)
<1>1. SUFFICES ASSUME NEW n \in DOMAIN (s \o t), NEW m \in DOMAIN (s \o t), n < m
               PROVE  <<(s \o t)[n], (s \o t)[m]>> \in R
  BY DEF InOrder
<1>2. n \in 1 .. Len(s) + Len(t) /\ m \in 1 .. Len(s) + Len(t) /\ Len(s) \in Nat /\ Len(t) \in Nat
      /\ DOMAIN s = 1 .. Len(s) /\ DOMAIN t = 1 .. Len(t)
  OBVIOUS
<1>3. CASE m <= Len(s)
  <2>1. n \in DOMAIN s /\ m \in DOMAIN s /\ (s \o t)[n] = s[n] /\ (s \o t)[m] = s[m]
    BY <1>1, <1>2, <1>3
  <2> QED BY <1>1, <2>1 DEF InOrder
<1>4. CASE n <= Len(s) /\ ~ (m <= Len(s))
  <2>1. /\ n \in DOMAIN s /\ m - Len(s) \in DOMAIN t
        /\ (s \o t)[n] = s[n] /\ (s \o t)[m] = t[m - Len(s)]
    BY <1>2, <1>4
  <2> QED BY <2>1 DEF ToSet
<1>5. CASE ~ (n <= Len(s))
  <2>1. /\ n - Len(s) \in DOMAIN t /\ m - Len(s) \in DOMAIN t /\ n - Len(s) < m - Len(s)
        /\ (s \o t)[n] = t[n - Len(s)] /\ (s \o t)[m] = t[m - Len(s)]
    BY <1>1, <1>2, <1>5
  <2> QED BY <2>1 DEF InOrder
<1> QED BY <1>2, <1>3, <1>4, <1>5

LEMMA JoinedMembers ==
  ASSUME NEW X, NEW s \in Seq(X), NEW t \in Seq(X)
  PROVE  s \o t \in Seq(X) /\ ToSet(s \o t) = ToSet(s) \cup ToSet(t)
<1>1. \A n \in 1 .. Len(s) : n \in DOMAIN (s \o t) /\ (s \o t)[n] = s[n]
  OBVIOUS
<1>2. \A n \in 1 .. Len(t) : n + Len(s) \in DOMAIN (s \o t) /\ (s \o t)[n + Len(s)] = t[n]
  OBVIOUS
<1>3. ASSUME NEW n \in DOMAIN (s \o t)
      PROVE  (s \o t)[n] \in ToSet(s) \cup ToSet(t)
  <2>1. CASE n \in DOMAIN s
    BY <2>1 DEF ToSet
  <2>2. CASE n \notin DOMAIN s
    <3>1. n - Len(s) \in DOMAIN t /\ (s \o t)[n] = t[n - Len(s)]
      BY <2>2
    <3> QED BY <3>1 DEF ToSet
  <2> QED BY <2>1, <2>2
<1>4. ToSet(s \o t) \subseteq ToSet(s) \cup ToSet(t)
  BY <1>3 DEF ToSet
<1>5. DOMAIN s = 1 .. Len(s) /\ DOMAIN t = 1 .. Len(t)
  OBVIOUS
<1>6. \A n \in DOMAIN s : s[n] \in ToSet(s \o t)
  BY <1>1, <1>5 DEF ToSet
<1>7. \A n \in DOMAIN t : t[n] \in ToSet(s \o t)
  BY <1>2, <1>5 DEF ToSet
<1>8. ToSet(s) \cup ToSet(t) \subseteq ToSet(s \o t)
  BY <1>6, <1>7 DEF ToSet
<1> QED BY <1>4, <1>8

LEMMA JoinedThree ==
  ASSUME NEW X, NEW s \in Seq(X), NEW t \in Seq(X), NEW r \in Seq(X)
  PROVE  s \o t \o r \in Seq(X) /\ ToSet(s \o t \o r) = ToSet(s) \cup ToSet(t) \cup ToSet(r)
<1> DEFINE st == s \o t
<1>1. st \in Seq(X) /\ ToSet(st) = ToSet(s) \cup ToSet(t)
  BY JoinedMembers
<1> HIDE DEF st
<1>2. st \o r \in Seq(X) /\ ToSet(st \o r) = ToSet(st) \cup ToSet(r)
  BY <1>1, JoinedMembers
<1> QED BY <1>1, <1>2 DEF st

-----------------------------------------------------------------------------
(* Tours end, as nested blocks have larger numbers, and are what their     *)
(* definition says.                                                        *)

LEMMA InnerIs ==
  ASSUME NEW X, NEW op, NEW seq, \A d \in BlocksOf(op) : seq[d] \in Seq(X)
  PROVE  /\ Inner(op, seq) \in Seq(X)
         /\ ToSet(Inner(op, seq)) = UNION {ToSet(seq[d]) : d \in BlocksOf(op)}
<1> DEFINE of(d) == IF d = None THEN <<>> ELSE seq[d]
<1>1. ASSUME NEW d \in {op.then, op.els, op.cond, op.do}
      PROVE  of(d) \in Seq(X) /\ ToSet(of(d)) = UNION {ToSet(seq[e]) : e \in {d} \ {None}}
  <2>1. CASE d = None
    <3>1. <<>> \in Seq(X) /\ ToSet(<<>>) = {}
      BY DEF ToSet
    <3> QED BY <2>1, <3>1
  <2>2. CASE d # None
    BY <1>1, <2>2 DEF BlocksOf
  <2> QED BY <2>1, <2>2
<1> HIDE DEF of
<1> DEFINE three == of(op.then) \o of(op.els) \o of(op.cond)
<1>2. /\ three \in Seq(X)
      /\ ToSet(three) = ToSet(of(op.then)) \cup ToSet(of(op.els)) \cup ToSet(of(op.cond))
  BY <1>1, JoinedThree
<1> HIDE DEF three
<1>3. /\ three \o of(op.do) \in Seq(X)
      /\ ToSet(three \o of(op.do)) = ToSet(three) \cup ToSet(of(op.do))
  BY <1>1, <1>2, JoinedMembers
<1>5. Inner(op, seq) = three \o of(op.do)
  BY DEF Inner, of, three
<1>6. ToSet(of(op.then)) \cup ToSet(of(op.els)) \cup ToSet(of(op.cond)) \cup ToSet(of(op.do))
        = UNION {ToSet(seq[d]) : d \in BlocksOf(op)}
  <2> DEFINE In(d) == UNION {ToSet(seq[e]) : e \in {d} \ {None}}
  <2>1. In(op.then) \cup In(op.els) \cup In(op.cond) \cup In(op.do)
          = UNION {ToSet(seq[d]) : d \in BlocksOf(op)}
    BY DEF BlocksOf
  <2> QED BY <1>1, <2>1
<1> QED BY <1>2, <1>3, <1>5, <1>6

LEMMA InnerSame ==
  ASSUME NEW op, NEW seq, NEW other, \A d \in BlocksOf(op) : seq[d] = other[d]
  PROVE  Inner(op, seq) = Inner(op, other)
<1>1. \A d \in {op.then, op.els, op.cond, op.do} : d = None \/ seq[d] = other[d]
  BY DEF BlocksOf
<1> QED BY <1>1 DEF Inner

NestsDown(bs, os) ==
  /\ bs \in Seq(OptBlock)
  /\ \A b \in DOMAIN bs : \A u \in ToSet(bs[b].ops) :
       u \in DOMAIN os /\ \A d \in BlocksOf(os[u]) : d \in DOMAIN bs /\ d > b

Visit(bs, os, c, before, after, end, tour) ==
  FlattenSeq([k \in DOMAIN bs[c].ops |->
    before[bs[c].ops[k]] \o Inner(os[bs[c].ops[k]], tour) \o after[bs[c].ops[k]]]) \o end[c]

TourOf(bs, os, b, before, after, end) ==
  LET tour[c \in DOMAIN bs] == Visit(bs, os, c, before, after, end, tour)
  IN  tour[b]

(* What there is to collect is sequences of some set.                      *)
Collects(bs, os, X, before, after, end) ==
  /\ before \in [DOMAIN os -> Seq(X)] /\ after \in [DOMAIN os -> Seq(X)]
  /\ end \in [DOMAIN bs -> Seq(X)]

TouredAfter(bs, X, c, tour) == \A d \in DOMAIN bs : d > c => tour[d] \in Seq(X)

LEMMA VisitParts ==
  ASSUME NEW bs, NEW os, NEW X, NEW before, NEW after, NEW end, NestsDown(bs, os),
         Collects(bs, os, X, before, after, end), NEW c \in DOMAIN bs,
         NEW tour, TouredAfter(bs, X, c, tour),
         NEW u \in ToSet(bs[c].ops)
  PROVE  /\ before[u] \o Inner(os[u], tour) \o after[u] \in Seq(X)
         /\ ToSet(before[u] \o Inner(os[u], tour) \o after[u])
              = ToSet(before[u]) \cup ToSet(after[u])
                  \cup UNION {ToSet(tour[d]) : d \in BlocksOf(os[u])}
<1>1. u \in DOMAIN os /\ \A d \in BlocksOf(os[u]) : d \in DOMAIN bs /\ d > c
  BY DEF NestsDown
<1>2. before[u] \in Seq(X) /\ after[u] \in Seq(X)
  BY <1>1 DEF Collects
<1>3. \A d \in BlocksOf(os[u]) : tour[d] \in Seq(X)
  BY <1>1 DEF TouredAfter
<1>4. /\ Inner(os[u], tour) \in Seq(X)
      /\ ToSet(Inner(os[u], tour)) = UNION {ToSet(tour[d]) : d \in BlocksOf(os[u])}
  BY <1>3, InnerIs
<1> DEFINE inner == Inner(os[u], tour)
           first == before[u]
           last == after[u]
<1> HIDE DEF inner, first, last
<1>5. /\ first \o inner \o last \in Seq(X)
      /\ ToSet(first \o inner \o last) = ToSet(first) \cup ToSet(inner) \cup ToSet(last)
  <2>1. first \in Seq(X) /\ inner \in Seq(X) /\ last \in Seq(X)
    BY <1>2, <1>4 DEF first, inner, last
  <2> QED BY <2>1, JoinedThree
<1> QED BY <1>4, <1>5 DEF first, inner, last

LEMMA VisitIs ==
  ASSUME NEW bs, NEW os, NEW X, NEW before, NEW after, NEW end, NestsDown(bs, os),
         Collects(bs, os, X, before, after, end), NEW c \in DOMAIN bs,
         NEW tour, TouredAfter(bs, X, c, tour)
  PROVE  /\ Visit(bs, os, c, before, after, end, tour) \in Seq(X)
         /\ ToSet(Visit(bs, os, c, before, after, end, tour))
              = ToSet(end[c]) \cup UNION {ToSet(before[u]) \cup ToSet(after[u])
                  \cup UNION {ToSet(tour[d]) : d \in BlocksOf(os[u])} : u \in ToSet(bs[c].ops)}
<1> DEFINE part(u) == before[u] \o Inner(os[u], tour) \o after[u]
           has(u) == ToSet(before[u]) \cup ToSet(after[u])
                       \cup UNION {ToSet(tour[d]) : d \in BlocksOf(os[u])}
           list == bs[c].ops
           parts == [k \in DOMAIN list |-> part(list[k])]
<1>1. list \in Seq(Nat) /\ end[c] \in Seq(X)
  <2>1. bs[c] \in OptBlock
    BY DEF NestsDown
  <2> QED BY <2>1 DEF OptBlock, Collects
<1>2. \A k \in DOMAIN list : part(list[k]) \in Seq(X) /\ ToSet(part(list[k])) = has(list[k])
  <2>1. ASSUME NEW u \in ToSet(list)
        PROVE  part(u) \in Seq(X) /\ ToSet(part(u)) = has(u)
    <3>1. u \in ToSet(bs[c].ops)
      OBVIOUS
    <3>2. /\ before[u] \o Inner(os[u], tour) \o after[u] \in Seq(X)
          /\ ToSet(before[u] \o Inner(os[u], tour) \o after[u])
               = ToSet(before[u]) \cup ToSet(after[u])
                   \cup UNION {ToSet(tour[d]) : d \in BlocksOf(os[u])}
      <4> HIDE DEF part, has, list
      <4> QED BY <3>1, VisitParts
    <3> QED BY <3>2
  <2> HIDE DEF part, has, list
  <2> QED BY <2>1 DEF ToSet
<1> HIDE DEF part, has, list
<1>3. parts \in Seq(Seq(X)) /\ DOMAIN parts = DOMAIN list
  <2>1. DOMAIN list = 1 .. Len(list) /\ Len(list) \in Nat
    BY <1>1
  <2> QED BY <1>2, <2>1
<1>4. ToSet(FlattenSeq(parts)) = UNION {ToSet(parts[k]) : k \in DOMAIN parts}
  BY <1>3, FlatMembers
<1>5. UNION {ToSet(parts[k]) : k \in DOMAIN parts} = UNION {has(u) : u \in ToSet(list)}
  <2>1. \A k \in DOMAIN parts : ToSet(parts[k]) = has(list[k])
    BY <1>2, <1>3
  <2>2. UNION {ToSet(parts[k]) : k \in DOMAIN parts} = UNION {has(list[k]) : k \in DOMAIN list}
    <3> HIDE DEF parts
    <3>1. {ToSet(parts[k]) : k \in DOMAIN parts} = {has(list[k]) : k \in DOMAIN list}
      BY <1>3, <2>1
    <3> QED BY <3>1
  <2>3. {has(list[k]) : k \in DOMAIN list} = {has(u) : u \in ToSet(list)}
    BY DEF ToSet
  <2> QED BY <2>2, <2>3
<1>6. FlattenSeq(parts) \in Seq(X)
  BY <1>3, Flattened
<1>7. Visit(bs, os, c, before, after, end, tour) = FlattenSeq(parts) \o end[c]
  BY DEF Visit, part, list
<1> HIDE DEF parts
<1>8. /\ FlattenSeq(parts) \o end[c] \in Seq(X)
      /\ ToSet(FlattenSeq(parts) \o end[c]) = ToSet(FlattenSeq(parts)) \cup ToSet(end[c])
  BY <1>1, <1>6, JoinedMembers
<1> QED BY <1>4, <1>5, <1>7, <1>8 DEF has, list

LEMMA VisitSame ==
  ASSUME NEW bs, NEW os, NEW before, NEW after, NEW end, NestsDown(bs, os),
         NEW c \in DOMAIN bs, NEW f, NEW g, \A d \in DOMAIN bs : d > c => f[d] = g[d]
  PROVE  Visit(bs, os, c, before, after, end, f) = Visit(bs, os, c, before, after, end, g)
<1>1. ASSUME NEW k \in DOMAIN bs[c].ops
      PROVE  Inner(os[bs[c].ops[k]], f) = Inner(os[bs[c].ops[k]], g)
  <2>1. \A d \in BlocksOf(os[bs[c].ops[k]]) : d \in DOMAIN bs /\ d > c
    BY DEF NestsDown, ToSet
  <2> QED BY <2>1, InnerSame
<1> DEFINE parts(t) == [k \in DOMAIN bs[c].ops |->
             before[bs[c].ops[k]] \o Inner(os[bs[c].ops[k]], t) \o after[bs[c].ops[k]]]
<1>2. parts(f) = parts(g)
  BY <1>1
<1>3. Visit(bs, os, c, before, after, end, f) = FlattenSeq(parts(f)) \o end[c]
  BY DEF Visit
<1>4. Visit(bs, os, c, before, after, end, g) = FlattenSeq(parts(g)) \o end[c]
  BY DEF Visit
<1> HIDE DEF parts
<1> QED BY <1>2, <1>3, <1>4

LEMMA TourUnfolds ==
  ASSUME NEW bs, NEW os, NEW X, NEW before, NEW after, NEW end, NestsDown(bs, os),
         Collects(bs, os, X, before, after, end)
  PROVE  \E tour \in [DOMAIN bs -> Seq(X)] :
           \A b \in DOMAIN bs :
             /\ TourOf(bs, os, b, before, after, end) = tour[b]
             /\ tour[b] = Visit(bs, os, b, before, after, end, tour)
<1> DEFINE D == DOMAIN bs
           S == Seq(X)
           N == Len(bs)
           e(c, f) == Visit(bs, os, c, before, after, end, f)
           rank == [c \in D |-> N - c]
           step == [cf \in D \X [D -> S] |-> e(cf[1], cf[2])]
           body(f) == [c \in D |-> e(c, f)]
           tour == CHOOSE f : f = body(f)
<1>1. N \in Nat /\ D = 1 .. N /\ rank \in [D -> 0 .. N] /\ S # {}
  <2>1. bs \in Seq(OptBlock)
    BY DEF NestsDown
  <2>2. <<>> \in S
    OBVIOUS
  <2>3. N \in Nat /\ D = 1 .. N
    BY <2>1
  <2>4. \A c \in 1 .. N : N - c \in 0 .. N
    BY <2>3
  <2>5. rank \in [D -> 0 .. N]
    <3> HIDE DEF N
    <3> QED BY <2>3, <2>4
  <2> QED BY <2>2, <2>3, <2>5
<1>2. ASSUME NEW c \in D, NEW f \in [D -> S]
      PROVE  e(c, f) \in S
  <2>1. TouredAfter(bs, X, c, f)
    BY DEF TouredAfter
  <2> QED BY <2>1, VisitIs
<1>3. step \in [D \X [D -> S] -> S] /\ \A c \in D : \A f \in [D -> S] : step[<<c, f>>] = e(c, f)
  <2> HIDE DEF e, D, S
  <2> QED BY <1>2
<1>4. ASSUME NEW c \in D, NEW f \in [D -> S], NEW g \in [D -> S],
             \A d \in D : rank[d] < rank[c] => f[d] = g[d]
      PROVE  step[<<c, f>>] = step[<<c, g>>]
  <2>1. \A d \in DOMAIN bs : d > c => f[d] = g[d]
    <3>1. \A d \in D : d > c => rank[d] < rank[c]
      BY <1>1
    <3> HIDE DEF rank
    <3> QED BY <1>4, <3>1
  <2>2. e(c, f) = e(c, g)
    BY <2>1, VisitSame
  <2> HIDE DEF e, step, D, S
  <2> QED BY <1>3, <2>2
<1>5. PICK h : FixedPoint(D, S, step, h)
  <2>1. Descends(D, S, N, rank, step)
    <3> HIDE DEF D, S, N, rank, step
    <3> QED BY <1>1, <1>3, <1>4 DEF Descends
  <2> HIDE DEF D, S, N, rank, step
  <2> QED BY <1>1, <2>1, RecursionExists
<1>6. h \in [D -> S] /\ \A c \in D : h[c] = e(c, h)
  <2> HIDE DEF D, S, step, e
  <2> QED BY <1>3, <1>5 DEF FixedPoint
<1>7. h = body(h)
  <2>1. h = [c \in D |-> h[c]]
    BY <1>6
  <2> HIDE DEF D, S, e
  <2> QED BY <1>6, <2>1
<1>8. tour = body(tour)
  <2>1. tour = CHOOSE f : f = body(f)
    OBVIOUS
  <2> HIDE DEF body, tour
  <2> QED BY <1>7, <2>1
<1>9. \A c \in D : tour[c] = e(c, tour)
  <2> HIDE DEF tour, e, D
  <2> QED BY <1>8
<1>10. tour = [c \in D |-> tour[c]]
  <2> HIDE DEF tour, e, D
  <2> QED BY <1>8
<1>11. \A c \in D : tour[c] \in S
  <2>1. ASSUME NEW c \in D, \A d \in D : d > c => tour[d] \in S
        PROVE  tour[c] \in S
    <3>1. TouredAfter(bs, X, c, tour)
      <4> HIDE DEF tour
      <4> QED BY <2>1 DEF TouredAfter
    <3>2. e(c, tour) \in S
      <4> HIDE DEF tour
      <4> QED BY <3>1, VisitIs
    <3> HIDE DEF e, S, D, tour
    <3> QED BY <1>9, <3>2
  <2> DEFINE Fine == {c \in D : tour[c] \in S}
  <2>2. \A c \in 1 .. N : (\A d \in 1 .. N : d > c => d \in Fine) => c \in Fine
    <3> HIDE DEF S, tour, N, D
    <3> QED BY <1>1, <2>1
  <2>3. \A c \in 1 .. N : c \in Fine
    <3> HIDE DEF Fine, N
    <3> QED BY <1>1, <2>2, Downwards
  <2> HIDE DEF S, tour, N, D
  <2> QED BY <1>1, <2>3
<1>12. tour \in [D -> S]
  <2> HIDE DEF tour, S, D
  <2> QED BY <1>10, <1>11
<1>13. \A b \in D : TourOf(bs, os, b, before, after, end) = tour[b]
  BY DEF TourOf
<1> HIDE DEF tour
<1> QED BY <1>9, <1>12, <1>13

-----------------------------------------------------------------------------
(* What is in a block: the ops under it, and the blocks.                   *)

DeepOf(bs, os, b) ==
  TourOf(bs, os, b, [u \in DOMAIN os |-> <<>>], [u \in DOMAIN os |-> <<u>>], [c \in DOMAIN bs |-> <<>>])

UnderOf(bs, os, b) == ToSet(DeepOf(bs, os, b))

InOf(bs, os, b) == {b} \cup UNION {BlocksOf(os[u]) : u \in UnderOf(bs, os, b)}

LEMMA DeepIs ==
  ASSUME NEW bs, NEW os, DOMAIN os \subseteq Nat, NestsDown(bs, os), NEW b \in DOMAIN bs
  PROVE  /\ DeepOf(bs, os, b) \in Seq(Nat)
         /\ UnderOf(bs, os, b)
              = ToSet(bs[b].ops) \cup UNION {UNION {UnderOf(bs, os, d) : d \in BlocksOf(os[u])}
                                               : u \in ToSet(bs[b].ops)}
<1> DEFINE before == [u \in DOMAIN os |-> <<>>]
           after == [u \in DOMAIN os |-> <<u>>]
           end == [c \in DOMAIN bs |-> <<>>]
<1>1. Collects(bs, os, Nat, before, after, end)
  <2>1. \A u \in DOMAIN os : <<u>> \in Seq(Nat)
    OBVIOUS
  <2>2. <<>> \in Seq(Nat)
    OBVIOUS
  <2> QED BY <2>1, <2>2 DEF Collects
<1>2. \A u \in DOMAIN os : ToSet(before[u]) = {} /\ ToSet(after[u]) = {u}
  BY DEF ToSet
<1>3. ToSet(end[b]) = {}
  BY DEF ToSet
<1>4. \A c : DeepOf(bs, os, c) = TourOf(bs, os, c, before, after, end)
  BY DEF DeepOf
<1> HIDE DEF before, after, end
<1>5. PICK tour \in [DOMAIN bs -> Seq(Nat)] :
        \A c \in DOMAIN bs :
          /\ TourOf(bs, os, c, before, after, end) = tour[c]
          /\ tour[c] = Visit(bs, os, c, before, after, end, tour)
  BY <1>1, TourUnfolds
<1>6. TouredAfter(bs, Nat, b, tour)
  BY DEF TouredAfter
<1>7. ToSet(tour[b]) = ToSet(end[b]) \cup UNION {ToSet(before[u]) \cup ToSet(after[u])
                  \cup UNION {ToSet(tour[d]) : d \in BlocksOf(os[u])} : u \in ToSet(bs[b].ops)}
  BY <1>1, <1>5, <1>6, VisitIs
<1>8. \A u \in ToSet(bs[b].ops) : u \in DOMAIN os /\ BlocksOf(os[u]) \subseteq DOMAIN bs
  BY DEF NestsDown
<1>9. \A c \in DOMAIN bs : UnderOf(bs, os, c) = ToSet(tour[c])
  BY <1>4, <1>5 DEF UnderOf
<1>10. \A u \in ToSet(bs[b].ops) :
         UNION {ToSet(tour[d]) : d \in BlocksOf(os[u])} = UNION {UnderOf(bs, os, d) : d \in BlocksOf(os[u])}
  <2> SUFFICES ASSUME NEW u \in ToSet(bs[b].ops)
               PROVE  {ToSet(tour[d]) : d \in BlocksOf(os[u])} = {UnderOf(bs, os, d) : d \in BlocksOf(os[u])}
    BY ZenonT(60)
  <2> QED BY <1>8, <1>9
<1>11. ToSet(tour[b]) = ToSet(bs[b].ops) \cup UNION {UNION {UnderOf(bs, os, d) : d \in BlocksOf(os[u])}
                                               : u \in ToSet(bs[b].ops)}
  <2> DEFINE deep(u) == UNION {UnderOf(bs, os, d) : d \in BlocksOf(os[u])}
             all(u) == ToSet(before[u]) \cup ToSet(after[u]) \cup UNION {ToSet(tour[d]) : d \in BlocksOf(os[u])}
  <2>1. \A u \in ToSet(bs[b].ops) : all(u) = {u} \cup deep(u)
    BY <1>2, <1>8, <1>10
  <2>2. ToSet(tour[b]) = UNION {all(u) : u \in ToSet(bs[b].ops)}
    BY <1>3, <1>7
  <2> HIDE DEF all, deep
  <2>3. UNION {all(u) : u \in ToSet(bs[b].ops)} = ToSet(bs[b].ops) \cup UNION {deep(u) : u \in ToSet(bs[b].ops)}
    BY <2>1
  <2> QED BY <2>2, <2>3 DEF deep
<1>12. DeepOf(bs, os, b) \in Seq(Nat)
  BY <1>4, <1>5
<1> QED BY <1>9, <1>11, <1>12

LEMMA UnderIs ==
  ASSUME NEW bs, NEW os, DOMAIN os \subseteq Nat, NestsDown(bs, os), NEW b \in DOMAIN bs
  PROVE  /\ \A u \in UnderOf(bs, os, b) :
              u \in ToSet(bs[b].ops) \/ \E w \in ToSet(bs[b].ops) : \E d \in BlocksOf(os[w]) : u \in UnderOf(bs, os, d)
         /\ ToSet(bs[b].ops) \subseteq UnderOf(bs, os, b)
         /\ \A w \in ToSet(bs[b].ops) : \A d \in BlocksOf(os[w]) : UnderOf(bs, os, d) \subseteq UnderOf(bs, os, b)
<1>1. UnderOf(bs, os, b)
        = ToSet(bs[b].ops) \cup UNION {UNION {UnderOf(bs, os, d) : d \in BlocksOf(os[u])} : u \in ToSet(bs[b].ops)}
  BY DeepIs
<1> QED BY <1>1

(* What is under b is of b or of what is nested there. *)
LEMMA UnderNested ==
  ASSUME NEW bs, NEW os, DOMAIN os \subseteq Nat, NestsDown(bs, os)
  PROVE  \A b \in DOMAIN bs : \A u \in UnderOf(bs, os, b) :
           /\ u \in DOMAIN os
           /\ \A d \in BlocksOf(os[u]) :
                d \in DOMAIN bs /\ d > b /\ UnderOf(bs, os, d) \subseteq UnderOf(bs, os, b)
<1> DEFINE Fine(b) ==
             \A u \in UnderOf(bs, os, b) :
               /\ u \in DOMAIN os
               /\ \A d \in BlocksOf(os[u]) :
                    d \in DOMAIN bs /\ d > b /\ UnderOf(bs, os, d) \subseteq UnderOf(bs, os, b)
           N == Len(bs)
<1>1. N \in Nat /\ DOMAIN bs = 1 .. N
  <2>1. bs \in Seq(OptBlock)
    BY DEF NestsDown
  <2> QED BY <2>1
<1>2. ASSUME NEW b \in DOMAIN bs, \A c \in DOMAIN bs : c > b => Fine(c)
      PROVE  Fine(b)
  <2>1. SUFFICES ASSUME NEW u \in UnderOf(bs, os, b)
                 PROVE  /\ u \in DOMAIN os
                        /\ \A d \in BlocksOf(os[u]) :
                             d \in DOMAIN bs /\ d > b /\ UnderOf(bs, os, d) \subseteq UnderOf(bs, os, b)
    OBVIOUS
  <2>2. CASE u \in ToSet(bs[b].ops)
    <3>1. u \in DOMAIN os /\ \A d \in BlocksOf(os[u]) : d \in DOMAIN bs /\ d > b
      BY <2>2 DEF NestsDown
    <3>2. \A d \in BlocksOf(os[u]) : UnderOf(bs, os, d) \subseteq UnderOf(bs, os, b)
      BY <2>2, UnderIs
    <3> QED BY <3>1, <3>2
  <2>3. CASE u \notin ToSet(bs[b].ops)
    <3>1. PICK w \in ToSet(bs[b].ops) : \E d \in BlocksOf(os[w]) : u \in UnderOf(bs, os, d)
      BY <2>1, <2>3, UnderIs
    <3>2. PICK c \in BlocksOf(os[w]) : u \in UnderOf(bs, os, c)
      BY <3>1
    <3>3. c \in DOMAIN bs /\ c > b
      BY DEF NestsDown
    <3>4. UnderOf(bs, os, c) \subseteq UnderOf(bs, os, b)
      BY UnderIs
    <3>5. Fine(c)
      BY <1>2, <3>3
    <3>6. u \in DOMAIN os /\ \A d \in BlocksOf(os[u]) :
            d \in DOMAIN bs /\ d > c /\ UnderOf(bs, os, d) \subseteq UnderOf(bs, os, c)
      BY <3>2, <3>5
    <3>7. \A d \in DOMAIN bs : d > c => d > b
      BY <1>1, <3>3
    <3> QED BY <3>4, <3>6, <3>7
  <2> QED BY <2>2, <2>3
<1>3. \A b \in 1 .. N : b \in {c \in DOMAIN bs : Fine(c)}
  <2> HIDE DEF Fine, N
  <2> QED BY <1>1, <1>2, Downwards
<1> QED BY <1>1, <1>3

LEMMA BlocksInside ==
  ASSUME NEW bs, NEW os, DOMAIN os \subseteq Nat, NestsDown(bs, os), NEW b \in DOMAIN bs,
         NEW c \in InOf(bs, os, b)
  PROVE  /\ c \in DOMAIN bs /\ c >= b
         /\ ToSet(bs[c].ops) \subseteq UnderOf(bs, os, b)
         /\ UnderOf(bs, os, c) \subseteq UnderOf(bs, os, b)
         /\ InOf(bs, os, c) \subseteq InOf(bs, os, b)
<1>1. DOMAIN bs \subseteq Nat
  BY DEF NestsDown
<1>2. c \in DOMAIN bs /\ c >= b /\ UnderOf(bs, os, c) \subseteq UnderOf(bs, os, b)
  <2>1. CASE c = b
    BY <1>1, <2>1
  <2>2. CASE c # b
    <3>1. PICK u \in UnderOf(bs, os, b) : c \in BlocksOf(os[u])
      BY <2>2 DEF InOf
    <3>2. c \in DOMAIN bs /\ c > b /\ UnderOf(bs, os, c) \subseteq UnderOf(bs, os, b)
      BY <3>1, UnderNested
    <3> QED BY <1>1, <3>2
  <2> QED BY <2>1, <2>2
<1>3. ToSet(bs[c].ops) \subseteq UnderOf(bs, os, c)
  BY <1>2, UnderIs
<1>4. InOf(bs, os, c) \subseteq InOf(bs, os, b)
  BY <1>2 DEF InOf
<1> QED BY <1>2, <1>3, <1>4

LEMMA HeldSomewhere ==
  ASSUME NEW bs, NEW os, DOMAIN os \subseteq Nat, NestsDown(bs, os)
  PROVE  \A b \in DOMAIN bs : \A u \in UnderOf(bs, os, b) : \E c \in InOf(bs, os, b) : u \in ToSet(bs[c].ops)
<1> DEFINE Fine(b) == \A u \in UnderOf(bs, os, b) : \E c \in InOf(bs, os, b) : u \in ToSet(bs[c].ops)
           N == Len(bs)
<1>1. N \in Nat /\ DOMAIN bs = 1 .. N
  <2>1. bs \in Seq(OptBlock)
    BY DEF NestsDown
  <2> QED BY <2>1
<1>2. ASSUME NEW b \in DOMAIN bs, \A c \in DOMAIN bs : c > b => Fine(c)
      PROVE  Fine(b)
  <2>1. SUFFICES ASSUME NEW u \in UnderOf(bs, os, b)
                 PROVE  \E c \in InOf(bs, os, b) : u \in ToSet(bs[c].ops)
    OBVIOUS
  <2>2. CASE u \in ToSet(bs[b].ops)
    BY <2>2 DEF InOf
  <2>3. CASE u \notin ToSet(bs[b].ops)
    <3>1. PICK w \in ToSet(bs[b].ops) : \E d \in BlocksOf(os[w]) : u \in UnderOf(bs, os, d)
      BY <2>1, <2>3, UnderIs
    <3>2. PICK d \in BlocksOf(os[w]) : u \in UnderOf(bs, os, d)
      BY <3>1
    <3>3. d \in DOMAIN bs /\ d > b
      BY DEF NestsDown
    <3>4. PICK c \in InOf(bs, os, d) : u \in ToSet(bs[c].ops)
      BY <1>2, <3>2, <3>3
    <3>5. w \in UnderOf(bs, os, b)
      BY UnderIs
    <3>6. d \in InOf(bs, os, b)
      BY <3>5 DEF InOf
    <3>7. InOf(bs, os, d) \subseteq InOf(bs, os, b)
      BY <3>6, BlocksInside
    <3> QED BY <3>4, <3>7
  <2> QED BY <2>2, <2>3
<1>3. \A b \in 1 .. N : b \in {c \in DOMAIN bs : Fine(c)}
  <2> HIDE DEF Fine, N
  <2> QED BY <1>1, <1>2, Downwards
<1> QED BY <1>1, <1>3

(* What happens to what is in a block when lists change: program ds, ps    *)
(* comes from bs, os by taking ops away from lists, by putting ops from    *)
(* further inside there, and by adding new ones that hold no blocks.       *)
Follows(bs, os, ds, ps, new) ==
  /\ DOMAIN os \subseteq DOMAIN ps /\ DOMAIN ps \subseteq Nat /\ NestsDown(bs, os)
  /\ ds \in Seq(OptBlock) /\ DOMAIN ds = DOMAIN bs
  /\ \A b \in DOMAIN bs : ToSet(ds[b].ops) \subseteq UnderOf(bs, os, b) \cup new
  /\ \A u \in new : u \in DOMAIN ps /\ BlocksOf(ps[u]) = {}
  /\ \A u \in DOMAIN os : BlocksOf(ps[u]) = BlocksOf(os[u])

LEMMA StillNestsDown ==
  ASSUME NEW bs, NEW os, NEW ds, NEW ps, NEW new, Follows(bs, os, ds, ps, new)
  PROVE  NestsDown(ds, ps)
<1>1. SUFFICES ASSUME NEW b \in DOMAIN ds, NEW u \in ToSet(ds[b].ops)
               PROVE  u \in DOMAIN ps /\ \A d \in BlocksOf(ps[u]) : d \in DOMAIN ds /\ d > b
  BY DEF NestsDown, Follows
<1>2. DOMAIN os \subseteq Nat /\ b \in DOMAIN bs /\ NestsDown(bs, os)
  BY DEF Follows
<1>3. CASE u \in UnderOf(bs, os, b)
  <2>1. u \in DOMAIN os /\ \A d \in BlocksOf(os[u]) : d \in DOMAIN bs /\ d > b
    BY <1>2, <1>3, UnderNested
  <2> QED BY <2>1 DEF Follows
<1>4. CASE u \in new
  BY <1>4 DEF Follows
<1> QED BY <1>2, <1>3, <1>4 DEF Follows

LEMMA InsideShrinks ==
  ASSUME NEW bs, NEW os, NEW ds, NEW ps, NEW new, Follows(bs, os, ds, ps, new)
  PROVE  \A b \in DOMAIN bs :
           /\ UnderOf(ds, ps, b) \subseteq UnderOf(bs, os, b) \cup new
           /\ InOf(ds, ps, b) \subseteq InOf(bs, os, b)
<1> DEFINE Fine(b) == UnderOf(ds, ps, b) \subseteq UnderOf(bs, os, b) \cup new
           N == Len(bs)
<1>1. N \in Nat /\ DOMAIN bs = 1 .. N
  <2>1. bs \in Seq(OptBlock)
    BY DEF NestsDown, Follows
  <2> QED BY <2>1
<1>2. DOMAIN os \subseteq Nat /\ NestsDown(bs, os) /\ DOMAIN ps \subseteq Nat /\ NestsDown(ds, ps)
  BY StillNestsDown DEF Follows
<1>3. ASSUME NEW b \in DOMAIN bs, \A c \in DOMAIN bs : c > b => Fine(c)
      PROVE  Fine(b)
  <2>1. SUFFICES ASSUME NEW u \in UnderOf(ds, ps, b)
                 PROVE  u \in UnderOf(bs, os, b) \cup new
    OBVIOUS
  <2>2. CASE u \in ToSet(ds[b].ops)
    BY <2>2 DEF Follows
  <2>3. CASE u \notin ToSet(ds[b].ops)
    <3>1. b \in DOMAIN ds
      BY DEF Follows
    <3>2. PICK w \in ToSet(ds[b].ops) : \E d \in BlocksOf(ps[w]) : u \in UnderOf(ds, ps, d)
      BY <1>2, <2>1, <2>3, <3>1, UnderIs
    <3>3. PICK d \in BlocksOf(ps[w]) : u \in UnderOf(ds, ps, d)
      BY <3>2
    <3>4. w \in UnderOf(bs, os, b)
      BY <3>3 DEF Follows
    <3>5. w \in DOMAIN os
      BY <1>2, <3>4, UnderNested
    <3>6. d \in BlocksOf(os[w])
      BY <3>3, <3>5 DEF Follows
    <3>7. d \in DOMAIN bs /\ d > b /\ UnderOf(bs, os, d) \subseteq UnderOf(bs, os, b)
      BY <1>2, <3>4, <3>6, UnderNested
    <3>8. Fine(d)
      BY <1>3, <3>7
    <3> QED BY <3>3, <3>7, <3>8
  <2> QED BY <2>2, <2>3
<1>4. \A b \in DOMAIN bs : Fine(b)
  <2>1. \A b \in 1 .. N : b \in {c \in DOMAIN bs : Fine(c)}
    <3> HIDE DEF Fine, N
    <3> QED BY <1>1, <1>3, Downwards
  <2> QED BY <1>1, <2>1
<1>5. ASSUME NEW b \in DOMAIN bs
      PROVE  InOf(ds, ps, b) \subseteq InOf(bs, os, b)
  <2>1. SUFFICES ASSUME NEW c \in InOf(ds, ps, b), c # b
                 PROVE  c \in InOf(bs, os, b)
    BY DEF InOf
  <2>2. PICK u \in UnderOf(ds, ps, b) : c \in BlocksOf(ps[u])
    BY <2>1 DEF InOf
  <2>3. u \in UnderOf(bs, os, b)
    BY <1>4, <2>2 DEF Follows
  <2>4. u \in DOMAIN os
    BY <1>2, <2>3, UnderNested
  <2>5. c \in BlocksOf(os[u])
    BY <2>2, <2>4 DEF Follows
  <2> QED BY <2>3, <2>5 DEF InOf
<1> QED BY <1>4, <1>5

(* When only the list of block h changes, what is not inside h stays. *)
LEMMA OutsideStays ==
  ASSUME NEW bs, NEW os, NEW ds, NEW ps, NEW new, Follows(bs, os, ds, ps, new),
         NEW h \in DOMAIN bs, \A b \in DOMAIN bs \ {h} : ds[b].ops = bs[b].ops,
         NEW root \in DOMAIN bs
  PROVE  \A c \in InOf(bs, os, root) : c \notin InOf(bs, os, h) \ {h} => c \in InOf(ds, ps, root)
<1> DEFINE Fine(c) == /\ c \in InOf(bs, os, root)
                      /\ c \notin InOf(bs, os, h) \ {h}
                      => c \in InOf(ds, ps, root)
           N == Len(bs)
<1>1. N \in Nat /\ DOMAIN bs = 1 .. N
  <2>1. bs \in Seq(OptBlock)
    BY DEF NestsDown, Follows
  <2> QED BY <2>1
<1>2. /\ DOMAIN os \subseteq Nat /\ NestsDown(bs, os) /\ DOMAIN ps \subseteq Nat /\ NestsDown(ds, ps)
      /\ DOMAIN ds = DOMAIN bs
  BY StillNestsDown DEF Follows
<1>3. ASSUME NEW c \in DOMAIN bs, \A b \in DOMAIN bs : b < c => Fine(b)
      PROVE  Fine(c)
  <2>1. SUFFICES ASSUME c \in InOf(bs, os, root), c \notin InOf(bs, os, h) \ {h}, c # root
                 PROVE  c \in InOf(ds, ps, root)
    BY DEF InOf
  <2>2. PICK u \in UnderOf(bs, os, root) : c \in BlocksOf(os[u])
    BY <2>1 DEF InOf
  <2>3. PICK b \in InOf(bs, os, root) : u \in ToSet(bs[b].ops)
    BY <1>2, HeldSomewhere
  <2>4. b \in DOMAIN bs /\ b < c /\ u \in DOMAIN os
    <3>1. b \in DOMAIN bs
      BY <1>2, BlocksInside
    <3>2. u \in DOMAIN os /\ c > b
      BY <1>2, <2>2, <2>3, <3>1 DEF NestsDown
    <3> QED BY <1>1, <3>1, <3>2
  <2>5. b \notin InOf(bs, os, h)
    <3>1. SUFFICES ASSUME b \in InOf(bs, os, h) PROVE FALSE
      OBVIOUS
    <3>2. b >= h /\ ToSet(bs[b].ops) \subseteq UnderOf(bs, os, h)
      BY <1>2, <3>1, BlocksInside
    <3>3. c \in InOf(bs, os, h)
      BY <2>2, <2>3, <3>2 DEF InOf
    <3>4. c # h
      BY <1>1, <2>4, <3>2
    <3> QED BY <2>1, <3>3, <3>4
  <2>6. b \in InOf(ds, ps, root) /\ b # h
    <3>1. Fine(b)
      BY <1>3, <2>4
    <3>2. h \in InOf(bs, os, h)
      BY DEF InOf
    <3> QED BY <2>3, <2>5, <3>1, <3>2
  <2>7. u \in ToSet(ds[b].ops)
    BY <2>3, <2>4, <2>6
  <2>8. u \in UnderOf(ds, ps, root)
    BY <1>2, <2>6, <2>7, BlocksInside
  <2>9. c \in BlocksOf(ps[u])
    BY <2>2, <2>4 DEF Follows
  <2> QED BY <2>8, <2>9 DEF InOf
<1>4. \A c \in DOMAIN bs : Fine(c)
  <2>1. \A b \in 1 .. N : b \in {c \in DOMAIN bs : Fine(c)}
    <3> HIDE DEF Fine, N
    <3> QED BY <1>1, <1>3, Upwards
  <2> QED BY <1>1, <2>1
<1>5. \A c \in InOf(bs, os, root) : c \in DOMAIN bs
  BY <1>2, BlocksInside
<1> QED BY <1>4, <1>5

-----------------------------------------------------------------------------
(* The same said of the state. *)

LEMMA InsideIs ==
  /\ Reachable = UnderOf(blocks, ops, Root)
  /\ \A b : /\ Deep(b) = DeepOf(blocks, ops, b) /\ ToSet(Deep(b)) = UnderOf(blocks, ops, b)
            /\ BlocksIn(b) = InOf(blocks, ops, b)
<1>1. \A b : Deep(b) = DeepOf(blocks, ops, b)
  BY DEF Deep, DeepOf, Tour, TourOf, Visit, Nothing, Itself, NoEnd
<1>2. \A b : ToSet(Deep(b)) = UnderOf(blocks, ops, b)
  BY <1>1 DEF UnderOf
<1>3. \A b : BlocksIn(b) = InOf(blocks, ops, b)
  BY <1>2 DEF BlocksIn, InOf
<1>4. Reachable = UnderOf(blocks, ops, Root)
  BY <1>2 DEF Reachable
<1> QED BY <1>1, <1>2, <1>3, <1>4

LEMMA InsideIsNext ==
  /\ Reachable' = UnderOf(blocks', ops', Root)
  /\ \A b : BlocksIn(b)' = InOf(blocks', ops', b)
<1>1. \A b : (Deep(b))' = DeepOf(blocks', ops', b)
  BY DEF Deep, DeepOf, Tour, TourOf, Visit, Nothing, Itself, NoEnd
<1>2. \A b : ToSet(Deep(b))' = UnderOf(blocks', ops', b)
  BY <1>1 DEF UnderOf
<1>3. \A b : BlocksIn(b)' = InOf(blocks', ops', b)
  BY <1>2 DEF BlocksIn, InOf
<1>4. Reachable' = UnderOf(blocks', ops', Root)
  BY <1>2 DEF Reachable
<1> QED BY <1>3, <1>4

LEMMA ShapedNests ==
  ASSUME Shaped
  PROVE  DOMAIN ops \subseteq Nat /\ NestsDown(blocks, ops)
<1>1. DOMAIN ops \subseteq Nat /\ blocks \in Seq(OptBlock)
  BY DEF Shaped
<1>2. ASSUME NEW b \in DOMAIN blocks, NEW u \in ToSet(blocks[b].ops)
      PROVE  u \in DOMAIN ops /\ \A d \in BlocksOf(ops[u]) : d \in DOMAIN blocks /\ d > b
  <2>1. ListRight(b)
    BY DEF Shaped
  <2>2. u \in DOMAIN ops /\ \A d \in BlocksOf(ops[u]) : d > b
    BY <2>1 DEF ListRight
  <2>3. OpRight(u)
    BY <2>2 DEF Shaped
  <2> QED BY <2>2, <2>3 DEF OpRight
<1> QED BY <1>1, <1>2 DEF NestsDown

(* What is below a block that is still there is, too. *)
LEMMA StillThere ==
  ASSUME Shaped, NEW b \in BlocksIn(Root)
  PROVE  /\ b \in DOMAIN blocks /\ ToSet(blocks[b].ops) \subseteq Reachable
         /\ ToSet(Deep(b)) \subseteq Reachable /\ BlocksIn(b) \subseteq BlocksIn(Root)
<1>1. DOMAIN ops \subseteq Nat /\ NestsDown(blocks, ops) /\ Root \in DOMAIN blocks
  BY ShapedNests DEF Shaped
<1>2. b \in InOf(blocks, ops, Root)
  BY InsideIs
<1>3. /\ b \in DOMAIN blocks /\ ToSet(blocks[b].ops) \subseteq UnderOf(blocks, ops, Root)
      /\ UnderOf(blocks, ops, b) \subseteq UnderOf(blocks, ops, Root)
      /\ InOf(blocks, ops, b) \subseteq InOf(blocks, ops, Root)
  BY <1>1, <1>2, BlocksInside
<1> QED BY <1>3, InsideIs

LEMMA ReachableAreOps ==
  ASSUME Shaped
  PROVE  /\ Reachable \subseteq DOMAIN ops
         /\ \A u \in Reachable : BlocksOf(ops[u]) \subseteq BlocksIn(Root)
         /\ \A u \in Reachable : \E b \in BlocksIn(Root) : u \in ToSet(blocks[b].ops)
         /\ \A b \in DOMAIN blocks : ToSet(Deep(b)) \subseteq DOMAIN ops
         /\ \A b \in DOMAIN blocks : BlocksIn(b) \subseteq DOMAIN blocks
<1>1. DOMAIN ops \subseteq Nat /\ NestsDown(blocks, ops) /\ Root \in DOMAIN blocks
  BY ShapedNests DEF Shaped
<1>2. \A b \in DOMAIN blocks : UnderOf(blocks, ops, b) \subseteq DOMAIN ops
  BY <1>1, UnderNested
<1>3. \A u \in UnderOf(blocks, ops, Root) : BlocksOf(ops[u]) \subseteq InOf(blocks, ops, Root)
  BY DEF InOf
<1>4. \A u \in UnderOf(blocks, ops, Root) : \E b \in InOf(blocks, ops, Root) : u \in ToSet(blocks[b].ops)
  BY <1>1, HeldSomewhere
<1>5. \A b \in DOMAIN blocks : InOf(blocks, ops, b) \subseteq DOMAIN blocks
  BY <1>1, BlocksInside
<1> QED BY <1>1, <1>2, <1>3, <1>4, <1>5, InsideIs

(* A step of a pass: only the list of the pass's block changes, by losing  *)
(* ops, getting new ones or some from further inside.                      *)
Stepping(new) ==
  /\ todo # <<>> /\ todo' = todo
  /\ ops' \in Seq(SsaOp) /\ DOMAIN ops' = DOMAIN ops \cup new
  /\ blocks' \in Seq(OptBlock) /\ DOMAIN blocks' = DOMAIN blocks
  /\ \A b \in DOMAIN blocks \ {Block} : blocks'[b].ops = blocks[b].ops
  /\ ToSet(blocks'[Block].ops) \subseteq ToSet(Deep(Block)) \cup new
  /\ IsInjective(blocks'[Block].ops)
  /\ \A u \in DOMAIN ops : BlocksOf(ops'[u]) = BlocksOf(ops[u])
  /\ \A u \in new : BlocksOf(ops'[u]) = {}

LEMMA BlockIsThere ==
  ASSUME OptInv, todo # <<>>
  PROVE  /\ 1 \in DOMAIN todo /\ todo[1].block = Block /\ Block \in BlocksIn(Root)
         /\ Block \in DOMAIN blocks
<1>1. todo \in Seq([pass : PassName, block : DOMAIN blocks])
  BY DEF OptInv, Tables
<1>2. 1 \in DOMAIN todo /\ todo[1] = Head(todo)
  BY <1>1
<1>3. Block = todo[1].block
  BY <1>2 DEF Block
<1>4. Block \in BlocksIn(Root)
  BY <1>2, <1>3 DEF OptInv, Pending
<1> QED BY <1>2, <1>3, <1>4, StillThere DEF OptInv

LEMMA SteppingFollows ==
  ASSUME OptInv, NEW new, Stepping(new)
  PROVE  Follows(blocks, ops, blocks', ops', new)
<1>1. DOMAIN ops \subseteq Nat /\ NestsDown(blocks, ops)
  BY ShapedNests DEF OptInv
<1>2. DOMAIN ops' \subseteq Nat
  <2>1. ops' \in Seq(SsaOp)
    BY DEF Stepping
  <2> QED BY <2>1
<1>3. ASSUME NEW b \in DOMAIN blocks
      PROVE  ToSet(blocks'[b].ops) \subseteq UnderOf(blocks, ops, b) \cup new
  <2>1. CASE b = Block
    BY <2>1, InsideIs DEF Stepping
  <2>2. CASE b # Block
    <3>1. ToSet(blocks[b].ops) \subseteq UnderOf(blocks, ops, b)
      BY <1>1, UnderIs
    <3> QED BY <2>2, <3>1 DEF Stepping
  <2> QED BY <2>1, <2>2
<1>4. DOMAIN ops \subseteq DOMAIN ops' /\ \A u \in new : u \in DOMAIN ops' /\ BlocksOf(ops'[u]) = {}
  BY DEF Stepping
<1>5. /\ blocks' \in Seq(OptBlock) /\ DOMAIN blocks' = DOMAIN blocks
      /\ \A u \in DOMAIN ops : BlocksOf(ops'[u]) = BlocksOf(ops[u])
  BY DEF Stepping
<1> QED BY <1>1, <1>2, <1>3, <1>4, <1>5 DEF Follows

LEMMA StepKeeps ==
  ASSUME OptInv, NEW new, Stepping(new)
  PROVE  /\ Reachable' \subseteq Reachable \cup new
         /\ BlocksIn(Root)' \subseteq BlocksIn(Root)
         /\ Pending' /\ NestedApart'
         /\ \A b \in DOMAIN blocks : ListRight(b)'
<1>1. Follows(blocks, ops, blocks', ops', new)
  BY SteppingFollows
<1>2. Root \in DOMAIN blocks /\ DOMAIN blocks' = DOMAIN blocks /\ todo' = todo
  BY DEF OptInv, Shaped, Stepping
<1>3. \A b \in DOMAIN blocks :
        /\ UnderOf(blocks', ops', b) \subseteq UnderOf(blocks, ops, b) \cup new
        /\ InOf(blocks', ops', b) \subseteq InOf(blocks, ops, b)
  BY <1>1, InsideShrinks
<1>4. Reachable' \subseteq Reachable \cup new
  BY <1>2, <1>3, InsideIs, InsideIsNext
<1>5. \A b \in DOMAIN blocks : BlocksIn(b)' \subseteq BlocksIn(b)
  BY <1>3, InsideIs, InsideIsNext
<1>6. BlocksIn(Root)' \subseteq BlocksIn(Root)
  BY <1>2, <1>3, InsideIs, InsideIsNext
<1>7. 1 \in DOMAIN todo /\ todo[1].block = Block /\ Block \in DOMAIN blocks
  BY BlockIsThere DEF Stepping
<1>8. \A c \in BlocksIn(Root) : c \notin BlocksIn(Block) \ {Block} => c \in BlocksIn(Root)'
  <2>1. \A b \in DOMAIN blocks \ {Block} : blocks'[b].ops = blocks[b].ops
    BY DEF Stepping
  <2>2. \A c \in InOf(blocks, ops, Root) :
          c \notin InOf(blocks, ops, Block) \ {Block} => c \in InOf(blocks', ops', Root)
    BY <1>1, <1>2, <1>7, <2>1, OutsideStays
  <2> QED BY <2>2, InsideIs, InsideIsNext
<1>9. todo \in Seq([pass : PassName, block : DOMAIN blocks])
  BY DEF OptInv, Tables
<1>10. ASSUME NEW n \in DOMAIN todo
       PROVE  todo[n].block \in BlocksIn(Root)'
  <2>1. todo[n].block \in BlocksIn(Root)
    BY DEF OptInv, Pending
  <2>2. todo[n].block \notin BlocksIn(Block) \ {Block}
    <3>1. CASE n = 1
      BY <1>7, <3>1
    <3>2. CASE n # 1
      <4>1. 1 < n
        BY <1>9, <3>2
      <4>2. todo[n].block \in Later(todo[1].block)
        BY <1>7, <4>1 DEF OptInv, Pending
      <4> QED BY <1>7, <4>2 DEF Later
    <3> QED BY <3>1, <3>2
  <2> QED BY <1>8, <2>1, <2>2
<1>11. ASSUME NEW n \in DOMAIN todo, NEW m \in DOMAIN todo, n < m
       PROVE  todo'[m].block \in Later(todo[n].block)'
  <2>1. PICK b : b = todo[n].block
    OBVIOUS
  <2>2. todo[m].block \in Later(b)
    BY <1>11, <2>1 DEF OptInv, Pending
  <2>3. b \in DOMAIN blocks
    <3> DEFINE Visits == [pass : PassName, block : DOMAIN blocks]
    <3>1. todo[n] \in Visits
      <4>1. todo \in Seq(Visits)
        BY <1>9
      <4> HIDE DEF Visits
      <4> QED BY <4>1
    <3> QED BY <2>1, <3>1
  <2>4. todo[m].block \in DOMAIN blocks' \ (BlocksIn(b)' \ {b})
    BY <1>2, <1>5, <2>2, <2>3 DEF Later
  <2>5. b = todo'[n].block
    BY <1>2, <2>1
  <2> QED BY <1>2, <2>4, <2>5 DEF Later
<1>12. Pending'
  <2>1. \A n, m \in DOMAIN todo : n < m => todo'[m].block \in Later(todo[n].block)'
    BY <1>11
  <2>2. \A n \in DOMAIN todo : todo[n].block \in BlocksIn(Root)'
    BY <1>10
  <2> QED BY <1>2, <2>1, <2>2 DEF Pending
<1>13. NestedApart'
  <2>1. SUFFICES ASSUME NEW u \in DOMAIN ops', NEW w \in DOMAIN ops',
                        BlocksOf(ops'[u]) \cap BlocksOf(ops'[w]) # {}
                 PROVE  u = w
    BY DEF NestedApart
  <2>2. u \in DOMAIN ops /\ w \in DOMAIN ops
    BY <2>1 DEF Stepping
  <2>3. BlocksOf(ops[u]) \cap BlocksOf(ops[w]) # {}
    BY <2>1, <2>2 DEF Stepping
  <2> QED BY <2>2, <2>3 DEF OptInv, NestedApart
<1>14. ASSUME NEW b \in DOMAIN blocks
       PROVE  ListRight(b)'
  <2>1. NestsDown(blocks', ops')
    BY <1>1, StillNestsDown
  <2>2. /\ ToSet(blocks'[b].ops) \subseteq DOMAIN ops'
        /\ \A u \in ToSet(blocks'[b].ops) : \A d \in BlocksOf(ops'[u]) : d > b
    BY <1>2, <2>1 DEF NestsDown
  <2>3. IsInjective(blocks'[b].ops)
    <3>1. CASE b = Block
      BY <3>1 DEF Stepping
    <3>2. CASE b # Block
      BY <3>2 DEF Stepping, OptInv, Shaped, ListRight
    <3> QED BY <3>1, <3>2
  <2> QED BY <2>2, <2>3 DEF ListRight
<1> QED BY <1>4, <1>6, <1>12, <1>13, <1>14

(* Taking ops away keeps lists apart. *)
LEMMA ListsStayApart ==
  ASSUME OptInv, Stepping({}), ToSet(blocks'[Block].ops) \subseteq ToSet(blocks[Block].ops)
  PROVE  ListsApart'
<1>1. SUFFICES ASSUME NEW b \in BlocksIn(Root)', NEW c \in BlocksIn(Root)',
                      ToSet(blocks'[b].ops) \cap ToSet(blocks'[c].ops) # {}
               PROVE  b = c
  BY DEF ListsApart
<1>2. b \in BlocksIn(Root) /\ c \in BlocksIn(Root)
  BY StepKeeps
<1>3. b \in DOMAIN blocks /\ c \in DOMAIN blocks
  BY <1>2, StillThere DEF OptInv
<1>4. /\ ToSet(blocks'[b].ops) \subseteq ToSet(blocks[b].ops)
      /\ ToSet(blocks'[c].ops) \subseteq ToSet(blocks[c].ops)
  BY <1>3 DEF Stepping
<1>5. ToSet(blocks[b].ops) \cap ToSet(blocks[c].ops) # {}
  BY <1>1, <1>4
<1> QED BY <1>2, <1>5 DEF OptInv, ListsApart

(* Without new declarations nothing is declared twice. *)
LEMMA SingleStays ==
  ASSUME OptInv, Stepping({}),
         \A u \in Reachable' : ToSet(ops'[u].outs) \subseteq ToSet(ops[u].outs),
         \A b \in BlocksIn(Root)' : ToSet(blocks'[b].ins) \subseteq ToSet(blocks[b].ins)
  PROVE  Single'
<1>1. Reachable' \subseteq Reachable /\ BlocksIn(Root)' \subseteq BlocksIn(Root)
  BY StepKeeps
<1>2. ASSUME NEW u \in Reachable', NEW w \in Reachable',
             ToSet(ops'[u].outs) \cap ToSet(ops'[w].outs) # {}
      PROVE  u = w
  <2>1. ToSet(ops[u].outs) \cap ToSet(ops[w].outs) # {}
    BY <1>2
  <2> QED BY <1>1, <2>1 DEF OptInv, Single
<1>3. ASSUME NEW b \in BlocksIn(Root)', NEW c \in BlocksIn(Root)',
             ToSet(blocks'[b].ins) \cap ToSet(blocks'[c].ins) # {}
      PROVE  b = c
  <2>1. ToSet(blocks[b].ins) \cap ToSet(blocks[c].ins) # {}
    BY <1>3
  <2> QED BY <1>1, <2>1 DEF OptInv, Single
<1>4. ASSUME NEW b \in BlocksIn(Root)', NEW u \in Reachable'
      PROVE  ToSet(blocks'[b].ins) \cap ToSet(ops'[u].outs) = {}
  <2>1. ToSet(blocks[b].ins) \cap ToSet(ops[u].outs) = {}
    BY <1>1 DEF OptInv, Single
  <2> QED BY <2>1
<1> QED BY <1>2, <1>3, <1>4 DEF Single

-----------------------------------------------------------------------------
(* What a step has to show for the invariant. *)

LEMMA OpFields ==
  ASSUME NEW op \in SsaOp
  PROVE  /\ op.id \in SsaOpId /\ op.outs \in Seq(Var) /\ op.args \in Seq(Val)
         /\ op.a \in Val \cup {None} /\ op.b \in Val \cup {None}
         /\ op.then \in Nat \cup {None} /\ op.els \in Nat \cup {None}
         /\ op.cond \in Nat \cup {None} /\ op.do \in Nat \cup {None}
BY DEF SsaOp

LEMMA BlockFields ==
  ASSUME NEW block \in OptBlock
  PROVE  /\ block.parent \in Nat /\ block.ins \in Seq(Var) /\ block.ops \in Seq(Nat)
         /\ block.outs \in Seq(Var)
BY DEF OptBlock

LEMMA LeastIsIn ==
  ASSUME NEW N \in Nat, NEW S \in SUBSET (1 .. N), S # {}
  PROVE  Min(S) \in S /\ \A k \in S : Min(S) <= k
<1>1. \E m \in S : \A k \in S : m <= k
  BY LeastBad
<1> QED BY <1>1 DEF Min

(* An op in front of the pass is one that is still there. *)
LEMMA AheadAreOps ==
  ASSUME OptInv, todo # <<>>, NEW S \in SUBSET Ahead, S # {}
  PROVE  /\ Min(S) \in S /\ Min(S) \in DOMAIN List /\ Min(S) \in Nat \ {0} /\ Min(S) > at
         /\ List[Min(S)] \in DOMAIN ops /\ List[Min(S)] \in Reachable
         /\ List[Min(S)] \in ToSet(List)
<1>1. Block \in BlocksIn(Root) /\ Block \in DOMAIN blocks
  BY BlockIsThere
<1>2. blocks[Block] \in OptBlock
  BY <1>1 DEF OptInv, Shaped
<1>3. List \in Seq(Nat)
  BY <1>2, BlockFields DEF List
<1>4. Len(List) \in Nat /\ DOMAIN List = 1 .. Len(List)
  BY <1>3
<1>5. S \in SUBSET (1 .. Len(List))
  BY <1>4 DEF Ahead
<1>6. Min(S) \in S
  BY <1>4, <1>5, LeastIsIn
<1>7. List[Min(S)] \in ToSet(List)
  BY <1>4, <1>5, <1>6 DEF ToSet
<1>8. List[Min(S)] \in Reachable
  BY <1>1, <1>7, StillThere DEF OptInv, List
<1>9. List[Min(S)] \in DOMAIN ops
  BY <1>8, ReachableAreOps DEF OptInv
<1>10. Min(S) \in DOMAIN List /\ Min(S) \in Nat \ {0} /\ Min(S) > at
  BY <1>4, <1>5, <1>6 DEF Ahead
<1> QED BY <1>6, <1>7, <1>8, <1>9, <1>10

SameKind(op, new) ==
  /\ new \in SsaOp /\ new.id = op.id /\ Len(new.outs) = Len(op.outs)
  /\ BlocksOf(new) = BlocksOf(op) /\ new.then = op.then /\ new.els = op.els
  /\ (new.a \in Val) <=> (op.a \in Val)
  /\ (new.b \in Val) <=> (op.b \in Val)

LEMMA RightStays ==
  ASSUME NEW u, OpRight(u), SameKind(ops[u], ops'[u]), DOMAIN blocks' = DOMAIN blocks,
         \A b \in DOMAIN blocks : Len(blocks'[b].outs) = Len(blocks[b].outs)
  PROVE  OpRight(u)'
<1>1. BlocksOf(ops'[u]) \subseteq DOMAIN blocks'
  BY DEF OpRight, SameKind
<1>2. ops'[u].id \in ComputingId => Len(ops'[u].outs) = 1 /\ BlocksOf(ops'[u]) = {}
  BY DEF OpRight, SameKind
<1>3. ops'[u].id \in LoopId \cup {"IF"} => BlocksOf(ops'[u]) # {}
  BY DEF OpRight, SameKind
<1>4. ops'[u].id = "IF" =>
        \A c \in {ops'[u].then, ops'[u].els} \ {None} : Len(blocks'[c].outs) = Len(ops'[u].outs)
  BY DEF OpRight, SameKind, BlocksOf
<1>5. /\ ops'[u].a \in Val <=> ops'[u].id \in ComputingId \cup {"IF"}
      /\ ops'[u].b \in Val <=> ops'[u].id = "OR"
  BY DEF OpRight, SameKind
<1> QED BY <1>1, <1>2, <1>3, <1>4, <1>5 DEF OpRight

LEMMA ShapedStays ==
  ASSUME OptInv, NEW new, Stepping(new), \A u \in DOMAIN ops' : OpRight(u)'
  PROVE  Shaped'
<1>1. \A b \in DOMAIN blocks : ListRight(b)'
  BY StepKeeps
<1>2. ops' \in Seq(SsaOp) /\ blocks' \in Seq(OptBlock) /\ DOMAIN blocks' = DOMAIN blocks
  BY DEF Stepping
<1>3. Root \in DOMAIN blocks
  BY DEF OptInv, Shaped
<1> QED BY <1>1, <1>2, <1>3 DEF Shaped

LEMMA TablesStay ==
  ASSUME OptInv, NEW new, Stepping(new), decl' \in [Var -> DOMAIN ops \cup {0}],
         at' \in Nat, crashed' \in BOOLEAN
  PROVE  Tables'
<1>1. DOMAIN ops \subseteq DOMAIN ops' /\ todo' = todo /\ DOMAIN blocks' = DOMAIN blocks
  BY DEF Stepping
<1>2. decl' \in [Var -> DOMAIN ops' \cup {0}]
  BY <1>1
<1>3. todo' \in Seq([pass : PassName, block : DOMAIN blocks'])
  BY <1>1 DEF OptInv, Tables
<1> QED BY <1>2, <1>3 DEF Tables

(* A step that only rewrites operands. *)
LEMMA RewritingKeeps ==
  ASSUME OptInv, todo # <<>>, todo' = todo, decl' = decl, crashed' = crashed, at' \in Nat,
         ops' \in Seq(SsaOp), DOMAIN ops' = DOMAIN ops, \A u \in DOMAIN ops : OpRight(u)',
         \A u \in DOMAIN ops : BlocksOf(ops'[u]) = BlocksOf(ops[u])
                                /\ ToSet(ops'[u].outs) \subseteq ToSet(ops[u].outs),
         blocks' \in Seq(OptBlock), DOMAIN blocks' = DOMAIN blocks,
         \A b \in DOMAIN blocks : blocks'[b].ops = blocks[b].ops /\ blocks'[b].ins = blocks[b].ins
  PROVE  OptInv'
<1>1. Block \in BlocksIn(Root) /\ Block \in DOMAIN blocks
  BY BlockIsThere
<1>2. Stepping({})
  <2>1. ToSet(blocks'[Block].ops) \subseteq ToSet(Deep(Block))
    <3>1. DOMAIN ops \subseteq Nat /\ NestsDown(blocks, ops)
      BY ShapedNests DEF OptInv
    <3> QED BY <1>1, <3>1, UnderIs, InsideIs
  <2>2. IsInjective(blocks'[Block].ops)
    BY <1>1 DEF OptInv, Shaped, ListRight
  <2> QED BY <2>1, <2>2 DEF Stepping
<1>3. Shaped'
  BY <1>2, ShapedStays
<1>4. Tables'
  BY <1>2, TablesStay DEF OptInv, Tables
<1>5. Pending' /\ NestedApart' /\ Reachable' \subseteq Reachable /\ BlocksIn(Root)' \subseteq BlocksIn(Root)
  BY <1>2, StepKeeps
<1>6. ListsApart'
  BY <1>1, <1>2, ListsStayApart
<1>7. Single'
  <2>1. \A u \in Reachable' : ToSet(ops'[u].outs) \subseteq ToSet(ops[u].outs)
    BY <1>5, ReachableAreOps DEF OptInv
  <2>2. \A b \in BlocksIn(Root)' : ToSet(blocks'[b].ins) \subseteq ToSet(blocks[b].ins)
    BY <1>5, StillThere DEF OptInv
  <2> QED BY <1>2, <2>1, <2>2, SingleStays
<1> QED BY <1>3, <1>4, <1>5, <1>6, <1>7 DEF OptInv

(* A step that takes ops out of the list of the pass's block. *)
LEMMA RemovingKeeps ==
  ASSUME OptInv, todo # <<>>, UNCHANGED <<todo, decl, ops, crashed>>, at' \in Nat,
         NEW list \in Seq(Nat), IsInjective(list), ToSet(list) \subseteq ToSet(List),
         blocks' = [blocks EXCEPT ![Block].ops = list]
  PROVE  OptInv'
<1>1. Block \in BlocksIn(Root) /\ Block \in DOMAIN blocks
  BY BlockIsThere
<1>2. /\ blocks \in Seq(OptBlock) /\ blocks[Block] \in OptBlock
      /\ ops \in Seq(SsaOp) /\ \A u \in DOMAIN ops : OpRight(u)
  BY <1>1 DEF OptInv, Shaped
<1>3. /\ DOMAIN blocks' = DOMAIN blocks /\ blocks'[Block].ops = list
      /\ \A b \in DOMAIN blocks :
           /\ blocks'[b].ins = blocks[b].ins /\ blocks'[b].outs = blocks[b].outs
           /\ b # Block => blocks'[b].ops = blocks[b].ops
  <2> DEFINE block == [blocks[Block] EXCEPT !.ops = list]
  <2>1. /\ block.ops = list /\ block.ins = blocks[Block].ins /\ block.outs = blocks[Block].outs
    BY <1>2 DEF OptBlock
  <2>2. blocks' = [blocks EXCEPT ![Block] = block]
    OBVIOUS
  <2> HIDE DEF block
  <2>3. DOMAIN blocks' = DOMAIN blocks /\ blocks'[Block] = block
    BY <1>1, <1>2, <2>2
  <2>4. \A b \in DOMAIN blocks : b # Block => blocks'[b] = blocks[b]
    BY <1>2, <2>2
  <2> QED BY <2>1, <2>3, <2>4
<1>4. blocks' \in Seq(OptBlock)
  <2>1. [blocks[Block] EXCEPT !.ops = list] \in OptBlock
    BY <1>2 DEF OptBlock
  <2> QED BY <1>1, <1>2, <2>1
<1>5. Stepping({})
  <2>1. ToSet(List) \subseteq ToSet(Deep(Block))
    <3>1. DOMAIN ops \subseteq Nat /\ NestsDown(blocks, ops)
      BY ShapedNests DEF OptInv
    <3> QED BY <1>1, <3>1, UnderIs, InsideIs DEF List
  <2> QED BY <1>2, <1>3, <1>4, <2>1 DEF Stepping
<1>6. \A u \in DOMAIN ops' : OpRight(u)'
  BY <1>2, <1>3 DEF OpRight
<1>7. Shaped'
  BY <1>5, <1>6, ShapedStays
<1>8. Tables'
  BY <1>5, TablesStay DEF OptInv, Tables
<1>9. Pending' /\ NestedApart' /\ Reachable' \subseteq Reachable /\ BlocksIn(Root)' \subseteq BlocksIn(Root)
  BY <1>5, StepKeeps
<1>10. ListsApart'
  BY <1>3, <1>5, ListsStayApart DEF List
<1>11. Single'
  <2>1. \A b \in BlocksIn(Root)' : ToSet(blocks'[b].ins) \subseteq ToSet(blocks[b].ins)
    BY <1>3, <1>9, StillThere DEF OptInv
  <2> QED BY <1>5, <2>1, SingleStays
<1> QED BY <1>7, <1>8, <1>9, <1>10, <1>11 DEF OptInv

-----------------------------------------------------------------------------
(* Lists with something else in one place.                                 *)

InPlaceOf(s, k, t) == SubSeq(s, 1, k - 1) \o t \o SubSeq(s, k + 1, Len(s))

LEMMA PartOfList ==
  ASSUME NEW X, NEW s \in Seq(X), NEW m \in 1 .. Len(s) + 1, NEW n \in 0 .. Len(s), IsInjective(s)
  PROVE  /\ SubSeq(s, m, n) \in Seq(X) /\ IsInjective(SubSeq(s, m, n))
         /\ ToSet(SubSeq(s, m, n)) = {s[j] : j \in m .. n}
<1> DEFINE t == SubSeq(s, m, n)
<1>1. t \in Seq(X) /\ Len(t) = (IF m <= n THEN n - m + 1 ELSE 0)
      /\ \A j \in 1 .. Len(t) : t[j] = s[m + j - 1]
  OBVIOUS
<1> HIDE DEF t
<1>2. DOMAIN t = 1 .. Len(t) /\ Len(t) \in Nat /\ DOMAIN s = 1 .. Len(s)
  BY <1>1
<1>3. \A j \in DOMAIN t : m + j - 1 \in m .. n /\ m + j - 1 \in DOMAIN s
  BY <1>1, <1>2
<1>4. \A i, j \in DOMAIN t : t[i] = t[j] => i = j
  <2> SUFFICES ASSUME NEW i \in DOMAIN t, NEW j \in DOMAIN t, t[i] = t[j]
               PROVE  i = j
    OBVIOUS
  <2>1. m + i - 1 = m + j - 1
    BY <1>1, <1>2, <1>3 DEF IsInjective
  <2> QED BY <1>2, <2>1
<1>5. \A j \in m .. n : j - m + 1 \in DOMAIN t /\ t[j - m + 1] = s[j]
  BY <1>1, <1>2
<1>6. ToSet(t) = {s[j] : j \in m .. n}
  <2>1. \A i \in DOMAIN t : t[i] = s[m + i - 1]
    BY <1>1, <1>2
  <2>2. ToSet(t) \subseteq {s[j] : j \in m .. n}
    BY <1>3, <2>1 DEF ToSet
  <2>3. {s[j] : j \in m .. n} \subseteq ToSet(t)
    BY <1>5 DEF ToSet
  <2> QED BY <2>2, <2>3
<1> QED BY <1>1, <1>4, <1>6 DEF IsInjective, t

LEMMA JoinedInjective ==
  ASSUME NEW X, NEW s \in Seq(X), NEW t \in Seq(X), IsInjective(s), IsInjective(t),
         ToSet(s) \cap ToSet(t) = {}
  PROVE  IsInjective(s \o t)
<1>1. SUFFICES ASSUME NEW n \in DOMAIN (s \o t), NEW m \in DOMAIN (s \o t), (s \o t)[n] = (s \o t)[m]
               PROVE  n = m
  BY DEF IsInjective
<1>2. /\ n \in 1 .. Len(s) + Len(t) /\ m \in 1 .. Len(s) + Len(t) /\ Len(s) \in Nat /\ Len(t) \in Nat
      /\ DOMAIN s = 1 .. Len(s) /\ DOMAIN t = 1 .. Len(t)
  OBVIOUS
<1>3. \A i \in 1 .. Len(s) + Len(t) :
        IF i <= Len(s) THEN i \in DOMAIN s /\ (s \o t)[i] = s[i]
        ELSE i - Len(s) \in DOMAIN t /\ (s \o t)[i] = t[i - Len(s)]
  BY <1>2
<1>4. CASE n <= Len(s) /\ m <= Len(s)
  BY <1>1, <1>2, <1>3, <1>4 DEF IsInjective
<1>5. CASE ~ (n <= Len(s)) /\ ~ (m <= Len(s))
  <2>1. n - Len(s) = m - Len(s)
    BY <1>1, <1>2, <1>3, <1>5 DEF IsInjective
  <2> QED BY <1>2, <2>1
<1>6. CASE n <= Len(s) /\ ~ (m <= Len(s))
  BY <1>1, <1>2, <1>3, <1>6 DEF ToSet
<1>7. CASE ~ (n <= Len(s)) /\ m <= Len(s)
  BY <1>1, <1>2, <1>3, <1>7 DEF ToSet
<1> QED BY <1>4, <1>5, <1>6, <1>7

LEMMA ListReplaced ==
  ASSUME NEW X, NEW s \in Seq(X), NEW t \in Seq(X), NEW k \in DOMAIN s, IsInjective(s), IsInjective(t),
         ToSet(s) \cap ToSet(t) = {}
  PROVE  /\ InPlaceOf(s, k, t) \in Seq(X) /\ IsInjective(InPlaceOf(s, k, t))
         /\ ToSet(InPlaceOf(s, k, t)) = (ToSet(s) \ {s[k]}) \cup ToSet(t)
<1> DEFINE first == SubSeq(s, 1, k - 1)
           last == SubSeq(s, k + 1, Len(s))
<1>1. k \in 1 .. Len(s) /\ Len(s) \in Nat /\ DOMAIN s = 1 .. Len(s)
  OBVIOUS
<1>2. first \in Seq(X) /\ IsInjective(first) /\ ToSet(first) = {s[j] : j \in 1 .. k - 1}
  <2>1. 1 \in 1 .. Len(s) + 1 /\ k - 1 \in 0 .. Len(s)
    BY <1>1
  <2> QED BY <2>1, PartOfList
<1>3. last \in Seq(X) /\ IsInjective(last) /\ ToSet(last) = {s[j] : j \in k + 1 .. Len(s)}
  <2>1. k + 1 \in 1 .. Len(s) + 1 /\ Len(s) \in 0 .. Len(s)
    BY <1>1
  <2> QED BY <2>1, PartOfList
<1> HIDE DEF first, last
<1>4. ToSet(first) \cup ToSet(last) = ToSet(s) \ {s[k]} /\ ToSet(first) \cap ToSet(last) = {}
  <2>1. \A j \in 1 .. k - 1 : j \in DOMAIN s /\ j # k
    BY <1>1
  <2>2. \A j \in k + 1 .. Len(s) : j \in DOMAIN s /\ j # k
    BY <1>1
  <2>3. \A j \in DOMAIN s : j # k => j \in 1 .. k - 1 \/ j \in k + 1 .. Len(s)
    BY <1>1
  <2>4. \A i \in 1 .. k - 1 : \A j \in k + 1 .. Len(s) : i # j
    BY <1>1
  <2>5. \A i, j \in DOMAIN s : s[i] = s[j] => i = j
    BY DEF IsInjective
  <2>6. ToSet(first) \cup ToSet(last) \subseteq ToSet(s) \ {s[k]}
    BY <1>2, <1>3, <2>1, <2>2, <2>5 DEF ToSet
  <2>7. ToSet(s) \ {s[k]} \subseteq ToSet(first) \cup ToSet(last)
    BY <1>2, <1>3, <2>3 DEF ToSet
  <2>8. ToSet(first) \cap ToSet(last) = {}
    BY <1>2, <1>3, <2>1, <2>2, <2>4, <2>5
  <2> QED BY <2>6, <2>7, <2>8
<1>5. first \o t \in Seq(X) /\ ToSet(first \o t) = ToSet(first) \cup ToSet(t)
  BY <1>2, JoinedMembers
<1>6. IsInjective(first \o t)
  BY <1>2, <1>4, JoinedInjective
<1> DEFINE front == first \o t
<1> HIDE DEF front
<1>7. front \in Seq(X) /\ IsInjective(front) /\ ToSet(front) = ToSet(first) \cup ToSet(t)
  BY <1>5, <1>6 DEF front
<1>8. ToSet(front) \cap ToSet(last) = {}
  BY <1>4, <1>7
<1>9. /\ front \o last \in Seq(X) /\ IsInjective(front \o last)
      /\ ToSet(front \o last) = ToSet(front) \cup ToSet(last)
  <2>1. front \o last \in Seq(X) /\ ToSet(front \o last) = ToSet(front) \cup ToSet(last)
    BY <1>3, <1>7, JoinedMembers
  <2>2. IsInjective(front \o last)
    BY <1>3, <1>7, <1>8, JoinedInjective
  <2> QED BY <2>1, <2>2
<1>10. InPlaceOf(s, k, t) = front \o last
  BY DEF InPlaceOf, front, first, last
<1> QED BY <1>4, <1>7, <1>9, <1>10

LEMMA ListRemoved ==
  ASSUME NEW X, NEW s \in Seq(X), NEW k \in DOMAIN s, IsInjective(s)
  PROVE  /\ RemoveAt(s, k) \in Seq(X) /\ IsInjective(RemoveAt(s, k))
         /\ ToSet(RemoveAt(s, k)) \subseteq ToSet(s)
<1> DEFINE first == SubSeq(s, 1, k - 1)
           last == SubSeq(s, k + 1, Len(s))
<1>1. <<>> \in Seq(X) /\ IsInjective(<<>>) /\ ToSet(<<>>) = {}
  BY DEF IsInjective, ToSet
<1>2. /\ InPlaceOf(s, k, <<>>) \in Seq(X) /\ IsInjective(InPlaceOf(s, k, <<>>))
      /\ ToSet(InPlaceOf(s, k, <<>>)) = (ToSet(s) \ {s[k]}) \cup ToSet(<<>>)
  <2> DEFINE none == <<>>
  <2>1. none \in Seq(X) /\ IsInjective(none) /\ ToSet(s) \cap ToSet(none) = {}
    BY <1>1
  <2> HIDE DEF none
  <2>2. /\ InPlaceOf(s, k, none) \in Seq(X) /\ IsInjective(InPlaceOf(s, k, none))
        /\ ToSet(InPlaceOf(s, k, none)) = (ToSet(s) \ {s[k]}) \cup ToSet(none)
    BY <2>1, ListReplaced
  <2> QED BY <2>2 DEF none
<1>3. first \in Seq(X) /\ last \in Seq(X)
  OBVIOUS
<1>4. first \o <<>> = first
  <2> HIDE DEF first
  <2> QED BY <1>3
<1>5. InPlaceOf(s, k, <<>>) = first \o last
  <2> HIDE DEF first, last
  <2>1. InPlaceOf(s, k, <<>>) = first \o <<>> \o last
    BY DEF InPlaceOf, first, last
  <2> QED BY <1>4, <2>1
<1>6. RemoveAt(s, k) = first \o last
  BY DEF RemoveAt
<1> QED BY <1>1, <1>2, <1>5, <1>6

-----------------------------------------------------------------------------
(* The steps that rewrite operands. *)

(* What is known of a value is a number.  The recursion is over the        *)
(* copies that were followed.                                              *)
LEMMA KnownIs ==
  ASSUME OptInv
  PROVE  \A x \in Val : Known(x) \in Imm \cup {None}
<1> DEFINE N == Cardinality(Var)
           D == 0 .. N
           T == Imm \cup {None}
           S == [Val -> T]
           e(n, f) == [y \in Val |->
             IF y \in Imm THEN y
             ELSE IF n = 0 \/ decl[y] = 0 THEN None
             ELSE IF ops[decl[y]].id = "IMM" THEN f[n - 1][ops[decl[y]].a] ELSE None]
           body(f) == [n \in D |-> e(n, f)]
           rank == [n \in D |-> n]
           step == [nf \in D \X [D -> S] |-> e(nf[1], nf[2])]
           value == CHOOSE f : f = body(f)
<1>1. N \in Nat /\ rank \in [D -> 0 .. N] /\ S # {}
  <2>1. N \in Nat
    BY FS_CardinalityType, SsaOptAssumption
  <2>2. [y \in Val |-> None] \in S
    OBVIOUS
  <2> HIDE DEF N
  <2> QED BY <2>1, <2>2
<1>2. ASSUME NEW y \in Var, decl[y] # 0, ops[decl[y]].id = "IMM"
      PROVE  ops[decl[y]].a \in Val
  <2>1. decl[y] \in DOMAIN ops
    BY <1>2 DEF OptInv, Tables
  <2>2. OpRight(decl[y])
    BY <2>1 DEF OptInv, Shaped
  <2> QED BY <1>2, <2>2 DEF OpRight, ComputingId
<1>3. ASSUME NEW n \in D, NEW f \in [D -> S]
      PROVE  e(n, f) \in S
  <2> SUFFICES ASSUME NEW y \in Val
               PROVE  (IF y \in Imm THEN y
                       ELSE IF n = 0 \/ decl[y] = 0 THEN None
                       ELSE IF ops[decl[y]].id = "IMM" THEN f[n - 1][ops[decl[y]].a] ELSE None) \in T
    OBVIOUS
  <2>1. CASE y \notin Imm /\ n # 0 /\ decl[y] # 0 /\ ops[decl[y]].id = "IMM"
    <3>1. n - 1 \in D
      <4> HIDE DEF N
      <4> QED BY <1>1, <2>1
    <3>2. ops[decl[y]].a \in Val
      BY <1>2, <2>1 DEF Val
    <3>3. f[n - 1] \in S
      BY <3>1
    <3>4. f[n - 1][ops[decl[y]].a] \in T
      BY <3>2, <3>3
    <3> QED BY <2>1, <3>4
  <2>2. CASE ~ (y \notin Imm /\ n # 0 /\ decl[y] # 0 /\ ops[decl[y]].id = "IMM")
    BY <2>2
  <2> QED BY <2>1, <2>2
<1>4. step \in [D \X [D -> S] -> S] /\ \A n \in D : \A f \in [D -> S] : step[<<n, f>>] = e(n, f)
  <2> HIDE DEF e, D, S
  <2> QED BY <1>3
<1>5. ASSUME NEW n \in D, NEW f \in [D -> S], NEW g \in [D -> S],
             \A d \in D : rank[d] < rank[n] => f[d] = g[d]
      PROVE  e(n, f) = e(n, g)
  <2>1. n # 0 => f[n - 1] = g[n - 1]
    <3> HAVE n # 0
    <3>1. n - 1 \in D /\ rank[n - 1] < rank[n]
      <4> HIDE DEF N
      <4> QED BY <1>1
    <3> QED BY <1>5, <3>1
  <2> QED BY <2>1
<1>6. PICK h : FixedPoint(D, S, step, h)
  <2>1. \A n \in D : \A f, g \in [D -> S] :
          (\A d \in D : rank[d] < rank[n] => f[d] = g[d]) => step[<<n, f>>] = step[<<n, g>>]
    <3> HIDE DEF D, S, step, rank, e
    <3> QED BY <1>4, <1>5
  <2>2. Descends(D, S, N, rank, step)
    <3> HIDE DEF D, S, N, rank, step
    <3> QED BY <1>1, <1>4, <2>1 DEF Descends
  <2> HIDE DEF D, S, N, rank, step
  <2> QED BY <1>1, <2>2, RecursionExists
<1>7. h \in [D -> S] /\ \A n \in D : h[n] = e(n, h)
  <2> HIDE DEF D, S, step, e
  <2> QED BY <1>4, <1>6 DEF FixedPoint
<1>8. h = body(h)
  <2>1. h = [n \in D |-> h[n]]
    BY <1>7
  <2> HIDE DEF D, S, e
  <2> QED BY <1>7, <2>1
<1>9. value = body(value)
  <2>1. value = CHOOSE f : f = body(f)
    OBVIOUS
  <2> HIDE DEF body, value
  <2> QED BY <1>8, <2>1
<1>10. \A n \in D : value[n] \in S
  <2>1. \A n \in D : value[n] = e(n, value)
    <3> HIDE DEF value, e, D
    <3> QED BY <1>9
  <2>2. value[0] \in S
    <3>1. 0 \in D
      <4> HIDE DEF N
      <4> QED BY <1>1
    <3>2. value[0] = e(0, value)
      BY <2>1, <3>1
    <3>3. e(0, value) \in S
      <4> HIDE DEF value
      <4> QED OBVIOUS
    <3> QED BY <3>2, <3>3
  <2>3. ASSUME NEW n \in 1 .. N, value[n - 1] \in S
        PROVE  value[n] \in S
    <3>1. n \in D
      <4> HIDE DEF N
      <4> QED BY <1>1
    <3>2. e(n, value) \in S
      <4> HIDE DEF value
      <4> SUFFICES ASSUME NEW y \in Val
                   PROVE  (IF y \in Imm THEN y
                           ELSE IF n = 0 \/ decl[y] = 0 THEN None
                           ELSE IF ops[decl[y]].id = "IMM" THEN value[n - 1][ops[decl[y]].a] ELSE None) \in T
        OBVIOUS
      <4>1. CASE y \notin Imm /\ decl[y] # 0 /\ ops[decl[y]].id = "IMM"
        <5>1. ops[decl[y]].a \in Val
          BY <1>2, <4>1 DEF Val
        <5> QED BY <2>3, <5>1
      <4>2. CASE ~ (y \notin Imm /\ decl[y] # 0 /\ ops[decl[y]].id = "IMM")
        BY <4>2
      <4> QED BY <4>1, <4>2
    <3> QED BY <2>1, <3>1, <3>2
  <2> DEFINE Fine == {n \in D : value[n] \in S}
  <2>4. 0 \in Fine /\ \A n \in 1 .. N : n - 1 \in Fine => n \in Fine
    <3>1. 0 \in D /\ \A n \in 1 .. N : n \in D
      <4> HIDE DEF N
      <4> QED BY <1>1
    <3> HIDE DEF D, S, value
    <3> QED BY <2>2, <2>3, <3>1
  <2>5. \A n \in 0 .. N : n \in Fine
    <3> HIDE DEF Fine, N
    <3> QED BY <1>1, <2>4, CountingUp
  <2> QED BY <2>5
<1>11. \A x \in Val : value[N][x] \in T
  <2>1. N \in D
    <3> HIDE DEF N
    <3> QED BY <1>1
  <2>2. value[N] \in S
    BY <1>10, <2>1
  <2> HIDE DEF value, N, D
  <2> QED BY <2>2
<1>12. \A x : Known(x) = value[N][x]
  BY DEF Known
<1> HIDE DEF value, N
<1> QED BY <1>11, <1>12

LEMMA FoldedRight ==
  ASSUME OptInv, NEW u \in DOMAIN ops, ops[u].id \in {"NOT", "OR"}
  PROVE  /\ Folded(ops[u]) \in SsaOp /\ Folded(ops[u]).id \in ComputingId
         /\ Folded(ops[u]).outs = ops[u].outs /\ BlocksOf(Folded(ops[u])) = BlocksOf(ops[u])
         /\ Folded(ops[u]).a \in Val /\ (Folded(ops[u]).b \in Val <=> Folded(ops[u]).id = "OR")
<1> DEFINE op == ops[u]
           a == Evaluated(op.a)
           b == Evaluated(op.b)
           value == IF op.id = "NOT" THEN IF a = 0 THEN 1 ELSE 0
                    ELSE IF a = 0 /\ b = 0 THEN 0 ELSE 1
<1>1. op \in SsaOp /\ OpRight(u)
  BY DEF OptInv, Shaped
<1>2. op.a \in Val /\ (op.b \in Val <=> op.id = "OR") /\ op.b \in Val \cup {None}
  BY <1>1, OpFields DEF OpRight, ComputingId
<1>3. None \notin Val
  BY LlirAssumption DEF Val, Imm
<1>4. \A x \in Val : Evaluated(x) \in Val
  BY KnownIs DEF Evaluated, Val
<1>5. a \in Val /\ b \in Val \cup {None} /\ (b \in Val <=> op.id = "OR")
  <2>1. a \in Val
    BY <1>2, <1>4
  <2>2. op.id = "OR" => b \in Val
    BY <1>2, <1>4
  <2>3. op.id # "OR" => b = None
    BY <1>2 DEF Evaluated
  <2> HIDE DEF a, b, op
  <2> QED BY <1>3, <2>1, <2>2, <2>3
<1>6. value \in Imm
  BY DEF Imm
<1> HIDE DEF a, b, value
<1>7. Folded(op) = IF {a, b} \ {None} \subseteq Imm
                   THEN [op EXCEPT !.id = "IMM", !.a = value, !.b = None]
                   ELSE [op EXCEPT !.a = a, !.b = b]
  BY DEF Folded, a, b, value
<1>8. CASE {a, b} \ {None} \subseteq Imm
  <2>1. Folded(op) = [op EXCEPT !.id = "IMM", !.a = value, !.b = None]
    BY <1>7, <1>8
  <2>2. /\ Folded(op).id = "IMM" /\ Folded(op).outs = op.outs /\ Folded(op).a = value /\ Folded(op).b = None
        /\ Folded(op).then = op.then /\ Folded(op).els = op.els /\ Folded(op).cond = op.cond
        /\ Folded(op).do = op.do
    BY <1>1, <2>1 DEF SsaOp
  <2>3. Folded(op) \in SsaOp
    <3>1. value \in Val \cup {None} /\ "IMM" \in SsaOpId
      BY <1>6 DEF Val, SsaOpId, PlainId
    <3> QED BY <1>1, <2>1, <3>1 DEF SsaOp
  <2> QED BY <1>3, <1>6, <2>2, <2>3 DEF ComputingId, BlocksOf, Val
<1>9. CASE ~ ({a, b} \ {None} \subseteq Imm)
  <2>1. Folded(op) = [op EXCEPT !.a = a, !.b = b]
    BY <1>7, <1>9
  <2>2. /\ Folded(op).id = op.id /\ Folded(op).outs = op.outs /\ Folded(op).a = a /\ Folded(op).b = b
        /\ Folded(op).then = op.then /\ Folded(op).els = op.els /\ Folded(op).cond = op.cond
        /\ Folded(op).do = op.do
    BY <1>1, <2>1 DEF SsaOp
  <2>3. Folded(op) \in SsaOp
    BY <1>1, <1>5, <2>1 DEF SsaOp
  <2> QED BY <1>5, <2>2, <2>3 DEF ComputingId, BlocksOf
<1> QED BY <1>8, <1>9

LEMMA FoldInv ==
  ASSUME OptInv, Fold
  PROVE  OptInv'
<1> DEFINE k == Min(FoldableAhead)
           u == List[k]
<1>1. /\ todo # <<>> /\ FoldableAhead # {} /\ UNCHANGED <<todo, blocks, decl, crashed>> /\ at' = k
      /\ ops' = [ops EXCEPT ![u] = Folded(@)]
  BY DEF Fold, Running, Unchanged
<1>2. k \in FoldableAhead /\ k \in Nat /\ u \in DOMAIN ops
  <2>1. FoldableAhead \in SUBSET Ahead
    BY DEF FoldableAhead
  <2> QED BY <1>1, <2>1, AheadAreOps
<1>3. ops[u].id \in {"NOT", "OR"}
  BY <1>2 DEF FoldableAhead, OpAhead
<1> HIDE DEF k, u
<1>4. ops \in Seq(SsaOp) /\ blocks \in Seq(OptBlock) /\ \A w \in DOMAIN ops : OpRight(w)
  BY DEF OptInv, Shaped
<1>5. /\ ops' \in Seq(SsaOp) /\ DOMAIN ops' = DOMAIN ops /\ ops'[u] = Folded(ops[u])
      /\ \A w \in DOMAIN ops : w # u => ops'[w] = ops[w]
  <2>1. Folded(ops[u]) \in SsaOp
    BY <1>2, <1>3, FoldedRight
  <2> QED BY <1>1, <1>2, <1>4, <2>1
<1>6. /\ ops'[u].id \in ComputingId /\ ops'[u].outs = ops[u].outs /\ BlocksOf(ops'[u]) = BlocksOf(ops[u])
      /\ ops'[u].a \in Val /\ (ops'[u].b \in Val <=> ops'[u].id = "OR")
  BY <1>2, <1>3, <1>5, FoldedRight
<1>7. ASSUME NEW w \in DOMAIN ops
      PROVE  /\ OpRight(w)' /\ BlocksOf(ops'[w]) = BlocksOf(ops[w])
             /\ ToSet(ops'[w].outs) \subseteq ToSet(ops[w].outs)
  <2>1. CASE w = u
    <3>1. Len(ops[u].outs) = 1 /\ BlocksOf(ops[u]) = {}
      BY <1>2, <1>3, <1>4 DEF OpRight, ComputingId
    <3>2. ops'[u].id \notin LoopId \cup {"IF"}
      BY <1>6 DEF ComputingId, LoopId
    <3> QED BY <1>6, <2>1, <3>1, <3>2 DEF OpRight
  <2>2. CASE w # u
    <3>1. ops'[w] = ops[w] /\ blocks' = blocks
      BY <1>1, <1>5, <2>2
    <3> QED BY <1>4, <3>1 DEF OpRight
  <2> QED BY <2>1, <2>2
<1> QED BY <1>1, <1>2, <1>4, <1>5, <1>7, RewritingKeeps

LEMMA Replaced ==
  ASSUME NEW X, NEW s \in Seq(X), NEW old, NEW x \in X
  PROVE  ReplaceIn(s, old, x) \in Seq(X) /\ Len(ReplaceIn(s, old, x)) = Len(s)
BY DEF ReplaceIn

LEMMA ReadsReplacedRight ==
  ASSUME NEW op \in SsaOp, NEW v \in Val, NEW x \in Val
  PROVE  SameKind(op, ReadsReplaced(op, v, x)) /\ ReadsReplaced(op, v, x).outs = op.outs
<1> DEFINE new == ReadsReplaced(op, v, x)
           a == IF op.a = v THEN x ELSE op.a
           b == IF op.b = v THEN x ELSE op.b
           args == ReplaceIn(op.args, v, x)
<1>1. args \in Seq(Val)
  BY OpFields, Replaced
<1>2. a \in Val \cup {None} /\ b \in Val \cup {None} /\ (a \in Val <=> op.a \in Val) /\ (b \in Val <=> op.b \in Val)
  BY OpFields
<1>3. new = [op EXCEPT !.a = a, !.b = b, !.args = args]
  BY DEF ReadsReplaced
<1> HIDE DEF new, a, b, args
<1>4. /\ new.id = op.id /\ new.outs = op.outs /\ new.a = a /\ new.b = b
      /\ new.then = op.then /\ new.els = op.els /\ new.cond = op.cond /\ new.do = op.do
  BY <1>3 DEF SsaOp
<1>5. new \in SsaOp
  BY <1>1, <1>2, <1>3 DEF SsaOp
<1> QED BY <1>2, <1>4, <1>5 DEF SameKind, BlocksOf, new

LEMMA SameKindItself ==
  ASSUME NEW op \in SsaOp
  PROVE  SameKind(op, op)
BY DEF SameKind

LEMMA InlineVarInv ==
  ASSUME OptInv, InlineVar
  PROVE  OptInv'
<1> DEFINE n == Min(Copies)
           copy == ops[Deep(Block)[n]]
           old == copy.outs[1]
           x == copy.a
<1>1. /\ todo # <<>> /\ Copies # {} /\ UNCHANGED <<todo, decl, crashed>> /\ at' = n
      /\ ops' = [u \in DOMAIN ops |->
           IF u \notin ToSet(Deep(Block)) \/ ops[u].id = "RETURN" THEN ops[u]
           ELSE ReadsReplaced(ops[u], old, x)]
      /\ blocks' = [b \in DOMAIN blocks |->
           IF b \notin BlocksIn(Block) \/ blocks[b].ops = <<>> \/ x \notin Var
           THEN blocks[b]
           ELSE [blocks[b] EXCEPT !.outs = ReplaceIn(@, old, x)]]
  BY DEF InlineVar, Running, Unchanged
<1>2. Block \in DOMAIN blocks
  BY <1>1, BlockIsThere
<1>3. Deep(Block) \in Seq(Nat) /\ ToSet(Deep(Block)) \subseteq DOMAIN ops
  <2>1. DOMAIN ops \subseteq Nat /\ NestsDown(blocks, ops)
    BY ShapedNests DEF OptInv
  <2> QED BY <1>2, <2>1, DeepIs, InsideIs, ReachableAreOps DEF OptInv
<1>4. n \in Copies /\ n \in Nat
  <2>1. Copies \in SUBSET (1 .. Len(Deep(Block))) /\ Len(Deep(Block)) \in Nat
    BY <1>3 DEF Copies
  <2> QED BY <1>1, <2>1, LeastIsIn
<1>5. Deep(Block)[n] \in DOMAIN ops /\ copy.id = "IMM"
  BY <1>3, <1>4 DEF Copies, ToSet
<1>6. old \in Var /\ x \in Val
  <2>1. OpRight(Deep(Block)[n]) /\ copy \in SsaOp
    BY <1>5 DEF OptInv, Shaped
  <2>2. Len(copy.outs) = 1 /\ copy.a \in Val
    BY <1>5, <2>1 DEF OpRight, ComputingId
  <2>3. copy.outs \in Seq(Var)
    BY <2>1, OpFields
  <2> HIDE DEF copy
  <2> QED BY <2>2, <2>3
<1> HIDE DEF n, copy, old, x
<1>7. ops \in Seq(SsaOp) /\ blocks \in Seq(OptBlock) /\ \A w \in DOMAIN ops : OpRight(w)
  BY DEF OptInv, Shaped
<1>8. DOMAIN ops' = DOMAIN ops /\ DOMAIN blocks' = DOMAIN blocks
  BY <1>1
<1>9. ASSUME NEW u \in DOMAIN ops
      PROVE  SameKind(ops[u], ops'[u]) /\ ops'[u].outs = ops[u].outs
  <2>1. ops'[u] = ops[u] \/ ops'[u] = ReadsReplaced(ops[u], old, x)
    BY <1>1
  <2>2. ops[u] \in SsaOp /\ old \in Val
    BY <1>6, <1>7 DEF Val
  <2> QED BY <1>6, <2>1, <2>2, ReadsReplacedRight, SameKindItself
<1>10. ASSUME NEW b \in DOMAIN blocks
       PROVE  /\ blocks'[b] \in OptBlock /\ blocks'[b].ops = blocks[b].ops /\ blocks'[b].ins = blocks[b].ins
              /\ Len(blocks'[b].outs) = Len(blocks[b].outs)
  <2>1. blocks[b] \in OptBlock
    BY <1>7
  <2>2. CASE b \notin BlocksIn(Block) \/ blocks[b].ops = <<>> \/ x \notin Var
    <3>1. blocks'[b] = blocks[b]
      BY <1>1, <2>2
    <3> QED BY <2>1, <3>1
  <2>3. CASE ~ (b \notin BlocksIn(Block) \/ blocks[b].ops = <<>> \/ x \notin Var)
    <3> DEFINE outs == ReplaceIn(blocks[b].outs, old, x)
    <3>1. outs \in Seq(Var) /\ Len(outs) = Len(blocks[b].outs)
      BY <2>1, <2>3, BlockFields, Replaced
    <3>2. blocks'[b] = [blocks[b] EXCEPT !.outs = outs]
      BY <1>1, <2>3
    <3> HIDE DEF outs
    <3> QED BY <2>1, <3>1, <3>2 DEF OptBlock
  <2> QED BY <2>2, <2>3
<1>11. ops' \in Seq(SsaOp) /\ blocks' \in Seq(OptBlock)
  <2>1. \A u \in DOMAIN ops : ops'[u] \in SsaOp
    BY <1>9 DEF SameKind
  <2>2. Len(ops) \in Nat /\ DOMAIN ops = 1 .. Len(ops) /\ Len(blocks) \in Nat /\ DOMAIN blocks = 1 .. Len(blocks)
    BY <1>7
  <2>3. ops' = [u \in 1 .. Len(ops) |-> ops'[u]] /\ blocks' = [b \in 1 .. Len(blocks) |-> blocks'[b]]
    BY <1>1, <2>2
  <2> DEFINE M == SsaOp
             Q == OptBlock
  <2>4. (\A u \in 1 .. Len(ops) : ops'[u] \in M) /\ (\A b \in 1 .. Len(blocks) : blocks'[b] \in Q)
    BY <1>10, <2>1, <2>2
  <2> HIDE DEF M, Q
  <2>5. ops' \in Seq(M) /\ blocks' \in Seq(Q)
    BY <2>2, <2>3, <2>4
  <2> QED BY <2>5 DEF M, Q
<1>12. \A u \in DOMAIN ops : OpRight(u)'
  <2> SUFFICES ASSUME NEW u \in DOMAIN ops PROVE OpRight(u)'
    OBVIOUS
  <2> QED BY <1>7, <1>8, <1>9, <1>10, RightStays
<1>13. \A u \in DOMAIN ops : BlocksOf(ops'[u]) = BlocksOf(ops[u]) /\ ToSet(ops'[u].outs) \subseteq ToSet(ops[u].outs)
  BY <1>9 DEF SameKind
<1> QED BY <1>1, <1>4, <1>8, <1>10, <1>11, <1>12, <1>13, RewritingKeeps

-----------------------------------------------------------------------------
(* The steps that take ops out of a list, and those that only move on.     *)

LEMMA ListIs ==
  ASSUME OptInv, todo # <<>>
  PROVE  /\ List \in Seq(Nat) /\ IsInjective(List) /\ List = blocks[Block].ops
         /\ Len(List) \in Nat /\ DOMAIN List = 1 .. Len(List)
<1>1. Block \in DOMAIN blocks
  BY BlockIsThere
<1>2. blocks[Block] \in OptBlock /\ IsInjective(blocks[Block].ops)
  BY <1>1 DEF OptInv, Shaped, ListRight
<1>3. List \in Seq(Nat)
  BY <1>2, BlockFields DEF List
<1> QED BY <1>2, <1>3 DEF List

LEMMA RemoveUnneededInv ==
  ASSUME OptInv, RemoveUnneeded
  PROVE  OptInv'
<1> DEFINE k == Min(UnneededAhead)
           list == RemoveAt(List, k)
<1>1. /\ todo # <<>> /\ UnneededAhead # {} /\ UNCHANGED <<todo, decl, ops, crashed>> /\ at' = k - 1
      /\ blocks' = [blocks EXCEPT ![Block].ops = RemoveAt(@, k)]
  BY DEF RemoveUnneeded, Running, Unchanged
<1>2. k \in DOMAIN List /\ k \in Nat \ {0}
  <2>1. UnneededAhead \in SUBSET Ahead
    BY DEF UnneededAhead
  <2> QED BY <1>1, <2>1, AheadAreOps
<1>3. blocks \in Seq(OptBlock) /\ Block \in DOMAIN blocks
  BY <1>1, BlockIsThere DEF OptInv, Shaped
<1>4. blocks' = [blocks EXCEPT ![Block].ops = list]
  BY <1>1 DEF List
<1> HIDE DEF k
<1>5. list \in Seq(Nat) /\ IsInjective(list) /\ ToSet(list) \subseteq ToSet(List)
  BY <1>1, <1>2, ListIs, ListRemoved
<1>6. at' \in Nat
  BY <1>1, <1>2
<1> HIDE DEF list
<1> QED BY <1>1, <1>4, <1>5, <1>6, RemovingKeeps

LEMMA RemoveDeadInv ==
  ASSUME OptInv, RemoveDead
  PROVE  OptInv'
<1> DEFINE k == Min(DeadAhead)
           list == SubSeq(List, 1, k - 1)
<1>1. /\ todo # <<>> /\ DeadAhead # {} /\ UNCHANGED <<todo, decl, ops, crashed, at>>
      /\ blocks' = [blocks EXCEPT ![Block].ops = SubSeq(@, 1, k - 1)]
  BY DEF RemoveDead, Running, Unchanged
<1>2. k \in DOMAIN List /\ k \in Nat \ {0}
  <2>1. DeadAhead \in SUBSET Ahead
    BY DEF DeadAhead
  <2> QED BY <1>1, <2>1, AheadAreOps
<1>3. blocks' = [blocks EXCEPT ![Block].ops = list]
  BY <1>1 DEF List
<1> HIDE DEF k
<1>4. List \in Seq(Nat) /\ IsInjective(List) /\ Len(List) \in Nat /\ DOMAIN List = 1 .. Len(List)
  BY <1>1, ListIs
<1>5. 1 \in 1 .. Len(List) + 1 /\ k - 1 \in 0 .. Len(List) /\ \A j \in 1 .. k - 1 : j \in DOMAIN List
  BY <1>2, <1>4
<1>6. list \in Seq(Nat) /\ IsInjective(list) /\ ToSet(list) = {List[j] : j \in 1 .. k - 1}
  BY <1>4, <1>5, PartOfList
<1>7. ToSet(list) \subseteq ToSet(List)
  BY <1>5, <1>6 DEF ToSet
<1>8. at' \in Nat
  BY <1>1 DEF OptInv, Tables
<1> HIDE DEF list
<1> QED BY <1>1, <1>3, <1>6, <1>7, <1>8, RemovingKeeps

(* What is said of the program is not said of the rest. *)
LEMMA ProgramKept ==
  ASSUME OptInv, UNCHANGED <<blocks, ops, decl>>
  PROVE  Shaped' /\ NestedApart' /\ ListsApart' /\ Single'
         /\ DOMAIN ops' = DOMAIN ops /\ DOMAIN blocks' = DOMAIN blocks
         /\ BlocksIn(Root)' = BlocksIn(Root) /\ \A b : Later(b)' = Later(b)
<1>1. Reachable' = Reachable /\ \A b : BlocksIn(b)' = BlocksIn(b)
  BY InsideIs, InsideIsNext
<1>2. BlocksIn(Root)' = BlocksIn(Root)
  BY <1>1
<1>3. Shaped'
  BY DEF OptInv, Shaped, OpRight, ListRight
<1>4. NestedApart'
  BY DEF OptInv, NestedApart
<1>5. ListsApart'
  BY <1>2 DEF OptInv, ListsApart
<1>6. Single'
  BY <1>1, <1>2 DEF OptInv, Single
<1>7. \A b : Later(b)' = Later(b)
  BY <1>1 DEF Later
<1> QED BY <1>2, <1>3, <1>4, <1>5, <1>6, <1>7

LEMMA FrozenInv ==
  ASSUME OptInv, UNCHANGED <<blocks, ops, decl, todo>>, at' \in Nat, crashed' \in BOOLEAN
  PROVE  OptInv'
<1>1. /\ Shaped' /\ NestedApart' /\ ListsApart' /\ Single' /\ BlocksIn(Root)' = BlocksIn(Root)
      /\ \A b : Later(b)' = Later(b)
  BY ProgramKept
<1>2. Tables'
  BY DEF OptInv, Tables
<1>3. Pending'
  <2>1. \A n \in DOMAIN todo : todo[n].block \in BlocksIn(Root)'
    BY <1>1 DEF OptInv, Pending
  <2>2. ASSUME NEW n \in DOMAIN todo, NEW m \in DOMAIN todo, n < m
        PROVE  todo'[m].block \in Later(todo[n].block)'
    <3>1. PICK b : b = todo[n].block
      OBVIOUS
    <3>2. todo[m].block \in Later(b)
      BY <2>2, <3>1 DEF OptInv, Pending
    <3>3. todo[m].block \in Later(b)'
      BY <1>1, <3>2
    <3>4. b = todo'[n].block
      BY <3>1
    <3> QED BY <3>3, <3>4 DEF Later
  <2> QED BY <2>1, <2>2 DEF Pending
<1> QED BY <1>1, <1>2, <1>3 DEF OptInv

LEMMA NextPassInv ==
  ASSUME OptInv, NextPass
  PROVE  OptInv'
<1>1. todo # <<>> /\ todo' = Tail(todo) /\ at' = 0 /\ UNCHANGED <<blocks, ops, decl, crashed>>
  BY DEF NextPass
<1>2. /\ Shaped' /\ NestedApart' /\ ListsApart' /\ Single' /\ BlocksIn(Root)' = BlocksIn(Root)
      /\ \A b : Later(b)' = Later(b)
  BY <1>1, ProgramKept
<1> DEFINE Visits == [pass : PassName, block : DOMAIN blocks]
<1>3. todo \in Seq(Visits)
  BY DEF OptInv, Tables
<1>4. /\ todo' \in Seq(Visits)
      /\ \A n \in DOMAIN todo' : n + 1 \in DOMAIN todo /\ todo'[n] = todo[n + 1] /\ n \in Nat
  <2> HIDE DEF Visits
  <2> QED BY <1>1, <1>3
<1>5. Tables'
  BY <1>1, <1>4 DEF OptInv, Tables
<1>6. Pending'
  <2>1. \A n \in DOMAIN todo' : todo'[n].block \in BlocksIn(Root)'
    BY <1>2, <1>4 DEF OptInv, Pending
  <2>2. ASSUME NEW n \in DOMAIN todo', NEW m \in DOMAIN todo', n < m
        PROVE  todo'[m].block \in Later(todo[n].block)'
    <3>1. PICK b : b = todo'[n].block
      OBVIOUS
    <3>2. n + 1 \in DOMAIN todo /\ m + 1 \in DOMAIN todo /\ n + 1 < m + 1
      BY <1>4, <2>2
    <3>3. b = todo[n + 1].block /\ todo'[m].block = todo[m + 1].block
      BY <1>4, <3>1
    <3>4. todo'[m].block \in Later(b)
      BY <3>2, <3>3 DEF OptInv, Pending
    <3>5. todo'[m].block \in Later(b)'
      BY <1>2, <3>4
    <3> QED BY <3>1, <3>5 DEF Later
  <2> QED BY <2>1, <2>2 DEF Pending
<1> QED BY <1>2, <1>5, <1>6 DEF OptInv

-----------------------------------------------------------------------------
(* An IF that stays.                                                       *)

TrimTo(s, used) ==
  [n \in 1 .. Cardinality(used) |->
     s[CHOOSE k \in used : Cardinality({j \in used : j <= k}) = n]]

LEMMA Trimmed ==
  ASSUME NEW X, NEW s \in Seq(X), NEW used \in SUBSET (1 .. Len(s))
  PROVE  /\ TrimTo(s, used) \in Seq(X) /\ Len(TrimTo(s, used)) = Cardinality(used)
         /\ ToSet(TrimTo(s, used)) \subseteq ToSet(s) /\ Cardinality(used) \in Nat
<1> DEFINE C == Cardinality(used)
           upTo(k) == {j \in used : j <= k}
           rank == [k \in used |-> Cardinality(upTo(k))]
           place(n) == CHOOSE k \in used : Cardinality(upTo(k)) = n
<1>1. IsFiniteSet(used) /\ C \in Nat /\ used \subseteq Nat /\ used \subseteq DOMAIN s
  <2>1. Len(s) \in Nat /\ DOMAIN s = 1 .. Len(s)
    OBVIOUS
  <2>2. IsFiniteSet(1 .. Len(s))
    BY <2>1, FS_Interval
  <2>3. IsFiniteSet(used)
    BY <2>2, FS_Subset
  <2>4. used \subseteq Nat /\ used \subseteq DOMAIN s
    BY <2>1
  <2> QED BY <2>3, <2>4, FS_CardinalityType
<1>2. \A k \in used : IsFiniteSet(upTo(k)) /\ Cardinality(upTo(k)) \in Nat /\ k \in upTo(k)
  <2> SUFFICES ASSUME NEW k \in used
               PROVE  IsFiniteSet(upTo(k)) /\ Cardinality(upTo(k)) \in Nat /\ k \in upTo(k)
    OBVIOUS
  <2>1. upTo(k) \in SUBSET used /\ k \in upTo(k)
    BY <1>1
  <2> HIDE DEF upTo
  <2> QED BY <1>1, <2>1, FS_Subset, FS_CardinalityType
<1>3. rank \in [used -> 1 .. C]
  <2> SUFFICES ASSUME NEW k \in used PROVE Cardinality(upTo(k)) \in 1 .. C
    OBVIOUS
  <2>1. upTo(k) \in SUBSET used
    OBVIOUS
  <2>2. Cardinality(upTo(k)) <= C
    <3> HIDE DEF upTo
    <3> QED BY <1>1, <2>1, FS_Subset
  <2>3. Cardinality(upTo(k)) # 0
    <3>1. IsFiniteSet(upTo(k)) /\ k \in upTo(k)
      BY <1>2
    <3> HIDE DEF upTo
    <3> QED BY <3>1, FS_EmptySet
  <2>4. Cardinality(upTo(k)) \in Nat
    BY <1>2
  <2> HIDE DEF upTo, C
  <2> QED BY <1>1, <2>2, <2>3, <2>4
<1>4. ASSUME NEW i \in used, NEW j \in used, i < j
      PROVE  rank[i] < rank[j]
  <2>1. upTo(i) \subseteq upTo(j) \ {j}
    <3> SUFFICES ASSUME NEW x \in used, x <= i
                 PROVE  x <= j /\ x # j
      OBVIOUS
    <3>1. x \in Nat /\ i \in Nat /\ j \in Nat
      BY <1>1
    <3> QED BY <1>4, <3>1
  <2>2. j \in upTo(j) /\ IsFiniteSet(upTo(j)) /\ IsFiniteSet(upTo(j) \ {j})
    BY <1>2, FS_RemoveElement
  <2>3. Cardinality(upTo(j) \ {j}) = Cardinality(upTo(j)) - 1
    BY <2>2, FS_RemoveElement
  <2>4. Cardinality(upTo(i)) <= Cardinality(upTo(j) \ {j})
    BY <2>1, <2>2, FS_Subset
  <2>5. Cardinality(upTo(i)) \in Nat /\ Cardinality(upTo(j)) \in Nat
    BY <1>2
  <2> HIDE DEF upTo
  <2> QED BY <2>3, <2>4, <2>5
<1>5. \A i, j \in used : rank[i] = rank[j] => i = j
  <2> SUFFICES ASSUME NEW i \in used, NEW j \in used, rank[i] = rank[j], i # j
               PROVE  FALSE
    OBVIOUS
  <2>1. rank[i] \in Nat /\ rank[j] \in Nat
    BY <1>2
  <2>2. i < j \/ j < i
    BY <1>1
  <2> HIDE DEF rank
  <2> QED BY <2>1, <2>2, <1>4
<1>6. rank \in Surjection(used, 1 .. C)
  <2>1. rank \in Injection(used, 1 .. C)
    <3> HIDE DEF rank, C
    <3> QED BY <1>3, <1>5 DEF Injection, IsInjective
  <2>2. IsFiniteSet(1 .. C) /\ Cardinality(1 .. C) = C
    <3> HIDE DEF C
    <3> QED BY <1>1, FS_Interval, SMTT(60)
  <2> HIDE DEF rank
  <2> QED BY <1>1, <2>1, <2>2, FS_Injection
<1>7. \A n \in 1 .. C : place(n) \in used
  <2> SUFFICES ASSUME NEW n \in 1 .. C PROVE place(n) \in used
    OBVIOUS
  <2>1. \E k \in used : rank[k] = n
    <3> HIDE DEF rank, C
    <3> QED BY <1>6 DEF Surjection
  <2>2. \E k \in used : Cardinality(upTo(k)) = n
    BY <2>1
  <2> QED BY <2>2
<1>8. TrimTo(s, used) = [n \in 1 .. C |-> s[place(n)]]
  BY DEF TrimTo
<1> HIDE DEF C, place
<1>9. \A n \in 1 .. C : s[place(n)] \in X /\ s[place(n)] \in ToSet(s)
  <2> SUFFICES ASSUME NEW n \in 1 .. C
               PROVE  s[place(n)] \in X /\ s[place(n)] \in ToSet(s)
    OBVIOUS
  <2>1. place(n) \in DOMAIN s
    BY <1>1, <1>7
  <2> QED BY <2>1 DEF ToSet
<1>10. TrimTo(s, used) \in Seq(X) /\ Len(TrimTo(s, used)) = C /\ DOMAIN TrimTo(s, used) = 1 .. C
  BY <1>1, <1>8, <1>9
<1>11. ToSet(TrimTo(s, used)) \subseteq ToSet(s)
  BY <1>8, <1>9, <1>10 DEF ToSet
<1> QED BY <1>1, <1>10, <1>11 DEF C

LEMMA KeepIfInv ==
  ASSUME OptInv, KeepIf
  PROVE  OptInv'
<1> DEFINE k == Min(IfsAhead)
           u == List[k]
           op == ops[u]
           used == {n \in DOMAIN op.outs : UsedAnywhere(op.outs[n])}
<1>1. /\ todo # <<>> /\ IfsAhead # {} /\ UNCHANGED <<todo, decl, crashed>> /\ at' = k
      /\ ops' = [ops EXCEPT ![u].outs = TrimTo(@, used)]
      /\ blocks' = [b \in DOMAIN blocks |->
           IF b \in {op.then, op.els} THEN [blocks[b] EXCEPT !.outs = TrimTo(@, used)]
           ELSE blocks[b]]
  BY DEF KeepIf, KeptIf, If, OpAhead, Running, Unchanged, TrimTo
<1>2. k \in IfsAhead /\ k \in Nat /\ u \in DOMAIN ops
  <2>1. IfsAhead \in SUBSET Ahead
    BY DEF IfsAhead
  <2> QED BY <1>1, <2>1, AheadAreOps
<1>3. op.id = "IF"
  BY <1>2 DEF IfsAhead, OpAhead
<1> HIDE DEF k, u
<1>4. /\ ops \in Seq(SsaOp) /\ blocks \in Seq(OptBlock) /\ \A w \in DOMAIN ops : OpRight(w)
      /\ None \notin Nat
  BY SsaOptAssumption DEF OptInv, Shaped
<1>5. op \in SsaOp /\ op.outs \in Seq(Var)
  BY <1>2, <1>4, OpFields
<1>6. used \in SUBSET (1 .. Len(op.outs))
  BY <1>5
<1> HIDE DEF used
<1> DEFINE C == Cardinality(used)
           outs == TrimTo(op.outs, used)
<1>7. outs \in Seq(Var) /\ Len(outs) = C /\ ToSet(outs) \subseteq ToSet(op.outs) /\ C \in Nat
  BY <1>5, <1>6, Trimmed
<1>8. ops' = [ops EXCEPT ![u] = [op EXCEPT !.outs = outs]]
  BY <1>1, <1>2, <1>4
<1> HIDE DEF outs
<1> DEFINE new == [op EXCEPT !.outs = outs]
<1>9. /\ new \in SsaOp /\ new.outs = outs /\ new.id = op.id /\ new.a = op.a /\ new.b = op.b
      /\ new.then = op.then /\ new.els = op.els /\ BlocksOf(new) = BlocksOf(op)
  BY <1>5, <1>7 DEF SsaOp, BlocksOf
<1> HIDE DEF new
<1>10. /\ ops' \in Seq(SsaOp) /\ DOMAIN ops' = DOMAIN ops /\ ops'[u] = new
       /\ \A w \in DOMAIN ops : w # u => ops'[w] = ops[w]
  <2>1. ops' = [ops EXCEPT ![u] = new]
    BY <1>8 DEF new
  <2> HIDE DEF op
  <2> QED BY <1>2, <1>4, <1>9, <2>1
<1> DEFINE branches == {op.then, op.els} \ {None}
<1>11. \A b \in DOMAIN blocks : b \in {op.then, op.els} <=> b \in branches
  BY <1>4
<1>12. ASSUME NEW b \in DOMAIN blocks
       PROVE  /\ blocks'[b] \in OptBlock /\ blocks'[b].ops = blocks[b].ops /\ blocks'[b].ins = blocks[b].ins
              /\ IF b \in branches THEN Len(blocks'[b].outs) = C
                 ELSE Len(blocks'[b].outs) = Len(blocks[b].outs)
  <2>1. blocks[b] \in OptBlock
    BY <1>4
  <2>2. CASE b \in branches
    <3>1. Len(blocks[b].outs) = Len(op.outs)
      BY <1>2, <1>3, <1>4, <2>2 DEF OpRight
    <3> DEFINE kept == TrimTo(blocks[b].outs, used)
    <3>2. kept \in Seq(Var) /\ Len(kept) = C
      <4>1. blocks[b].outs \in Seq(Var)
        BY <2>1, BlockFields
      <4>2. used \in SUBSET (1 .. Len(blocks[b].outs))
        BY <1>6, <3>1
      <4> QED BY <4>1, <4>2, Trimmed
    <3>3. blocks'[b] = [blocks[b] EXCEPT !.outs = kept]
      BY <1>1, <1>11, <2>2
    <3> HIDE DEF kept, C, branches
    <3> QED BY <2>1, <2>2, <3>2, <3>3 DEF OptBlock
  <2>3. CASE b \notin branches
    <3>1. blocks'[b] = blocks[b]
      BY <1>1, <1>11, <2>3
    <3> QED BY <2>1, <2>3, <3>1
  <2> QED BY <2>2, <2>3
<1>13. blocks' \in Seq(OptBlock) /\ DOMAIN blocks' = DOMAIN blocks
  <2>1. Len(blocks) \in Nat /\ DOMAIN blocks = 1 .. Len(blocks)
    BY <1>4
  <2>2. DOMAIN blocks' = DOMAIN blocks /\ blocks' = [b \in 1 .. Len(blocks) |-> blocks'[b]]
    BY <1>1, <2>1
  <2> DEFINE Q == OptBlock
  <2>3. \A b \in 1 .. Len(blocks) : blocks'[b] \in Q
    BY <1>12, <2>1
  <2> HIDE DEF Q
  <2>4. blocks' \in Seq(Q)
    BY <2>1, <2>2, <2>3
  <2> QED BY <2>2, <2>4 DEF Q
<1>14. ASSUME NEW w \in DOMAIN ops
       PROVE  /\ OpRight(w)' /\ BlocksOf(ops'[w]) = BlocksOf(ops[w])
              /\ ToSet(ops'[w].outs) \subseteq ToSet(ops[w].outs)
  <2>1. CASE w = u
    <3>1. \A c \in branches : Len(blocks'[c].outs) = Len(new.outs)
      <4>1. branches \subseteq DOMAIN blocks
        BY <1>2, <1>4 DEF OpRight, BlocksOf
      <4> QED BY <1>7, <1>9, <1>12, <4>1
    <3>2. /\ BlocksOf(op) \subseteq DOMAIN blocks /\ BlocksOf(op) # {} /\ op.a \in Val /\ op.b \notin Val
      BY <1>2, <1>3, <1>4 DEF OpRight
    <3>3. op.id \notin ComputingId
      BY <1>3 DEF ComputingId
    <3>4. OpRight(w)'
      <4>1. /\ ops'[w].id = "IF" /\ BlocksOf(ops'[w]) = BlocksOf(op) /\ ops'[w].a = op.a /\ ops'[w].b = op.b
            /\ {ops'[w].then, ops'[w].els} \ {None} = branches /\ ops'[w].outs = new.outs
        BY <1>3, <1>9, <1>10, <2>1
      <4> HIDE DEF op, branches
      <4>2. BlocksOf(ops'[w]) \subseteq DOMAIN blocks' /\ BlocksOf(ops'[w]) # {}
        BY <1>13, <3>2, <4>1
      <4>3. \A c \in {ops'[w].then, ops'[w].els} \ {None} : Len(blocks'[c].outs) = Len(ops'[w].outs)
        BY <3>1, <4>1
      <4>4. ops'[w].id \notin ComputingId /\ ops'[w].a \in Val /\ ops'[w].b \notin Val
        BY <1>3, <3>2, <3>3, <4>1
      <4> QED BY <4>1, <4>2, <4>3, <4>4 DEF OpRight
    <3> QED BY <1>7, <1>9, <1>10, <2>1, <3>4
  <2>2. CASE w # u
    <3>1. ops'[w] = ops[w]
      BY <1>10, <2>2
    <3>2. \A c \in {ops[w].then, ops[w].els} \ {None} : c \in BlocksOf(ops[w])
      BY DEF BlocksOf
    <3>3. BlocksOf(ops[w]) \cap branches = {}
      <4>1. branches \subseteq BlocksOf(op)
        BY DEF BlocksOf
      <4>2. BlocksOf(ops[w]) \cap BlocksOf(op) = {}
        BY <1>2, <2>2 DEF OptInv, NestedApart
      <4> QED BY <4>1, <4>2
    <3>4. BlocksOf(ops[w]) \subseteq DOMAIN blocks
      BY <1>4 DEF OpRight
    <3>5. \A c \in BlocksOf(ops[w]) : Len(blocks'[c].outs) = Len(blocks[c].outs)
      BY <1>12, <3>3, <3>4
    <3> HIDE DEF op, branches
    <3>6. OpRight(w)'
      BY <1>4, <1>13, <3>1, <3>2, <3>5 DEF OpRight
    <3> QED BY <3>1, <3>6
  <2> QED BY <2>1, <2>2
<1> QED BY <1>1, <1>2, <1>10, <1>12, <1>13, <1>14, RewritingKeeps

-----------------------------------------------------------------------------
(* Where an equal computation is looked for there are ops.                 *)

LEMMA PlaceIs ==
  ASSUME Shaped, NEW b \in BlocksIn(Root), b # Root
  PROVE  /\ PlaceOf(b).block \in BlocksIn(Root)
         /\ PlaceOf(b).at \in DOMAIN blocks[PlaceOf(b).block].ops
         /\ PlaceOf(b).block < b
<1> DEFINE P == UNION {{[block |-> c, at |-> k] : k \in DOMAIN blocks[c].ops} : c \in BlocksIn(Root)}
           holds(d) == b \in BlocksOf(ops[blocks[d.block].ops[d.at]])
<1>1. \E d \in P : holds(d)
  <2>1. PICK u \in Reachable : b \in BlocksOf(ops[u])
    BY DEF BlocksIn, Reachable
  <2>2. PICK c \in BlocksIn(Root) : u \in ToSet(blocks[c].ops)
    BY ReachableAreOps
  <2>3. PICK k \in DOMAIN blocks[c].ops : blocks[c].ops[k] = u
    BY <2>2 DEF ToSet
  <2> DEFINE d == [block |-> c, at |-> k]
  <2>4. d \in P /\ d.block = c /\ d.at = k
    OBVIOUS
  <2>5. holds(d)
    BY <2>1, <2>3, <2>4
  <2> QED BY <2>4, <2>5
<1> DEFINE p == CHOOSE d \in P : holds(d)
<1>2. PlaceOf(b) = p
  BY DEF PlaceOf
<1>3. p \in P /\ holds(p)
  BY <1>1
<1>4. p.block \in BlocksIn(Root) /\ p.at \in DOMAIN blocks[p.block].ops
  <2> HIDE DEF p
  <2> QED BY <1>3
<1> HIDE DEF p, P
<1>5. blocks[p.block].ops[p.at] \in ToSet(blocks[p.block].ops)
  BY <1>4 DEF ToSet
<1>6. ListRight(p.block)
  BY <1>4, StillThere DEF Shaped
<1>7. b > p.block
  BY <1>3, <1>5, <1>6 DEF ListRight
<1>8. b \in Nat /\ p.block \in Nat
  <2>1. b \in DOMAIN blocks /\ p.block \in DOMAIN blocks
    BY <1>4, StillThere
  <2> QED BY <2>1 DEF Shaped
<1> QED BY <1>2, <1>4, <1>7, <1>8

LEMMA BeforeIs ==
  ASSUME Shaped, NEW c \in DOMAIN blocks, NEW k \in DOMAIN blocks[c].ops
  PROVE  Before(c, k) \in Seq(DOMAIN ops)
<1> DEFINE s == blocks[c].ops
           X == DOMAIN ops
<1>1. s \in Seq(Nat) /\ ToSet(s) \subseteq X
  <2>1. blocks[c] \in OptBlock /\ ListRight(c)
    BY DEF Shaped
  <2> QED BY <2>1, BlockFields DEF ListRight
<1>2. Before(c, k) = SubSeq(s, 1, k - 1)
  BY DEF Before
<1> HIDE DEF s, X
<1>3. k \in DOMAIN s
  BY DEF s
<1>4. s \in Seq(X)
  BY <1>1 DEF ToSet
<1>5. SubSeq(s, 1, k - 1) \in Seq(X)
  BY <1>3, <1>4
<1> QED BY <1>2, <1>5 DEF X

LEMMA OutsideInIs ==
  ASSUME Shaped, NEW us \in Seq(DOMAIN ops)
  PROVE  OutsideIn(us) \in Seq(DOMAIN ops)
<1> DEFINE X == DOMAIN ops
           tour == [d \in DOMAIN blocks |-> Tour(d, Itself, Nothing, NoEnd)]
           ss == [n \in DOMAIN us |-> <<us[n]>> \o Inner(ops[us[n]], tour)]
<1>1. NestsDown(blocks, ops)
  BY ShapedNests
<1>2. Collects(blocks, ops, X, Itself, Nothing, NoEnd)
  <2>1. \A u \in X : <<u>> \in Seq(X) /\ <<>> \in Seq(X)
    OBVIOUS
  <2> QED BY <2>1 DEF Collects, Itself, Nothing, NoEnd
<1>3. \A d \in DOMAIN blocks : tour[d] \in Seq(X)
  <2>1. PICK t \in [DOMAIN blocks -> Seq(X)] :
          \A d \in DOMAIN blocks : TourOf(blocks, ops, d, Itself, Nothing, NoEnd) = t[d]
    BY <1>1, <1>2, TourUnfolds
  <2>2. \A d : Tour(d, Itself, Nothing, NoEnd) = TourOf(blocks, ops, d, Itself, Nothing, NoEnd)
    BY DEF Tour, TourOf, Visit
  <2> QED BY <2>1, <2>2
<1> HIDE DEF tour
<1>4. ASSUME NEW n \in DOMAIN us
      PROVE  ss[n] \in Seq(X)
  <2>1. us[n] \in X
    OBVIOUS
  <2>2. BlocksOf(ops[us[n]]) \subseteq DOMAIN blocks
    BY <2>1 DEF Shaped, OpRight
  <2>3. Inner(ops[us[n]], tour) \in Seq(X)
    BY <1>3, <2>2, InnerIs
  <2> QED BY <2>1, <2>3
<1>5. ss \in Seq(Seq(X))
  <2> DEFINE Q == Seq(X)
  <2>1. \A n \in DOMAIN us : ss[n] \in Q
    BY <1>4
  <2>2. Len(us) \in Nat /\ DOMAIN us = 1 .. Len(us) /\ DOMAIN ss = DOMAIN us
    OBVIOUS
  <2>3. ss = [n \in 1 .. Len(us) |-> ss[n]]
    BY <2>2
  <2> HIDE DEF ss, Q
  <2>4. ss \in Seq(Q)
    BY <2>1, <2>2, <2>3
  <2> QED BY <2>4 DEF Q
<1>6. FlattenSeq(ss) \in Seq(X)
  <2> HIDE DEF ss, X
  <2> QED BY <1>5, Flattened
<1>7. OutsideIn(us) = FlattenSeq(ss)
  BY DEF OutsideIn, tour
<1> HIDE DEF ss, X
<1> QED BY <1>6, <1>7 DEF X

LEMMA SearchedIs ==
  ASSUME OptInv, todo # <<>>, NEW k \in DOMAIN List
  PROVE  Searched(k) \in Seq(DOMAIN ops)
<1> DEFINE D == BlocksIn(Root)
           X == DOMAIN ops
           S == Seq(X)
           N == Len(blocks)
           e(b, f) == IF b = Root THEN <<>>
                      ELSE Before(PlaceOf(b).block, PlaceOf(b).at) \o f[PlaceOf(b).block]
           rank == [b \in D |-> b]
           step == [bf \in D \X [D -> S] |-> e(bf[1], bf[2])]
           body(f) == [b \in D |-> e(b, f)]
           around == CHOOSE f : f = body(f)
<1>1. Shaped /\ Block \in D /\ D \subseteq DOMAIN blocks
  BY BlockIsThere, StillThere DEF OptInv
<1>2. N \in Nat /\ rank \in [D -> 0 .. N] /\ S # {}
  <2>1. N \in Nat /\ DOMAIN blocks = 1 .. N
    BY <1>1 DEF Shaped
  <2>2. \A b \in D : b \in 0 .. N
    BY <1>1, <2>1
  <2>3. <<>> \in S
    OBVIOUS
  <2> HIDE DEF D, N
  <2> QED BY <2>1, <2>2, <2>3
<1>3. ASSUME NEW b \in D, b # Root
      PROVE  /\ PlaceOf(b).block \in D /\ rank[PlaceOf(b).block] < rank[b]
             /\ Before(PlaceOf(b).block, PlaceOf(b).at) \in S
  <2>1. PlaceOf(b).block \in D /\ PlaceOf(b).block < b
        /\ PlaceOf(b).at \in DOMAIN blocks[PlaceOf(b).block].ops
    BY <1>1, <1>3, PlaceIs
  <2>2. Before(PlaceOf(b).block, PlaceOf(b).at) \in S
    BY <1>1, <2>1, BeforeIs
  <2> HIDE DEF D
  <2> QED BY <2>1, <2>2
<1>4. ASSUME NEW b \in D, NEW f \in [D -> S]
      PROVE  e(b, f) \in S
  <2>1. CASE b = Root
    BY <2>1
  <2>2. CASE b # Root
    <3>1. Before(PlaceOf(b).block, PlaceOf(b).at) \in Seq(X) /\ f[PlaceOf(b).block] \in Seq(X)
      BY <1>3, <2>2
    <3> HIDE DEF X
    <3> QED BY <2>2, <3>1
  <2> QED BY <2>1, <2>2
<1>5. step \in [D \X [D -> S] -> S] /\ \A b \in D : \A f \in [D -> S] : step[<<b, f>>] = e(b, f)
  <2> HIDE DEF e, D, S
  <2> QED BY <1>4
<1>6. ASSUME NEW b \in D, NEW f \in [D -> S], NEW g \in [D -> S],
             \A d \in D : rank[d] < rank[b] => f[d] = g[d]
      PROVE  e(b, f) = e(b, g)
  <2>1. b # Root => f[PlaceOf(b).block] = g[PlaceOf(b).block]
    BY <1>3, <1>6
  <2> QED BY <2>1
<1>7. PICK h : FixedPoint(D, S, step, h)
  <2>1. \A b \in D : \A f, g \in [D -> S] :
          (\A d \in D : rank[d] < rank[b] => f[d] = g[d]) => step[<<b, f>>] = step[<<b, g>>]
    <3> SUFFICES ASSUME NEW b \in D, NEW f \in [D -> S], NEW g \in [D -> S],
                        \A d \in D : rank[d] < rank[b] => f[d] = g[d]
                 PROVE  step[<<b, f>>] = step[<<b, g>>]
      OBVIOUS
    <3>1. e(b, f) = e(b, g)
      BY <1>6
    <3>2. step[<<b, f>>] = e(b, f) /\ step[<<b, g>>] = e(b, g)
      BY <1>5
    <3> QED BY <3>1, <3>2
  <2>2. Descends(D, S, N, rank, step)
    <3> HIDE DEF D, S, N, rank, step
    <3> QED BY <1>2, <1>5, <2>1 DEF Descends
  <2> HIDE DEF D, S, N, rank, step
  <2> QED BY <1>2, <2>2, RecursionExists
<1>8. h \in [D -> S] /\ \A b \in D : h[b] = e(b, h)
  <2> HIDE DEF D, S, step, e
  <2> QED BY <1>5, <1>7 DEF FixedPoint
<1>9. h = body(h)
  <2>1. h = [b \in D |-> h[b]]
    BY <1>8
  <2> HIDE DEF D, S, e
  <2> QED BY <1>8, <2>1
<1>10. around = body(around)
  <2>1. around = CHOOSE f : f = body(f)
    OBVIOUS
  <2> HIDE DEF body, around
  <2> QED BY <1>9, <2>1
<1>11. \A b \in D : around[b] = e(b, around)
  <2> HIDE DEF around, e, D
  <2> QED BY <1>10
<1>12. \A b \in 1 .. N : b \in D => around[b] \in S
  <2> DEFINE Fine == {b \in 1 .. N : b \in D => around[b] \in S}
  <2> HIDE DEF around
  <2>1. ASSUME NEW b \in 1 .. N, \A c \in 1 .. N : c < b => c \in Fine
        PROVE  b \in Fine
    <3>1. SUFFICES ASSUME b \in D PROVE around[b] \in S
      OBVIOUS
    <3>2. around[b] = e(b, around)
      BY <1>11, <3>1
    <3>3. CASE b = Root
      BY <3>2, <3>3
    <3>4. CASE b # Root
      <4> DEFINE c == PlaceOf(b).block
      <4>1. c \in D /\ rank[c] < rank[b] /\ Before(c, PlaceOf(b).at) \in S
        BY <1>3, <3>1, <3>4
      <4>2. c \in 1 .. N /\ c < b
        <5>1. DOMAIN blocks = 1 .. N
          BY <1>1 DEF Shaped
        <5> HIDE DEF D, c
        <5> QED BY <1>1, <3>1, <4>1, <5>1
      <4>3. around[c] \in Seq(X) /\ Before(c, PlaceOf(b).at) \in Seq(X)
        BY <2>1, <4>1, <4>2
      <4>4. around[b] = Before(c, PlaceOf(b).at) \o around[c]
        BY <3>2, <3>4
      <4> HIDE DEF c, X
      <4> QED BY <4>3, <4>4
    <3> QED BY <3>3, <3>4
  <2> HIDE DEF Fine, N
  <2>2. \A b \in 1 .. N : b \in Fine
    BY <1>2, <2>1, Upwards
  <2> QED BY <2>2 DEF Fine
<1>13. around[Block] \in S
  <2>1. Block \in 1 .. N
    BY <1>1 DEF Shaped
  <2> HIDE DEF around
  <2> QED BY <1>1, <1>12, <2>1
<1>14. OutsideIn(Before(Block, k)) \in S
  <2>1. k \in DOMAIN blocks[Block].ops /\ Block \in DOMAIN blocks
    BY <1>1 DEF List
  <2> QED BY <1>1, <2>1, BeforeIs, OutsideInIs
<1>15. Searched(k) = OutsideIn(Before(Block, k)) \o around[Block]
  BY DEF Searched
<1> HIDE DEF around, X
<1> QED BY <1>13, <1>14, <1>15 DEF X

-----------------------------------------------------------------------------
(* A computation that gives way to a copy.                                 *)

LEMMA JoinsComputations ==
  ASSUME OptInv, NEW u \in DOMAIN ops, NEW m \in DOMAIN ops, m # u, Pure(u), SameComputation(m, u)
  PROVE  ops[u].id \in ComputingId /\ Len(ops[u].outs) = 1 /\ ops[u].outs[1] \in Var
         /\ ops[m].outs[1] \in Var
<1>1. ops[u] \in SsaOp /\ ops[m] \in SsaOp /\ OpRight(u) /\ OpRight(m)
  BY DEF OptInv, Shaped
<1> DEFINE one == [ops[m] EXCEPT !.outs = <<>>]
           other == [ops[u] EXCEPT !.outs = <<>>]
<1>2. one = other /\ Len(ops[m].outs) = Len(ops[u].outs)
  BY DEF SameComputation
<1>3. /\ one.then = ops[m].then /\ one.els = ops[m].els /\ one.cond = ops[m].cond /\ one.do = ops[m].do
      /\ other.then = ops[u].then /\ other.els = ops[u].els /\ other.cond = ops[u].cond /\ other.do = ops[u].do
  BY <1>1 DEF SsaOp
<1> HIDE DEF one, other
<1>4. BlocksOf(ops[m]) = BlocksOf(ops[u])
  BY <1>2, <1>3 DEF BlocksOf
<1>5. BlocksOf(ops[u]) = {}
  BY <1>4 DEF OptInv, NestedApart
<1>6. ops[u].id \in SsaOpId /\ ops[u].id \notin ImpureId
  BY <1>1, OpFields DEF Pure
<1>7. ops[u].id \notin LoopId \cup {"IF"}
  BY <1>1, <1>5 DEF OpRight
<1>8. ops[u].id \in ComputingId
  BY <1>6, <1>7 DEF SsaOpId, PlainId, LoopId, ImpureId, ComputingId
<1>9. Len(ops[u].outs) = 1 /\ Len(ops[m].outs) = 1
  BY <1>1, <1>2, <1>8 DEF OpRight
<1>10. ops[u].outs \in Seq(Var) /\ ops[m].outs \in Seq(Var)
  BY <1>1, OpFields
<1> QED BY <1>8, <1>9, <1>10

LEMMA CopyIs ==
  ASSUME NEW v \in Var, NEW o \in Var
  PROVE  /\ CopyOf(v, o) \in SsaOp /\ CopyOf(v, o).id = "IMM" /\ CopyOf(v, o).outs = <<o>>
         /\ CopyOf(v, o).a = v /\ CopyOf(v, o).b = None /\ BlocksOf(CopyOf(v, o)) = {}
         /\ CopyOf(v, o).then = None /\ CopyOf(v, o).els = None
BY DEF CopyOf, MakeSsaOp, BlocksOf, SsaOp, SsaOpId, PlainId, Val

LEMMA JoinInv ==
  ASSUME OptInv, Join
  PROVE  OptInv'
<1>1. PICK k : k = Min(JoinableAhead)
  OBVIOUS
<1>2. PICK u : u = List[k]
  OBVIOUS
<1>3. PICK m : m = FirstMatch(k)
  OBVIOUS
<1>4. PICK new : new = Len(ops) + 1
  OBVIOUS
<1>5. PICK here : here = Block
  OBVIOUS
<1>6. PICK copy : copy = CopyOf(ops[m].outs[1], ops[u].outs[1])
  OBVIOUS
<1>7. /\ todo # <<>> /\ JoinableAhead # {} /\ UNCHANGED <<todo, decl, crashed>> /\ at' = k
      /\ m # u /\ ops' = Append(ops, copy)
      /\ blocks' = [blocks EXCEPT ![here].ops = Joined(@, k, new)]
  BY <1>1, <1>2, <1>3, <1>4, <1>5, <1>6 DEF Join, Running, Unchanged, OpAhead
<1>8. k \in JoinableAhead /\ k \in Nat /\ k \in DOMAIN List /\ u \in DOMAIN ops /\ u \in Reachable
  <2>1. JoinableAhead \in SUBSET Ahead
    BY DEF JoinableAhead
  <2> QED BY <1>1, <1>2, <1>7, <2>1, AheadAreOps
<1>9. Pure(u) /\ Matches(k) # {}
  BY <1>2, <1>8 DEF JoinableAhead
<1>10. m \in DOMAIN ops /\ SameComputation(m, u)
  <2>1. Searched(k) \in Seq(DOMAIN ops)
    BY <1>7, <1>8, SearchedIs
  <2>2. Matches(k) \in SUBSET (1 .. Len(Searched(k))) /\ Len(Searched(k)) \in Nat
        /\ DOMAIN Searched(k) = 1 .. Len(Searched(k))
    BY <2>1 DEF Matches
  <2>3. Min(Matches(k)) \in Matches(k)
    BY <1>9, <2>2, LeastIsIn
  <2>4. SameComputation(m, u)
    BY <1>2, <1>3, <2>3 DEF FirstMatch, Matches
  <2>5. m \in DOMAIN ops
    <3> DEFINE X == DOMAIN ops
    <3>1. Searched(k) \in Seq(X) /\ Min(Matches(k)) \in DOMAIN Searched(k)
      BY <2>1, <2>2, <2>3
    <3> HIDE DEF X
    <3>2. m \in X
      BY <1>3, <3>1 DEF FirstMatch
    <3> QED BY <3>2 DEF X
  <2> QED BY <2>4, <2>5
<1>11. /\ ops[u].id \in ComputingId /\ Len(ops[u].outs) = 1 /\ ops[u].outs[1] \in Var
       /\ ops[m].outs[1] \in Var
  BY <1>7, <1>8, <1>9, <1>10, JoinsComputations
<1>12. /\ copy \in SsaOp /\ copy.id = "IMM" /\ copy.outs = <<ops[u].outs[1]>> /\ copy.a \in Var
       /\ copy.b = None /\ BlocksOf(copy) = {} /\ copy.then = None /\ copy.els = None
  BY <1>6, <1>11, CopyIs
<1>13. /\ ops \in Seq(SsaOp) /\ blocks \in Seq(OptBlock) /\ \A w \in DOMAIN ops : OpRight(w)
       /\ Len(ops) \in Nat /\ DOMAIN ops = 1 .. Len(ops)
  BY DEF OptInv, Shaped
<1>14. /\ here \in DOMAIN blocks /\ here \in BlocksIn(Root)
       /\ List = blocks[here].ops /\ List \in Seq(Nat) /\ IsInjective(List)
  BY <1>5, <1>7, BlockIsThere, ListIs
<1>15. /\ ops' \in Seq(SsaOp) /\ DOMAIN ops' = DOMAIN ops \cup {new} /\ ops'[new] = copy
       /\ new \notin DOMAIN ops /\ \A w \in DOMAIN ops : ops'[w] = ops[w]
  <2> DEFINE M == SsaOp
  <2> HIDE DEF M
  <2>1. ops \in Seq(M) /\ copy \in M
    BY <1>12, <1>13 DEF M
  <2>2. ops' \in Seq(M) /\ Len(ops') = Len(ops) + 1 /\ DOMAIN ops' = 1 .. Len(ops) + 1
    BY <1>7, <2>1
  <2>3. ops'[Len(ops) + 1] = copy /\ \A w \in 1 .. Len(ops) : ops'[w] = ops[w]
    BY <1>7, <2>1
  <2> QED BY <1>4, <1>13, <2>2, <2>3 DEF M
<1> DEFINE list == [List EXCEPT ![k] = new]
<1>16. ToSet(List) \subseteq DOMAIN ops
  BY <1>13, <1>14 DEF OptInv, Shaped, ListRight
<1>17. /\ list \in Seq(Nat) /\ IsInjective(list) /\ ToSet(list) \subseteq (ToSet(List) \ {u}) \cup {new}
  <2>1. new \in Nat
    BY <1>4, <1>13
  <2>2. list \in Seq(Nat) /\ DOMAIN list = DOMAIN List
    BY <1>8, <1>14, <2>1
  <2>3. list[k] = new /\ \A j \in DOMAIN List : j # k => list[j] = List[j]
    BY <1>8, <1>14
  <2>4. \A j \in DOMAIN List : List[j] # new /\ (j # k => List[j] # u)
    <3> SUFFICES ASSUME NEW j \in DOMAIN List
                 PROVE  List[j] # new /\ (j # k => List[j] # u)
      OBVIOUS
    <3>1. List[j] \in DOMAIN ops
      BY <1>16 DEF ToSet
    <3>2. j # k => List[j] # u
      BY <1>2, <1>8, <1>14 DEF IsInjective
    <3> QED BY <1>15, <3>1, <3>2
  <2> HIDE DEF list
  <2>5. IsInjective(list)
    BY <1>14, <2>2, <2>3, <2>4 DEF IsInjective
  <2>6. ToSet(list) \subseteq (ToSet(List) \ {u}) \cup {new}
    BY <2>2, <2>3, <2>4 DEF ToSet
  <2> QED BY <2>2, <2>5, <2>6
<1>18. blocks' = [blocks EXCEPT ![here].ops = list]
  BY <1>7, <1>14 DEF Joined
<1> HIDE DEF list
<1>19. /\ blocks' \in Seq(OptBlock) /\ DOMAIN blocks' = DOMAIN blocks /\ blocks'[here].ops = list
       /\ \A b \in DOMAIN blocks :
            /\ blocks'[b].ins = blocks[b].ins /\ blocks'[b].outs = blocks[b].outs
            /\ b # here => blocks'[b].ops = blocks[b].ops
  <2> DEFINE block == [blocks[here] EXCEPT !.ops = list]
  <2>1. blocks[here] \in OptBlock
    BY <1>13, <1>14
  <2>2. /\ block \in OptBlock /\ block.ops = list /\ block.ins = blocks[here].ins
        /\ block.outs = blocks[here].outs
    BY <1>17, <2>1 DEF OptBlock
  <2>3. blocks' = [blocks EXCEPT ![here] = block]
    BY <1>18
  <2> HIDE DEF block
  <2> DEFINE Q == OptBlock
  <2>4. blocks \in Seq(Q) /\ block \in Q
    BY <1>13, <2>2
  <2> HIDE DEF Q
  <2>5. blocks' \in Seq(Q) /\ DOMAIN blocks' = DOMAIN blocks
    BY <1>14, <2>3, <2>4
  <2>6. blocks'[here] = block /\ \A b \in DOMAIN blocks : b # here => blocks'[b] = blocks[b]
    BY <1>14, <2>3, <2>4
  <2> QED BY <2>2, <2>5, <2>6 DEF Q
<1>20. Stepping({new})
  <2>1. ToSet(List) \subseteq ToSet(Deep(here))
    <3>1. DOMAIN ops \subseteq Nat /\ NestsDown(blocks, ops)
      BY ShapedNests DEF OptInv
    <3> QED BY <1>14, <3>1, UnderIs, InsideIs
  <2>2. ToSet(blocks'[here].ops) \subseteq ToSet(Deep(here)) \cup {new}
    BY <1>17, <1>19, <2>1
  <2>3. /\ \A w \in DOMAIN ops : BlocksOf(ops'[w]) = BlocksOf(ops[w])
        /\ BlocksOf(ops'[new]) = {}
    BY <1>12, <1>15
  <2> QED BY <1>5, <1>7, <1>15, <1>17, <1>19, <2>2, <2>3 DEF Stepping
<1>21. ASSUME NEW w \in DOMAIN ops'
       PROVE  OpRight(w)'
  <2>1. CASE w = new
    <3>1. ops'[w] = copy
      BY <1>15, <2>1
    <3>2. Len(copy.outs) = 1
      BY <1>12
    <3>3. copy.a \in Val /\ copy.b \notin Val
      BY <1>12, LlirAssumption DEF Val, Imm
    <3> QED BY <1>12, <3>1, <3>2, <3>3 DEF OpRight, ComputingId, LoopId
  <2>2. CASE w # new
    <3>1. w \in DOMAIN ops /\ ops'[w] = ops[w]
      BY <1>15, <2>2
    <3>2. OpRight(w)
      BY <1>13, <3>1
    <3>3. \A c \in {ops[w].then, ops[w].els} \ {None} : c \in DOMAIN blocks
      BY <3>2 DEF OpRight, BlocksOf
    <3> QED BY <1>19, <3>1, <3>2, <3>3 DEF OpRight
  <2> QED BY <2>1, <2>2
<1>22. Shaped'
  BY <1>20, <1>21, ShapedStays
<1>23. Tables'
  BY <1>7, <1>8, <1>20, TablesStay DEF OptInv, Tables
<1>24. /\ Pending' /\ NestedApart' /\ Reachable' \subseteq Reachable \cup {new}
       /\ BlocksIn(Root)' \subseteq BlocksIn(Root)
  BY <1>20, StepKeeps
<1>25. \A b \in BlocksIn(Root) : ToSet(blocks[b].ops) \subseteq DOMAIN ops /\ b \in DOMAIN blocks
  BY StillThere, ReachableAreOps DEF OptInv
<1>26. ASSUME NEW b \in BlocksIn(Root), NEW w \in ToSet(blocks'[b].ops)
       PROVE  /\ w # u
              /\ IF w = new THEN b = here ELSE w \in ToSet(blocks[b].ops)
  <2>1. CASE b = here
    BY <1>8, <1>14, <1>15, <1>17, <1>19, <2>1
  <2>2. CASE b # here
    <3>1. w \in ToSet(blocks[b].ops)
      BY <1>19, <1>25, <2>2
    <3>2. w # new
      BY <1>15, <1>25, <3>1
    <3>3. w # u
      <4>1. u \in ToSet(blocks[here].ops)
        BY <1>2, <1>8, <1>14 DEF ToSet
      <4> QED BY <1>14, <2>2, <3>1, <4>1 DEF OptInv, ListsApart
    <3> QED BY <3>1, <3>2, <3>3
  <2> QED BY <2>1, <2>2
<1>27. ListsApart'
  <2> SUFFICES ASSUME NEW b \in BlocksIn(Root)', NEW c \in BlocksIn(Root)',
                      ToSet(blocks'[b].ops) \cap ToSet(blocks'[c].ops) # {}
               PROVE  b = c
    BY DEF ListsApart
  <2>1. PICK w : w \in ToSet(blocks'[b].ops) /\ w \in ToSet(blocks'[c].ops)
    OBVIOUS
  <2>2. b \in BlocksIn(Root) /\ c \in BlocksIn(Root)
    BY <1>24
  <2>3. CASE w = new
    BY <1>26, <2>1, <2>2, <2>3
  <2>4. CASE w # new
    <3>1. w \in ToSet(blocks[b].ops) /\ w \in ToSet(blocks[c].ops)
      BY <1>26, <2>1, <2>2, <2>4
    <3> QED BY <2>2, <3>1 DEF OptInv, ListsApart
  <2> QED BY <2>3, <2>4
<1>28. ASSUME NEW w \in Reachable'
       PROVE  w # u /\ (w # new => w \in Reachable)
  <2>1. Follows(blocks, ops, blocks', ops', {new})
    BY <1>20, SteppingFollows
  <2>2. NestsDown(blocks', ops') /\ DOMAIN ops' \subseteq Nat
    <3>1. NestsDown(blocks', ops')
      BY <2>1, StillNestsDown
    <3> QED BY <2>1, <3>1 DEF Follows
  <2>3. Root \in DOMAIN blocks'
    BY <1>19 DEF OptInv, Shaped
  <2>4. \E c \in BlocksIn(Root)' : w \in ToSet(blocks'[c].ops)
    BY <2>2, <2>3, HeldSomewhere, InsideIsNext
  <2>5. PICK c \in BlocksIn(Root) : w \in ToSet(blocks'[c].ops)
    BY <1>24, <2>4
  <2> QED BY <1>24, <1>26, <2>5
<1> DEFINE old(w) == IF w = new THEN u ELSE w
<1>29. ASSUME NEW w \in Reachable'
       PROVE  old(w) \in Reachable /\ ToSet(ops'[w].outs) = ToSet(ops[old(w)].outs)
  <2>1. CASE w = new
    <3>1. ops[u].outs = <<ops[u].outs[1]>>
      <4>1. ops[u].outs \in Seq(Var)
        BY <1>8, <1>13, OpFields
      <4> QED BY <1>11, <4>1
    <3>2. ops'[w].outs = ops[u].outs
      BY <1>12, <1>15, <2>1, <3>1
    <3> QED BY <1>8, <2>1, <3>2
  <2>2. CASE w # new
    <3>1. w \in Reachable /\ w \in DOMAIN ops
      BY <1>28, <2>2, ReachableAreOps DEF OptInv
    <3> QED BY <1>15, <2>2, <3>1
  <2> QED BY <2>1, <2>2
<1>30. \A w, x \in Reachable' : old(w) = old(x) => w = x
  BY <1>28
<1> HIDE DEF old
<1>31. \A b \in BlocksIn(Root)' : b \in BlocksIn(Root) /\ blocks'[b].ins = blocks[b].ins
  BY <1>19, <1>24, <1>25
<1>32. Single'
  <2>1. ASSUME NEW w \in Reachable', NEW x \in Reachable', ToSet(ops'[w].outs) \cap ToSet(ops'[x].outs) # {}
        PROVE  w = x
    <3>1. ToSet(ops[old(w)].outs) \cap ToSet(ops[old(x)].outs) # {} /\ old(w) \in Reachable /\ old(x) \in Reachable
      BY <1>29, <2>1
    <3>2. old(w) = old(x)
      BY <3>1 DEF OptInv, Single
    <3> QED BY <1>30, <3>2
  <2>2. ASSUME NEW b \in BlocksIn(Root)', NEW c \in BlocksIn(Root)',
               ToSet(blocks'[b].ins) \cap ToSet(blocks'[c].ins) # {}
        PROVE  b = c
    BY <1>31, <2>2 DEF OptInv, Single
  <2>3. ASSUME NEW b \in BlocksIn(Root)', NEW w \in Reachable'
        PROVE  ToSet(blocks'[b].ins) \cap ToSet(ops'[w].outs) = {}
    <3>1. ToSet(blocks[b].ins) \cap ToSet(ops[old(w)].outs) = {}
      BY <1>29, <1>31 DEF OptInv, Single
    <3> QED BY <1>29, <1>31, <3>1
  <2> QED BY <2>1, <2>2, <2>3 DEF Single
<1> QED BY <1>22, <1>23, <1>24, <1>27, <1>32 DEF OptInv

-----------------------------------------------------------------------------
(* A branch takes the place of its IF.                                     *)

RenameTo(old, new, v) ==
  IF v \in ToSet(old) THEN new[Min({n \in DOMAIN old : old[n] = v})] ELSE v

AllTo(old, new, s) == [n \in DOMAIN s |-> RenameTo(old, new, s[n])]

RenamedOp(old, new, op) ==
  [op EXCEPT !.outs = AllTo(old, new, @), !.a = RenameTo(old, new, @),
             !.b = RenameTo(old, new, @), !.args = AllTo(old, new, @)]

RenamedBlock(old, new, block) ==
  [block EXCEPT !.ins = AllTo(old, new, @), !.outs = AllTo(old, new, @)]

(* The IF is u, in place k of block here. *)
SplicedAs(here, k, u, branch, old, new) ==
  /\ blocks' = [[b \in DOMAIN blocks |->
                  IF b \notin BlocksIn(here) THEN blocks[b] ELSE RenamedBlock(old, new, blocks[b])]
         EXCEPT ![here].ops = InPlaceOf(@, k, blocks[branch].ops)]
  /\ ops' = [w \in DOMAIN ops |->
       IF w \notin ToSet(Deep(here)) THEN ops[w] ELSE RenamedOp(old, new, ops[w])]
  /\ decl' = [v \in Var |->
       IF v \in ToSet(old) THEN 0
       ELSE IF v \in ToSet(new) /\ decl[v] = 0 THEN u ELSE decl[v]]

LEMMA SplicedIs ==
  ASSUME NEW branch, NEW k, Spliced(branch, k)
  PROVE  SplicedAs(Block, k, List[k], branch, OpAhead(k).outs, blocks[branch].outs)
<1>1. blocks' = [[b \in DOMAIN blocks |->
                  IF b \notin BlocksIn(Block) THEN blocks[b]
                  ELSE RenamedBlock(OpAhead(k).outs, blocks[branch].outs, blocks[b])]
         EXCEPT ![Block].ops = InPlaceOf(@, k, blocks[branch].ops)]
  BY DEF Spliced, RenamedBlock, AllTo, RenameTo, InPlaceOf
<1>2. ops' = [w \in DOMAIN ops |->
       IF w \notin ToSet(Deep(Block)) THEN ops[w]
       ELSE RenamedOp(OpAhead(k).outs, blocks[branch].outs, ops[w])]
  BY DEF Spliced, RenamedOp, AllTo, RenameTo
<1>3. decl' = [v \in Var |->
       IF v \in ToSet(OpAhead(k).outs) THEN 0
       ELSE IF v \in ToSet(blocks[branch].outs) /\ decl[v] = 0 THEN List[k] ELSE decl[v]]
  BY DEF Spliced
<1> QED BY <1>1, <1>2, <1>3 DEF SplicedAs

LEMMA Renamed ==
  ASSUME NEW old \in Seq(Var), NEW new \in Seq(Var), Len(old) = Len(new)
  PROVE  /\ \A v \in ToSet(old) : v \in Var /\ RenameTo(old, new, v) \in Var
         /\ \A x : x \notin ToSet(old) => RenameTo(old, new, x) = x
<1>1. Len(old) \in Nat /\ DOMAIN old = 1 .. Len(old) /\ DOMAIN new = 1 .. Len(old)
  OBVIOUS
<1>2. ASSUME NEW v \in ToSet(old)
      PROVE  v \in Var /\ RenameTo(old, new, v) \in Var
  <2> DEFINE S == {n \in DOMAIN old : old[n] = v}
  <2>1. S # {} /\ S \in SUBSET (1 .. Len(old)) /\ v \in Var
    BY <1>1 DEF ToSet
  <2>2. Min(S) \in S
    <3> HIDE DEF S
    <3> QED BY <1>1, <2>1, LeastIsIn
  <2>3. RenameTo(old, new, v) = new[Min(S)]
    BY DEF RenameTo
  <2>4. Min(S) \in 1 .. Len(new)
    BY <1>1, <2>1, <2>2
  <2> HIDE DEF S
  <2> QED BY <2>1, <2>3, <2>4
<1> QED BY <1>2 DEF RenameTo

LEMMA RenamedAll ==
  ASSUME NEW old \in Seq(Var), NEW new \in Seq(Var), Len(old) = Len(new),
         NEW X, Var \subseteq X, NEW s \in Seq(X)
  PROVE  /\ AllTo(old, new, s) \in Seq(X) /\ Len(AllTo(old, new, s)) = Len(s)
         /\ ToSet(s) \cap ToSet(old) = {} => AllTo(old, new, s) = s
<1>1. Len(s) \in Nat /\ DOMAIN s = 1 .. Len(s)
  OBVIOUS
<1> DEFINE t == AllTo(old, new, s)
<1>2. t = [n \in 1 .. Len(s) |-> RenameTo(old, new, s[n])]
  BY <1>1 DEF AllTo
<1>3. \A n \in 1 .. Len(s) : RenameTo(old, new, s[n]) \in X
  <2> SUFFICES ASSUME NEW n \in 1 .. Len(s) PROVE RenameTo(old, new, s[n]) \in X
    OBVIOUS
  <2>1. s[n] \in X
    OBVIOUS
  <2>2. s[n] \in ToSet(old) => RenameTo(old, new, s[n]) \in Var
    BY Renamed
  <2>3. s[n] \notin ToSet(old) => RenameTo(old, new, s[n]) = s[n]
    BY Renamed
  <2> QED BY <2>1, <2>2, <2>3
<1> HIDE DEF t
<1>4. t \in Seq(X) /\ Len(t) = Len(s)
  BY <1>1, <1>2, <1>3
<1>5. ASSUME ToSet(s) \cap ToSet(old) = {}
      PROVE  t = s
  <2>1. \A n \in 1 .. Len(s) : s[n] \notin ToSet(old)
    BY <1>1, <1>5 DEF ToSet
  <2>2. \A n \in 1 .. Len(s) : RenameTo(old, new, s[n]) = s[n]
    BY <2>1, Renamed
  <2>3. s = [n \in 1 .. Len(s) |-> s[n]]
    BY <1>1
  <2> QED BY <1>2, <2>2, <2>3
<1> QED BY <1>4, <1>5 DEF t

LEMMA RenamedRight ==
  ASSUME NEW old \in Seq(Var), NEW new \in Seq(Var), Len(old) = Len(new), NEW op \in SsaOp
  PROVE  /\ SameKind(op, RenamedOp(old, new, op))
         /\ ToSet(op.outs) \cap ToSet(old) = {} => RenamedOp(old, new, op).outs = op.outs
<1> DEFINE renamed == RenamedOp(old, new, op)
           outs == AllTo(old, new, op.outs)
           args == AllTo(old, new, op.args)
           a == RenameTo(old, new, op.a)
           b == RenameTo(old, new, op.b)
<1>1. /\ outs \in Seq(Var) /\ Len(outs) = Len(op.outs)
      /\ ToSet(op.outs) \cap ToSet(old) = {} => outs = op.outs
  <2>1. op.outs \in Seq(Var)
    BY OpFields
  <2> QED BY <2>1, RenamedAll
<1>2. args \in Seq(Val)
  <2>1. Var \subseteq Val
    BY DEF Val
  <2> QED BY <2>1, OpFields, RenamedAll
<1>3. \A x \in Val \cup {None} :
        /\ RenameTo(old, new, x) \in Val \cup {None}
        /\ RenameTo(old, new, x) \in Val <=> x \in Val
  <2> SUFFICES ASSUME NEW x \in Val \cup {None}
               PROVE  /\ RenameTo(old, new, x) \in Val \cup {None}
                      /\ RenameTo(old, new, x) \in Val <=> x \in Val
    OBVIOUS
  <2>1. CASE x \in ToSet(old)
    BY <2>1, Renamed DEF Val
  <2>2. CASE x \notin ToSet(old)
    <3>1. RenameTo(old, new, x) = x
      BY <2>2, Renamed
    <3> QED BY <3>1
  <2> QED BY <2>1, <2>2
<1>4. a \in Val \cup {None} /\ b \in Val \cup {None} /\ (a \in Val <=> op.a \in Val) /\ (b \in Val <=> op.b \in Val)
  <2>1. op.a \in Val \cup {None} /\ op.b \in Val \cup {None}
    BY OpFields
  <2>2. a \in Val \cup {None} /\ (a \in Val <=> op.a \in Val)
    BY <1>3, <2>1
  <2>3. b \in Val \cup {None} /\ (b \in Val <=> op.b \in Val)
    BY <1>3, <2>1
  <2> QED BY <2>2, <2>3
<1>5. renamed = [op EXCEPT !.outs = outs, !.a = a, !.b = b, !.args = args]
  BY DEF RenamedOp
<1> HIDE DEF renamed, outs, args, a, b
<1>6. /\ renamed.id = op.id /\ renamed.outs = outs /\ renamed.a = a /\ renamed.b = b
      /\ renamed.then = op.then /\ renamed.els = op.els /\ renamed.cond = op.cond /\ renamed.do = op.do
  BY <1>5 DEF SsaOp
<1>7. renamed \in SsaOp
  BY <1>1, <1>2, <1>4, <1>5 DEF SsaOp
<1>8. SameKind(op, renamed)
  BY <1>1, <1>4, <1>6, <1>7 DEF SameKind, BlocksOf
<1> QED BY <1>1, <1>6, <1>8 DEF renamed

LEMMA SplicedInv ==
  ASSUME OptInv, todo # <<>>, UNCHANGED <<todo, crashed>>, at' \in Nat, IfsAhead # {},
         NEW k, k = Min(IfsAhead), NEW branch, branch \in {If.then, If.els} \ {None},
         Spliced(branch, k)
  PROVE  OptInv'
<1>1. PICK u : u = List[k]
  OBVIOUS
<1>2. PICK here : here = Block
  OBVIOUS
<1>3. PICK old : old = ops[u].outs
  OBVIOUS
<1>4. PICK new : new = blocks[branch].outs
  OBVIOUS
<1>5. k \in IfsAhead /\ k \in DOMAIN List /\ u \in DOMAIN ops /\ u \in Reachable /\ u \in ToSet(List)
  <2>1. IfsAhead \in SUBSET Ahead
    BY DEF IfsAhead
  <2> QED BY <1>1, <2>1, AheadAreOps
<1>6. If = ops[u] /\ ops[u].id = "IF"
  BY <1>1, <1>5 DEF IfsAhead, OpAhead, If
<1>7. /\ ops \in Seq(SsaOp) /\ blocks \in Seq(OptBlock) /\ \A w \in DOMAIN ops : OpRight(w)
  BY DEF OptInv, Shaped
<1>8. /\ here \in DOMAIN blocks /\ here \in BlocksIn(Root) /\ here \in Nat
      /\ List = blocks[here].ops /\ List \in Seq(Nat) /\ IsInjective(List)
  BY <1>2, <1>7, BlockIsThere, ListIs
<1>9. branch \in BlocksOf(ops[u]) /\ branch \in BlocksIn(Root) /\ branch \in DOMAIN blocks
  <2>1. branch \in BlocksOf(ops[u])
    BY <1>6 DEF BlocksOf
  <2> QED BY <1>5, <1>7, <2>1, ReachableAreOps DEF OptInv, OpRight
<1>10. branch > here /\ branch # Root /\ branch # here
  <2>1. ListRight(here)
    BY <1>8 DEF OptInv, Shaped
  <2>2. branch > here
    BY <1>5, <1>8, <1>9, <2>1 DEF ListRight
  <2>3. here \in 1 .. Len(blocks) /\ branch \in 1 .. Len(blocks) /\ Len(blocks) \in Nat
    BY <1>7, <1>8, <1>9
  <2> QED BY <2>2, <2>3 DEF Root
<1>11. old \in Seq(Var) /\ new \in Seq(Var) /\ Len(old) = Len(new)
  <2>1. ops[u] \in SsaOp /\ blocks[branch] \in OptBlock
    BY <1>5, <1>7, <1>9
  <2>2. Len(blocks[branch].outs) = Len(ops[u].outs)
    BY <1>5, <1>6, <1>7 DEF OpRight
  <2> QED BY <1>3, <1>4, <2>1, <2>2, OpFields, BlockFields
<1> DEFINE names(b) == IF b \notin BlocksIn(here) THEN blocks[b] ELSE RenamedBlock(old, new, blocks[b])
           list == InPlaceOf(List, k, blocks[branch].ops)
<1>12. /\ blocks' = [[b \in DOMAIN blocks |-> names(b)]
                        EXCEPT ![here].ops = InPlaceOf(@, k, blocks[branch].ops)]
       /\ ops' = [w \in DOMAIN ops |->
            IF w \notin ToSet(Deep(here)) THEN ops[w] ELSE RenamedOp(old, new, ops[w])]
       /\ decl' = [v \in Var |->
             IF v \in ToSet(old) THEN 0
             ELSE IF v \in ToSet(new) /\ decl[v] = 0 THEN u ELSE decl[v]]
  <2>1. OpAhead(k) = ops[u]
    BY <1>1 DEF OpAhead
  <2>2. SplicedAs(here, k, u, branch, old, new)
    BY <1>1, <1>2, <1>3, <1>4, <2>1, SplicedIs
  <2> QED BY <2>2 DEF SplicedAs
<1>13. ASSUME NEW b \in DOMAIN blocks
       PROVE  /\ names(b) \in OptBlock /\ names(b).ops = blocks[b].ops
              /\ Len(names(b).outs) = Len(blocks[b].outs)
              /\ ToSet(blocks[b].ins) \cap ToSet(old) = {} => names(b).ins = blocks[b].ins
  <2>1. blocks[b] \in OptBlock
    BY <1>7
  <2>2. CASE b \notin BlocksIn(here)
    BY <2>1, <2>2
  <2>3. CASE b \in BlocksIn(here)
    <3> DEFINE ins == AllTo(old, new, blocks[b].ins)
               outs == AllTo(old, new, blocks[b].outs)
    <3>1. /\ ins \in Seq(Var) /\ outs \in Seq(Var) /\ Len(outs) = Len(blocks[b].outs)
          /\ ToSet(blocks[b].ins) \cap ToSet(old) = {} => ins = blocks[b].ins
      <4>1. blocks[b].ins \in Seq(Var) /\ blocks[b].outs \in Seq(Var)
        BY <2>1, BlockFields
      <4>2. \A s \in Seq(Var) :
              /\ AllTo(old, new, s) \in Seq(Var) /\ Len(AllTo(old, new, s)) = Len(s)
              /\ ToSet(s) \cap ToSet(old) = {} => AllTo(old, new, s) = s
        <5> SUFFICES ASSUME NEW s \in Seq(Var)
                     PROVE  /\ AllTo(old, new, s) \in Seq(Var) /\ Len(AllTo(old, new, s)) = Len(s)
                            /\ ToSet(s) \cap ToSet(old) = {} => AllTo(old, new, s) = s
          OBVIOUS
        <5>1. Var \subseteq Var
          OBVIOUS
        <5> QED BY <1>11, <5>1, RenamedAll
      <4> QED BY <4>1, <4>2
    <3>2. names(b) = [blocks[b] EXCEPT !.ins = ins, !.outs = outs]
      BY <2>3 DEF RenamedBlock
    <3> HIDE DEF ins, outs, names
    <3> QED BY <2>1, <3>1, <3>2 DEF OptBlock
  <2> QED BY <2>2, <2>3
<1> HIDE DEF names
<1>14. /\ list \in Seq(Nat) /\ IsInjective(list)
       /\ ToSet(list) = (ToSet(List) \ {u}) \cup ToSet(blocks[branch].ops)
  <2>1. blocks[branch].ops \in Seq(Nat) /\ IsInjective(blocks[branch].ops)
    <3>1. blocks[branch] \in OptBlock /\ ListRight(branch)
      BY <1>9 DEF OptInv, Shaped
    <3> QED BY <3>1, BlockFields DEF ListRight
  <2>2. ToSet(List) \cap ToSet(blocks[branch].ops) = {}
    BY <1>8, <1>9, <1>10 DEF OptInv, ListsApart
  <2> QED BY <1>1, <1>5, <1>8, <2>1, <2>2, ListReplaced
<1>15. blocks' = [[b \in DOMAIN blocks |-> names(b)] EXCEPT ![here].ops = list]
  <2>1. names(here).ops = List
    BY <1>8, <1>13
  <2> QED BY <1>8, <1>12, <2>1
<1> HIDE DEF list
<1>16. /\ blocks' \in Seq(OptBlock) /\ DOMAIN blocks' = DOMAIN blocks /\ blocks'[here].ops = list
       /\ \A b \in DOMAIN blocks :
            /\ Len(blocks'[b].outs) = Len(blocks[b].outs)
            /\ ToSet(blocks[b].ins) \cap ToSet(old) = {} => blocks'[b].ins = blocks[b].ins
            /\ b # here => blocks'[b].ops = blocks[b].ops
  <2> DEFINE block == [names(here) EXCEPT !.ops = list]
  <2>1. /\ block \in OptBlock /\ block.ops = list /\ block.ins = names(here).ins
        /\ block.outs = names(here).outs
    BY <1>8, <1>13, <1>14 DEF OptBlock
  <2> HIDE DEF block
  <2>2. blocks' = [[b \in DOMAIN blocks |-> names(b)] EXCEPT ![here] = block]
    BY <1>8, <1>15 DEF block
  <2>3. /\ DOMAIN blocks' = DOMAIN blocks /\ blocks'[here] = block
        /\ \A b \in DOMAIN blocks : b # here => blocks'[b] = names(b)
    BY <1>8, <2>2
  <2>4. Len(blocks) \in Nat /\ DOMAIN blocks = 1 .. Len(blocks)
    BY <1>7
  <2> DEFINE Q == OptBlock
  <2>5. \A b \in 1 .. Len(blocks) : blocks'[b] \in Q
    BY <1>13, <2>1, <2>3, <2>4
  <2>6. blocks' = [b \in 1 .. Len(blocks) |-> blocks'[b]]
    BY <2>2, <2>4
  <2> HIDE DEF Q
  <2>7. blocks' \in Seq(Q)
    BY <2>4, <2>5, <2>6
  <2> QED BY <1>13, <2>1, <2>3, <2>7 DEF Q
<1>17. ASSUME NEW w \in DOMAIN ops
       PROVE  /\ SameKind(ops[w], ops'[w])
              /\ ToSet(ops[w].outs) \cap ToSet(old) = {} => ops'[w].outs = ops[w].outs
  <2>1. ops[w] \in SsaOp
    BY <1>7
  <2>2. CASE w \notin ToSet(Deep(here))
    <3>1. ops'[w] = ops[w]
      BY <1>12, <2>2
    <3> QED BY <2>1, <3>1, SameKindItself
  <2>3. CASE w \in ToSet(Deep(here))
    <3>1. ops'[w] = RenamedOp(old, new, ops[w])
      BY <1>12, <2>3
    <3> QED BY <1>11, <2>1, <3>1, RenamedRight
  <2> QED BY <2>2, <2>3
<1>18. ops' \in Seq(SsaOp) /\ DOMAIN ops' = DOMAIN ops
  <2>1. Len(ops) \in Nat /\ DOMAIN ops = 1 .. Len(ops)
    BY <1>7
  <2>2. DOMAIN ops' = DOMAIN ops /\ ops' = [w \in 1 .. Len(ops) |-> ops'[w]]
    BY <1>12, <2>1
  <2> DEFINE M == SsaOp
  <2>3. \A w \in 1 .. Len(ops) : ops'[w] \in M
    BY <1>17, <2>1 DEF SameKind
  <2> HIDE DEF M
  <2>4. ops' \in Seq(M)
    BY <2>1, <2>2, <2>3
  <2> QED BY <2>2, <2>4 DEF M
<1>19. Stepping({})
  <2>1. DOMAIN ops \subseteq Nat /\ NestsDown(blocks, ops)
    BY ShapedNests DEF OptInv
  <2>2. ToSet(List) \subseteq ToSet(Deep(here)) /\ ToSet(blocks[branch].ops) \subseteq ToSet(Deep(here))
    <3>1. ToSet(List) \subseteq UnderOf(blocks, ops, here)
      BY <1>8, <2>1, UnderIs
    <3>2. UnderOf(blocks, ops, branch) \subseteq UnderOf(blocks, ops, here)
      BY <1>5, <1>8, <1>9, <2>1, UnderIs
    <3>3. ToSet(blocks[branch].ops) \subseteq UnderOf(blocks, ops, branch)
      BY <1>9, <2>1, UnderIs
    <3> QED BY <3>1, <3>2, <3>3, InsideIs
  <2>3. ToSet(blocks'[here].ops) \subseteq ToSet(Deep(here))
    BY <1>14, <1>16, <2>2
  <2>4. \A w \in DOMAIN ops : BlocksOf(ops'[w]) = BlocksOf(ops[w])
    BY <1>17 DEF SameKind
  <2> QED BY <1>2, <1>14, <1>16, <1>18, <2>3, <2>4 DEF Stepping
<1>20. Shaped'
  <2>1. ASSUME NEW w \in DOMAIN ops
        PROVE  OpRight(w)'
    BY <1>7, <1>16, <1>17, RightStays
  <2> QED BY <1>18, <1>19, <2>1, ShapedStays
<1>21. Tables'
  <2>1. \A v \in Var : decl[v] \in DOMAIN ops \cup {0}
    BY DEF OptInv, Tables
  <2>2. decl' \in [Var -> DOMAIN ops \cup {0}]
    BY <1>5, <1>12, <2>1
  <2> QED BY <1>19, <2>2, TablesStay DEF OptInv, Tables
<1>22. /\ Pending' /\ NestedApart' /\ Reachable' \subseteq Reachable
       /\ BlocksIn(Root)' \subseteq BlocksIn(Root)
  BY <1>19, StepKeeps
<1>23. NestsDown(blocks', ops') /\ DOMAIN ops' \subseteq Nat /\ Root \in DOMAIN blocks'
  <2>1. Follows(blocks, ops, blocks', ops', {})
    BY <1>19, SteppingFollows
  <2>2. NestsDown(blocks', ops')
    BY <2>1, StillNestsDown
  <2> QED BY <1>16, <1>18, <2>2, ShapedNests DEF OptInv, Shaped
<1>24. u \notin Reachable'
  <2> SUFFICES ASSUME u \in Reachable' PROVE FALSE
    OBVIOUS
  <2>1. \E c \in BlocksIn(Root)' : u \in ToSet(blocks'[c].ops)
    BY <1>23, HeldSomewhere, InsideIsNext
  <2>2. PICK c \in BlocksIn(Root) : u \in ToSet(blocks'[c].ops)
    BY <1>22, <2>1
  <2>3. CASE c = here
    <3>1. u \in ToSet(blocks[branch].ops)
      BY <1>14, <1>16, <2>2, <2>3
    <3> QED BY <1>5, <1>8, <1>9, <1>10, <3>1 DEF OptInv, ListsApart
  <2>4. CASE c # here
    <3>1. u \in ToSet(blocks[c].ops)
      BY <1>16, <2>2, <2>4, StillThere DEF OptInv
    <3> QED BY <1>5, <1>8, <2>4, <3>1 DEF OptInv, ListsApart
  <2> QED BY <2>3, <2>4
<1>25. branch \notin BlocksIn(Root)'
  <2> SUFFICES ASSUME branch \in BlocksIn(Root)' PROVE FALSE
    OBVIOUS
  <2>1. branch \in InOf(blocks', ops', Root)
    BY InsideIsNext
  <2>2. PICK w \in UnderOf(blocks', ops', Root) : branch \in BlocksOf(ops'[w])
    BY <1>10, <2>1 DEF InOf
  <2>3. w \in Reachable' /\ w \in DOMAIN ops
    <3>1. w \in Reachable'
      BY <2>2, InsideIsNext
    <3> QED BY <1>22, <3>1, ReachableAreOps DEF OptInv
  <2>4. branch \in BlocksOf(ops[w])
    BY <1>17, <2>2, <2>3 DEF SameKind
  <2>5. w = u
    BY <1>5, <1>9, <2>3, <2>4 DEF OptInv, NestedApart
  <2> QED BY <1>24, <2>3, <2>5
<1>26. \A b \in BlocksIn(Root)' : b \in BlocksIn(Root) /\ b \in DOMAIN blocks
  BY <1>22, StillThere DEF OptInv
<1>27. ListsApart'
  <2>1. \A b \in BlocksIn(Root)' : b # here => blocks'[b].ops = blocks[b].ops
    BY <1>16, <1>26
  <2>2. ASSUME NEW c \in BlocksIn(Root)', c # here
        PROVE  ToSet(blocks'[here].ops) \cap ToSet(blocks'[c].ops) = {}
    <3>1. ToSet(blocks[here].ops) \cap ToSet(blocks[c].ops) = {}
      BY <1>8, <1>26, <2>2 DEF OptInv, ListsApart
    <3>2. ToSet(blocks[branch].ops) \cap ToSet(blocks[c].ops) = {}
      BY <1>9, <1>25, <1>26 DEF OptInv, ListsApart
    <3>3. blocks'[c].ops = blocks[c].ops
      BY <2>1, <2>2
    <3> QED BY <1>8, <1>14, <1>16, <3>1, <3>2, <3>3
  <2>3. SUFFICES ASSUME NEW b \in BlocksIn(Root)', NEW c \in BlocksIn(Root)',
                        ToSet(blocks'[b].ops) \cap ToSet(blocks'[c].ops) # {}, b # c
                 PROVE  FALSE
    BY DEF ListsApart
  <2>4. CASE b = here
    BY <2>2, <2>3, <2>4
  <2>5. CASE c = here
    BY <2>2, <2>3, <2>5
  <2>6. CASE b # here /\ c # here
    <3>1. ToSet(blocks[b].ops) \cap ToSet(blocks[c].ops) # {}
      BY <2>1, <2>3, <2>6
    <3> QED BY <1>26, <2>3, <3>1 DEF OptInv, ListsApart
  <2> QED BY <2>4, <2>5, <2>6
<1>28. Single'
  <2>1. ASSUME NEW w \in Reachable'
        PROVE  ToSet(ops'[w].outs) \subseteq ToSet(ops[w].outs)
    <3>1. w \in Reachable /\ w # u /\ w \in DOMAIN ops
      BY <1>22, <1>24, ReachableAreOps DEF OptInv
    <3>2. ToSet(ops[w].outs) \cap ToSet(old) = {}
      BY <1>3, <1>5, <3>1 DEF OptInv, Single
    <3> QED BY <1>17, <3>1, <3>2
  <2>2. ASSUME NEW b \in BlocksIn(Root)'
        PROVE  ToSet(blocks'[b].ins) \subseteq ToSet(blocks[b].ins)
    <3>1. ToSet(blocks[b].ins) \cap ToSet(old) = {}
      BY <1>3, <1>5, <1>26 DEF OptInv, Single
    <3> QED BY <1>16, <1>26, <3>1
  <2> QED BY <1>19, <2>1, <2>2, SingleStays
<1> QED BY <1>20, <1>21, <1>22, <1>27, <1>28 DEF OptInv

LEMMA TakeBranchInv ==
  ASSUME OptInv, TakeThen \/ TakeElse
  PROVE  OptInv'
<1>1. PICK k : k = Min(IfsAhead)
  OBVIOUS
<1>2. /\ todo # <<>> /\ UNCHANGED <<todo, crashed>> /\ at' = k - 1 /\ IfsAhead # {}
      /\ \E branch \in {If.then, If.els} \ {None} : Spliced(branch, k)
  BY <1>1 DEF TakeThen, TakeElse, AlwaysThen, AlwaysElse, Running, Unchanged
<1>3. k \in Nat \ {0}
  <2>1. IfsAhead \in SUBSET Ahead
    BY DEF IfsAhead
  <2> QED BY <1>1, <1>2, <2>1, AheadAreOps
<1>4. at' \in Nat
  BY <1>2, <1>3
<1>5. PICK branch \in {If.then, If.els} \ {None} : Spliced(branch, k)
  BY <1>2
<1> QED BY <1>1, <1>2, <1>4, <1>5, SplicedInv

-----------------------------------------------------------------------------
(* Every step keeps the invariant, which says what was asked for.          *)

LEMMA StepInv == OptInv /\ [Next]_vars => OptInv'
<1> SUFFICES ASSUME OptInv, [Next]_vars PROVE OptInv'
  OBVIOUS
<1>1. at \in Nat /\ crashed \in BOOLEAN
  BY DEF OptInv, Tables
<1>2. CASE InlineVar
  BY <1>2, InlineVarInv
<1>3. CASE RemoveUnneeded
  BY <1>3, RemoveUnneededInv
<1>4. CASE Fold
  BY <1>4, FoldInv
<1>5. CASE Join
  BY <1>5, JoinInv
<1>6. CASE TakeThen \/ TakeElse
  BY <1>6, TakeBranchInv
<1>7. CASE KeepIf
  BY <1>7, KeepIfInv
<1>8. CASE RemoveDead
  BY <1>8, RemoveDeadInv
<1>9. CASE BranchMissing \/ Cmov
  <2>1. UNCHANGED <<blocks, ops, decl, todo>> /\ at' = at /\ crashed' = TRUE
    BY <1>9 DEF BranchMissing, Cmov, Unchanged
  <2> QED BY <1>1, <2>1, FrozenInv
<1>10. CASE NextPass
  BY <1>10, NextPassInv
<1>11. CASE Done \/ UNCHANGED vars
  <2>1. UNCHANGED <<blocks, ops, decl, todo>> /\ at' = at /\ crashed' = crashed
    BY <1>11 DEF Done, vars
  <2> QED BY <1>1, <2>1, FrozenInv
<1> QED
  BY <1>2, <1>3, <1>4, <1>5, <1>6, <1>7, <1>8, <1>9, <1>10, <1>11 DEF Next

LEMMA InvTypes == OptInv => TypeOK
<1> SUFFICES ASSUME OptInv PROVE TypeOK
  OBVIOUS
<1>1. ASSUME NEW u \in DOMAIN ops
      PROVE  /\ ops[u].id \in SsaOpId /\ ToSet(ops[u].outs) \subseteq Var
             /\ BlocksOf(ops[u]) \subseteq DOMAIN blocks
             /\ ops[u].a \in Val <=> ops[u].id \in {"IMM", "NOT", "OR", "IF"}
             /\ ops[u].b \in Val <=> ops[u].id = "OR"
  <2>1. ops[u] \in SsaOp /\ OpRight(u)
    BY DEF OptInv, Shaped
  <2>2. ops[u].id \in SsaOpId /\ ops[u].outs \in Seq(Var)
    BY <2>1, OpFields
  <2>3. ToSet(ops[u].outs) \subseteq Var
    BY <2>2 DEF ToSet
  <2> QED BY <2>1, <2>2, <2>3 DEF OpRight, ComputingId
<1>2. ASSUME NEW b \in DOMAIN blocks
      PROVE  /\ ToSet(blocks[b].ops) \subseteq DOMAIN ops /\ IsInjective(blocks[b].ops)
             /\ ToSet(blocks[b].ins) \cup ToSet(blocks[b].outs) \subseteq Var
  <2>1. blocks[b] \in OptBlock /\ ListRight(b)
    BY DEF OptInv, Shaped
  <2>2. blocks[b].ins \in Seq(Var) /\ blocks[b].outs \in Seq(Var)
    BY <2>1, BlockFields
  <2>3. ToSet(blocks[b].ins) \cup ToSet(blocks[b].outs) \subseteq Var
    BY <2>2 DEF ToSet
  <2> QED BY <2>1, <2>3 DEF ListRight
<1>3. (\A v \in Var : decl[v] \in DOMAIN ops \cup {0}) /\ crashed \in BOOLEAN /\ at \in Nat
  BY DEF OptInv, Tables
<1> QED BY <1>1, <1>2, <1>3 DEF TypeOK

LEMMA AtMostOne ==
  ASSUME NEW S, \A x, y \in S : x = y
  PROVE  Cardinality(S) \in {0, 1} /\ (S = {} => Cardinality(S) = 0)
<1>1. CASE S = {}
  BY <1>1, FS_EmptySet
<1>2. CASE S # {}
  <2>1. PICK x : S = {x}
    BY <1>2
  <2> QED BY <1>2, <2>1, FS_Singleton
<1> QED BY <1>1, <1>2

LEMMA InvSingle == OptInv => SingleAssignment
<1> SUFFICES ASSUME OptInv, NEW v \in Var
             PROVE  Cardinality({u \in Reachable : v \in ToSet(ops[u].outs)})
                      + Cardinality({b \in BlocksIn(Root) : v \in ToSet(blocks[b].ins)}) <= 1
  BY DEF SingleAssignment
<1> DEFINE S == {u \in Reachable : v \in ToSet(ops[u].outs)}
           T == {b \in BlocksIn(Root) : v \in ToSet(blocks[b].ins)}
<1>1. \A x, y \in S : x = y
  BY DEF OptInv, Single
<1>2. \A x, y \in T : x = y
  BY DEF OptInv, Single
<1>3. S = {} \/ T = {}
  BY DEF OptInv, Single
<1> HIDE DEF S, T
<1>4. Cardinality(S) \in {0, 1} /\ (S = {} => Cardinality(S) = 0)
  BY <1>1, AtMostOne
<1>5. Cardinality(T) \in {0, 1} /\ (T = {} => Cardinality(T) = 0)
  BY <1>2, AtMostOne
<1> QED BY <1>3, <1>4, <1>5 DEF S, T

-----------------------------------------------------------------------------
(* Blocks are visited before what they are nested in.                      *)

Apart(bs, os) ==
  /\ \A u, w \in DOMAIN os : BlocksOf(os[u]) \cap BlocksOf(os[w]) # {} => u = w
  /\ \A b, c \in DOMAIN bs : ToSet(bs[b].ops) \cap ToSet(bs[c].ops) # {} => b = c

LEMMA SiblingsApart ==
  ASSUME NEW bs, NEW os, DOMAIN os \subseteq Nat, NestsDown(bs, os), Apart(bs, os),
         NEW c \in DOMAIN bs, NEW u \in ToSet(bs[c].ops), NEW w \in ToSet(bs[c].ops),
         NEW d \in BlocksOf(os[u]), NEW e \in BlocksOf(os[w]), d # e
  PROVE  InOf(bs, os, d) \cap InOf(bs, os, e) = {}
<1> DEFINE N == Len(bs)
<1>1. N \in Nat /\ DOMAIN bs = 1 .. N
  BY DEF NestsDown
<1>2. /\ u \in DOMAIN os /\ w \in DOMAIN os /\ d \in DOMAIN bs /\ e \in DOMAIN bs /\ d > c /\ e > c
  BY DEF NestsDown
(* What is in a block but not the block itself is nested in an op there. *)
<1>3. ASSUME NEW a \in DOMAIN bs, NEW y \in InOf(bs, os, a), y # a
      PROVE  \E f \in InOf(bs, os, a) : \E x \in ToSet(bs[f].ops) : x \in DOMAIN os /\ y \in BlocksOf(os[x])
  <2>1. PICK x \in UnderOf(bs, os, a) : y \in BlocksOf(os[x])
    BY <1>3 DEF InOf
  <2>2. x \in DOMAIN os
    BY UnderNested
  <2>3. \E f \in InOf(bs, os, a) : x \in ToSet(bs[f].ops)
    BY HeldSomewhere
  <2> QED BY <2>1, <2>2, <2>3
<1>4. \A a \in DOMAIN bs : \A f \in InOf(bs, os, a) : f \in DOMAIN bs /\ f >= a
  BY BlocksInside
(* Nothing that is nested in an op of block c is in a later block. *)
<1>5. ASSUME NEW a \in DOMAIN bs, a > c, NEW x \in ToSet(bs[c].ops), NEW y \in BlocksOf(os[x]), y # a
      PROVE  y \notin InOf(bs, os, a)
  <2> SUFFICES ASSUME y \in InOf(bs, os, a) PROVE FALSE
    OBVIOUS
  <2>1. PICK f \in InOf(bs, os, a) : \E z \in ToSet(bs[f].ops) : z \in DOMAIN os /\ y \in BlocksOf(os[z])
    BY <1>3, <1>5
  <2>2. PICK z \in ToSet(bs[f].ops) : z \in DOMAIN os /\ y \in BlocksOf(os[z])
    BY <2>1
  <2>3. x \in DOMAIN os
    BY DEF NestsDown
  <2>4. z = x
    BY <2>2, <2>3 DEF Apart
  <2>5. f \in DOMAIN bs /\ f >= a
    BY <1>4
  <2>6. f = c
    BY <2>2, <2>4, <2>5 DEF Apart
  <2> QED BY <1>1, <1>5, <2>5, <2>6
<1> DEFINE Fine == {y \in 1 .. N : ~ (y \in InOf(bs, os, d) /\ y \in InOf(bs, os, e))}
<1>6. ASSUME NEW y \in 1 .. N, \A f \in 1 .. N : f < y => f \in Fine
      PROVE  y \in Fine
  <2> SUFFICES ASSUME y \in InOf(bs, os, d), y \in InOf(bs, os, e) PROVE FALSE
    OBVIOUS
  <2>1. y # d
    BY <1>2, <1>5
  <2>2. y # e
    BY <1>2, <1>5
  <2>3. PICK f \in InOf(bs, os, d) : \E x \in ToSet(bs[f].ops) : x \in DOMAIN os /\ y \in BlocksOf(os[x])
    BY <1>2, <1>3, <2>1
  <2>4. PICK g \in InOf(bs, os, e) : \E x \in ToSet(bs[g].ops) : x \in DOMAIN os /\ y \in BlocksOf(os[x])
    BY <1>2, <1>3, <2>2
  <2>5. PICK x \in ToSet(bs[f].ops) : x \in DOMAIN os /\ y \in BlocksOf(os[x])
    BY <2>3
  <2>6. PICK z \in ToSet(bs[g].ops) : z \in DOMAIN os /\ y \in BlocksOf(os[z])
    BY <2>4
  <2>7. x = z
    BY <2>5, <2>6 DEF Apart
  <2>8. f \in DOMAIN bs /\ g \in DOMAIN bs
    BY <1>2, <1>4
  <2>9. f = g
    BY <2>5, <2>6, <2>7, <2>8 DEF Apart
  <2>10. y > f
    BY <2>5, <2>8 DEF NestsDown
  <2>11. f \in 1 .. N /\ f < y
    BY <1>1, <2>8, <2>10
  <2> QED BY <1>6, <2>9, <2>11
<1>7. \A y \in 1 .. N : y \in Fine
  <2> HIDE DEF Fine, N
  <2> QED BY <1>1, <1>6, Upwards
<1> QED BY <1>1, <1>2, <1>4, <1>7

Distinct(op) ==
  /\ op.then = op.els => op.then = None
  /\ op.cond = op.do => op.cond = None
  /\ {op.then, op.els} = {None} \/ {op.cond, op.do} = {None}

LEMMA InnerInOrder ==
  ASSUME NEW X, NEW R, NEW op, NEW seq, Distinct(op),
         \A d \in BlocksOf(op) : seq[d] \in Seq(X) /\ InOrder(seq[d], R),
         \A d, e \in BlocksOf(op) : d # e => \A x \in ToSet(seq[d]), y \in ToSet(seq[e]) : <<x, y>> \in R
  PROVE  InOrder(Inner(op, seq), R)
<1> DEFINE of(d) == IF d = None THEN <<>> ELSE seq[d]
<1>1. ASSUME NEW d, d = None \/ d \in BlocksOf(op)
      PROVE  of(d) \in Seq(X) /\ InOrder(of(d), R)
  <2>1. CASE d = None
    BY <2>1 DEF InOrder
  <2>2. CASE d # None
    BY <1>1, <2>2
  <2> QED BY <2>1, <2>2
<1>2. ASSUME NEW d, NEW e, d = None \/ d \in BlocksOf(op), e = None \/ e \in BlocksOf(op),
             d = e => d = None
      PROVE  \A x \in ToSet(of(d)), y \in ToSet(of(e)) : <<x, y>> \in R
  <2>1. CASE d = None \/ e = None
    <3>1. ToSet(<<>>) = {}
      BY DEF ToSet
    <3> QED BY <2>1, <3>1
  <2>2. CASE d # None /\ e # None
    BY <1>2, <2>2
  <2> QED BY <2>1, <2>2
<1>3. \A d \in {op.then, op.els, op.cond, op.do} : d = None \/ d \in BlocksOf(op)
  BY DEF BlocksOf
<1>4. \A d \in {op.then, op.els}, e \in {op.cond, op.do} : d = e => d = None
  BY DEF Distinct
<1> DEFINE a == of(op.then)
           b == of(op.els)
           c == of(op.cond)
           f == of(op.do)
<1> HIDE DEF of
<1>5. /\ a \in Seq(X) /\ b \in Seq(X) /\ c \in Seq(X) /\ f \in Seq(X)
      /\ InOrder(a, R) /\ InOrder(b, R) /\ InOrder(c, R) /\ InOrder(f, R)
  BY <1>1, <1>3
<1>6. \A x \in ToSet(a), y \in ToSet(b) : <<x, y>> \in R
  BY <1>2, <1>3 DEF Distinct
<1>7. \A x \in ToSet(a) \cup ToSet(b), y \in ToSet(c) : <<x, y>> \in R
  BY <1>2, <1>3, <1>4
<1>8. \A x \in ToSet(a) \cup ToSet(b), y \in ToSet(f) : <<x, y>> \in R
  BY <1>2, <1>3, <1>4
<1>9. \A x \in ToSet(c), y \in ToSet(f) : <<x, y>> \in R
  BY <1>2, <1>3 DEF Distinct
<1>10. Inner(op, seq) = a \o b \o c \o f
  BY DEF Inner, of
<1> HIDE DEF a, b, c, f
<1>11. a \o b \in Seq(X) /\ InOrder(a \o b, R) /\ ToSet(a \o b) = ToSet(a) \cup ToSet(b)
  BY <1>5, <1>6, JoinedInOrder, JoinedMembers
<1> DEFINE ab == a \o b
<1> HIDE DEF ab
<1>12. ab \in Seq(X) /\ InOrder(ab, R) /\ ToSet(ab) = ToSet(a) \cup ToSet(b)
  BY <1>11 DEF ab
<1>13. ab \o c \in Seq(X) /\ InOrder(ab \o c, R) /\ ToSet(ab \o c) = ToSet(ab) \cup ToSet(c)
  <2>1. ab \o c \in Seq(X) /\ ToSet(ab \o c) = ToSet(ab) \cup ToSet(c)
    BY <1>5, <1>12, JoinedMembers
  <2>2. \A x \in ToSet(ab), y \in ToSet(c) : <<x, y>> \in R
    BY <1>7, <1>12
  <2>3. InOrder(ab \o c, R)
    BY <1>5, <1>12, <2>2, JoinedInOrder
  <2> QED BY <2>1, <2>3
<1> DEFINE abc == ab \o c
<1> HIDE DEF abc
<1>14. abc \in Seq(X) /\ InOrder(abc, R) /\ ToSet(abc) = ToSet(a) \cup ToSet(b) \cup ToSet(c)
  BY <1>12, <1>13 DEF abc
<1>15. \A x \in ToSet(abc), y \in ToSet(f) : <<x, y>> \in R
  BY <1>8, <1>9, <1>14
<1>16. InOrder(abc \o f, R)
  BY <1>5, <1>14, <1>15, JoinedInOrder
<1> QED BY <1>10, <1>16 DEF ab, abc

VisitOrder == UNION {{<<b, c>> : c \in Later(b)} : b \in DOMAIN blocks}

LEMMA InsideOutIs ==
  ASSUME Shaped, Apart(blocks, ops), \A u \in DOMAIN ops : Distinct(ops[u])
  PROVE  /\ InsideOut \in Seq(DOMAIN blocks) /\ ToSet(InsideOut) \subseteq BlocksIn(Root)
         /\ InOrder(InsideOut, VisitOrder)
<1> DEFINE X == DOMAIN blocks
           N == Len(blocks)
           end == [c \in DOMAIN blocks |-> <<c>>]
           R == VisitOrder
<1>1. NestsDown(blocks, ops) /\ DOMAIN ops \subseteq Nat
  BY ShapedNests
<1>2. N \in Nat /\ X = 1 .. N /\ Root \in X
  BY DEF Shaped
<1>3. Collects(blocks, ops, X, Nothing, Nothing, end)
  <2>1. \A c \in X : <<c>> \in Seq(X) /\ <<>> \in Seq(X)
    OBVIOUS
  <2>2. Nothing \in [DOMAIN ops -> Seq(X)]
    BY DEF Nothing
  <2>3. end \in [DOMAIN blocks -> Seq(X)]
    BY <2>1
  <2> QED BY <2>2, <2>3 DEF Collects
<1>4. PICK tour \in [X -> Seq(X)] :
        \A b \in X : /\ TourOf(blocks, ops, b, Nothing, Nothing, end) = tour[b]
                     /\ tour[b] = Visit(blocks, ops, b, Nothing, Nothing, end, tour)
  <2> DEFINE e == end
  <2>1. Collects(blocks, ops, X, Nothing, Nothing, e)
    BY <1>3
  <2> HIDE DEF e, X
  <2>2. \E tour \in [DOMAIN blocks -> Seq(X)] :
          \A b \in DOMAIN blocks :
            /\ TourOf(blocks, ops, b, Nothing, Nothing, e) = tour[b]
            /\ tour[b] = Visit(blocks, ops, b, Nothing, Nothing, e, tour)
    BY <1>1, <2>1, TourUnfolds
  <2> QED BY <2>2 DEF e, X
<1>5. InsideOut = tour[Root]
  <2>1. InsideOut = Tour(Root, Nothing, Nothing, end)
    BY DEF InsideOut
  <2>2. Tour(Root, Nothing, Nothing, end) = TourOf(blocks, ops, Root, Nothing, Nothing, end)
    BY DEF Tour, TourOf, Visit
  <2> QED BY <1>2, <1>4, <2>1, <2>2
<1>6. ASSUME NEW c \in X
      PROVE  \A x \in ToSet(tour[c]) : x = c \/ \E u \in ToSet(blocks[c].ops) :
                                                  \E d \in BlocksOf(ops[u]) : x \in ToSet(tour[d])
  <2>1. TouredAfter(blocks, X, c, tour)
    BY DEF TouredAfter
  <2>2. ToSet(tour[c])
          = ToSet(end[c]) \cup UNION {ToSet(Nothing[u]) \cup ToSet(Nothing[u])
              \cup UNION {ToSet(tour[d]) : d \in BlocksOf(ops[u])} : u \in ToSet(blocks[c].ops)}
    <3> DEFINE e == end
    <3>1. Collects(blocks, ops, X, Nothing, Nothing, e) /\ c \in DOMAIN blocks
      BY <1>3
    <3>2. tour[c] = Visit(blocks, ops, c, Nothing, Nothing, e, tour)
      BY <1>4
    <3> HIDE DEF e, X
    <3>3. ToSet(Visit(blocks, ops, c, Nothing, Nothing, e, tour))
            = ToSet(e[c]) \cup UNION {ToSet(Nothing[u]) \cup ToSet(Nothing[u])
                \cup UNION {ToSet(tour[d]) : d \in BlocksOf(ops[u])} : u \in ToSet(blocks[c].ops)}
      BY <1>1, <2>1, <3>1, VisitIs
    <3> QED BY <3>2, <3>3 DEF e
  <2>3. ToSet(end[c]) = {c}
    BY DEF ToSet
  <2>4. \A u \in ToSet(blocks[c].ops) : ToSet(Nothing[u]) = {}
    <3>1. ToSet(blocks[c].ops) \subseteq DOMAIN ops
      BY <1>1 DEF NestsDown
    <3>2. \A u \in DOMAIN ops : Nothing[u] = <<>>
      BY DEF Nothing
    <3>3. ToSet(<<>>) = {}
      BY DEF ToSet
    <3> QED BY <3>1, <3>2, <3>3
  <2> HIDE DEF end
  <2> SUFFICES ASSUME NEW x \in ToSet(tour[c]), x # c
               PROVE  \E u \in ToSet(blocks[c].ops) : \E d \in BlocksOf(ops[u]) : x \in ToSet(tour[d])
    OBVIOUS
  <2>5. PICK u \in ToSet(blocks[c].ops) :
          x \in ToSet(Nothing[u]) \cup ToSet(Nothing[u]) \cup UNION {ToSet(tour[d]) : d \in BlocksOf(ops[u])}
    BY <2>2, <2>3
  <2>6. ToSet(Nothing[u]) = {}
    BY <2>4
  <2>7. x \in UNION {ToSet(tour[d]) : d \in BlocksOf(ops[u])}
    BY <2>5, <2>6
  <2> QED BY <2>7
<1>7. \A c \in X : \A u \in ToSet(blocks[c].ops) : u \in DOMAIN ops /\ \A d \in BlocksOf(ops[u]) : d \in X /\ d > c
  BY <1>1 DEF NestsDown
<1>8. \A c \in X : \A x \in BlocksIn(c) : x \in X /\ x >= c /\ BlocksIn(x) \subseteq BlocksIn(c)
  BY <1>1, InsideIs, BlocksInside
<1>9. \A c \in X : \A u \in ToSet(blocks[c].ops) : \A d \in BlocksOf(ops[u]) : d \in BlocksIn(c)
  <2> SUFFICES ASSUME NEW c \in X, NEW u \in ToSet(blocks[c].ops), NEW d \in BlocksOf(ops[u])
               PROVE  d \in BlocksIn(c)
    OBVIOUS
  <2>1. u \in UnderOf(blocks, ops, c)
    BY <1>1, UnderIs
  <2>2. d \in InOf(blocks, ops, c)
    BY <2>1 DEF InOf
  <2> QED BY <2>2, InsideIs
<1>10. \A b, c \in X : <<b, c>> \in R <=> c \notin BlocksIn(b) \ {b}
  <2> SUFFICES ASSUME NEW b \in X, NEW c \in X
               PROVE  <<b, c>> \in R <=> c \notin BlocksIn(b) \ {b}
    OBVIOUS
  <2> DEFINE nested == BlocksIn(b)
  <2>1. <<b, c>> \in R <=> c \in Later(b)
    <3> HIDE DEF nested
    <3> QED BY DEF VisitOrder
  <2>2. c \in Later(b) <=> c \in DOMAIN blocks /\ c \notin nested \ {b}
    BY DEF Later
  <2> QED BY <2>1, <2>2
<1> HIDE DEF X, N, R
<1> DEFINE Fine == {c \in 1 .. N : ToSet(tour[c]) \subseteq BlocksIn(c) /\ InOrder(tour[c], R)}
<1>11. ASSUME NEW c \in 1 .. N, \A d \in 1 .. N : d > c => d \in Fine
       PROVE  c \in Fine
  <2> DEFINE list == blocks[c].ops
             part == [k \in DOMAIN list |->
                        Nothing[list[k]] \o Inner(ops[list[k]], tour) \o Nothing[list[k]]]
  <2>1. c \in X
    BY <1>2
  <2>2. ASSUME NEW u \in ToSet(list), NEW d \in BlocksOf(ops[u])
        PROVE  /\ d \in X /\ d > c /\ tour[d] \in Seq(X) /\ InOrder(tour[d], R)
               /\ ToSet(tour[d]) \subseteq BlocksIn(d)
    <3>1. d \in X /\ d > c
      BY <1>7, <2>1
    <3>2. d \in Fine
      BY <1>2, <1>11, <3>1
    <3> QED BY <1>4, <3>1, <3>2
  <2>3. ASSUME NEW u \in ToSet(list), NEW w \in ToSet(list), NEW d \in BlocksOf(ops[u]),
               NEW e \in BlocksOf(ops[w]), d # e, NEW x \in ToSet(tour[d]), NEW y \in ToSet(tour[e])
        PROVE  <<x, y>> \in R
    <3>1. x \in BlocksIn(d) /\ y \in BlocksIn(e) /\ d \in X /\ e \in X
      BY <2>2
    <3>2. InOf(blocks, ops, d) \cap InOf(blocks, ops, e) = {}
      BY <1>1, <2>1, <2>3, SiblingsApart DEF X
    <3>3. y \notin BlocksIn(x) /\ x \in X /\ y \in X
      BY <1>8, <3>1, <3>2, InsideIs
    <3> QED BY <1>10, <3>3
  <2>4. ToSet(tour[c]) \subseteq BlocksIn(c)
    <3> SUFFICES ASSUME NEW x \in ToSet(tour[c]) PROVE x \in BlocksIn(c)
      OBVIOUS
    <3>1. CASE x = c
      BY <3>1 DEF BlocksIn
    <3>2. CASE x # c
      <4>1. PICK u \in ToSet(list) : \E d \in BlocksOf(ops[u]) : x \in ToSet(tour[d])
        BY <1>6, <2>1, <3>2
      <4>2. PICK d \in BlocksOf(ops[u]) : x \in ToSet(tour[d])
        BY <4>1
      <4>3. x \in BlocksIn(d) /\ d \in BlocksIn(c)
        BY <1>9, <2>1, <2>2, <4>2
      <4> QED BY <1>8, <2>1, <4>3
    <3> QED BY <3>1, <3>2
  <2>5. ASSUME NEW k \in DOMAIN list
        PROVE  /\ list[k] \in ToSet(list) /\ part[k] = Inner(ops[list[k]], tour)
               /\ Inner(ops[list[k]], tour) \in Seq(X)
               /\ ToSet(Inner(ops[list[k]], tour)) = UNION {ToSet(tour[d]) : d \in BlocksOf(ops[list[k]])}
    <3>1. list[k] \in ToSet(list)
      BY DEF ToSet
    <3>2. list[k] \in DOMAIN ops
      BY <1>7, <2>1, <3>1
    <3> DEFINE inner == Inner(ops[list[k]], tour)
    <3>3. inner \in Seq(X) /\ ToSet(inner) = UNION {ToSet(tour[d]) : d \in BlocksOf(ops[list[k]])}
      BY <2>2, <3>1, InnerIs
    <3>4. Nothing[list[k]] = <<>>
      BY <3>2 DEF Nothing
    <3>5. part[k] = <<>> \o inner \o <<>>
      BY <3>4
    <3> HIDE DEF inner, list, part
    <3>6. <<>> \o inner = inner /\ inner \o <<>> = inner
      BY <3>3
    <3> QED BY <3>1, <3>3, <3>5, <3>6 DEF inner
  <2>6. ASSUME NEW k \in DOMAIN list
        PROVE  InOrder(part[k], R)
    <3>1. list[k] \in ToSet(list) /\ list[k] \in DOMAIN ops
      BY <1>7, <2>1, <2>5
    <3>2. Distinct(ops[list[k]])
      BY <3>1
    <3>3. \A d \in BlocksOf(ops[list[k]]) : tour[d] \in Seq(X) /\ InOrder(tour[d], R)
      BY <2>2, <3>1
    <3>4. \A d, e \in BlocksOf(ops[list[k]]) : d # e =>
            \A x \in ToSet(tour[d]), y \in ToSet(tour[e]) : <<x, y>> \in R
      BY <2>3, <3>1
    <3>5. InOrder(Inner(ops[list[k]], tour), R)
      BY <3>2, <3>3, <3>4, InnerInOrder
    <3> QED BY <2>5, <3>5
  <2>7. part \in Seq(Seq(X)) /\ DOMAIN part = DOMAIN list
    <3>1. list \in Seq(Nat)
      BY <2>1, BlockFields DEF Shaped, X
    <3>2. Len(list) \in Nat /\ DOMAIN list = 1 .. Len(list)
      BY <3>1
    <3> DEFINE Q == Seq(X)
    <3>3. DOMAIN part = DOMAIN list /\ part = [k \in 1 .. Len(list) |-> part[k]]
      BY <3>2
    <3>4. \A k \in 1 .. Len(list) : part[k] \in Q
      BY <2>5, <3>2
    <3> HIDE DEF part, Q, list
    <3>5. part \in Seq(Q)
      BY <3>2, <3>3, <3>4
    <3> QED BY <3>3, <3>5 DEF Q
  <2>8. ASSUME NEW i \in DOMAIN part, NEW j \in DOMAIN part, i < j
        PROVE  \A x \in ToSet(part[i]), y \in ToSet(part[j]) : <<x, y>> \in R
    <3>1. i \in DOMAIN list /\ j \in DOMAIN list
      BY <2>7
    <3>2. list[i] # list[j]
      <4>1. IsInjective(list) /\ list \in Seq(Nat)
        BY <2>1, BlockFields DEF Shaped, ListRight, X
      <4>2. i # j
        BY <2>8, <3>1, <4>1
      <4> QED BY <3>1, <4>1, <4>2 DEF IsInjective
    <3>3. /\ list[i] \in ToSet(list) /\ list[j] \in ToSet(list)
          /\ ToSet(part[i]) = UNION {ToSet(tour[d]) : d \in BlocksOf(ops[list[i]])}
          /\ ToSet(part[j]) = UNION {ToSet(tour[d]) : d \in BlocksOf(ops[list[j]])}
      BY <2>5, <3>1
    <3>4. BlocksOf(ops[list[i]]) \cap BlocksOf(ops[list[j]]) = {}
      <4>1. list[i] \in DOMAIN ops /\ list[j] \in DOMAIN ops
        BY <1>7, <2>1, <3>3
      <4> QED BY <3>2, <4>1 DEF Apart
    <3> HIDE DEF part, list
    <3> SUFFICES ASSUME NEW x \in ToSet(part[i]), NEW y \in ToSet(part[j])
                 PROVE  <<x, y>> \in R
      OBVIOUS
    <3>5. PICK d \in BlocksOf(ops[list[i]]) : x \in ToSet(tour[d])
      BY <3>3
    <3>6. PICK e \in BlocksOf(ops[list[j]]) : y \in ToSet(tour[e])
      BY <3>3
    <3>7. d # e
      BY <3>4
    <3> QED BY <2>3, <3>3, <3>5, <3>6, <3>7
  <2>9. InOrder(FlattenSeq(part), R)
    <3> HIDE DEF part
    <3> QED BY <2>6, <2>7, <2>8, FlatInOrder
  <2>10. FlattenSeq(part) \in Seq(X) /\ ToSet(FlattenSeq(part)) = UNION {ToSet(part[k]) : k \in DOMAIN part}
    <3> HIDE DEF part
    <3> QED BY <2>7, Flattened, FlatMembers
  <2>11. ASSUME NEW x \in ToSet(FlattenSeq(part))
         PROVE  <<x, c>> \in R
    <3>1. PICK k \in DOMAIN list : x \in ToSet(part[k])
      <4>1. DOMAIN part = DOMAIN list
        BY <2>7
      <4> HIDE DEF part, list
      <4> QED BY <2>10, <2>11, <4>1
    <3>2. PICK d \in BlocksOf(ops[list[k]]) : x \in ToSet(tour[d])
      <4>1. part[k] = Inner(ops[list[k]], tour)
        BY <2>5
      <4>2. ToSet(part[k]) = UNION {ToSet(tour[d]) : d \in BlocksOf(ops[list[k]])}
        BY <2>5, <4>1
      <4> HIDE DEF part, list
      <4> QED BY <3>1, <4>2
    <3>3. d \in X /\ d > c /\ x \in BlocksIn(d)
      BY <2>2, <2>5, <3>2
    <3>4. x \in X /\ x >= d
      BY <1>8, <3>3
    <3>5. \A y \in BlocksIn(x) : y \in X /\ y >= x
      BY <1>8, <3>4
    <3> HIDE DEF part, list
    <3>6. c \notin BlocksIn(x)
      <4> SUFFICES ASSUME c \in BlocksIn(x) PROVE FALSE
        OBVIOUS
      <4>1. c >= x /\ x >= d /\ d > c
        BY <3>3, <3>4, <3>5
      <4>2. d \in 1 .. N /\ x \in 1 .. N
        BY <1>2, <3>3, <3>4
      <4> QED BY <1>1, <4>1, <4>2
    <3>7. c \notin BlocksIn(x) \ {x}
      BY <3>6
    <3> QED BY <1>10, <2>1, <3>4, <3>7
  <2>12. tour[c] = FlattenSeq(part) \o <<c>>
    <3>1. tour[c] = Visit(blocks, ops, c, Nothing, Nothing, end, tour)
      BY <1>4, <2>1
    <3>2. end[c] = <<c>>
      BY <2>1 DEF X
    <3> HIDE DEF end
    <3> QED BY <3>1, <3>2 DEF Visit
  <2>13. InOrder(tour[c], R)
    <3> DEFINE flat == FlattenSeq(part)
               last == <<c>>
    <3>1. last \in Seq(X) /\ ToSet(last) = {c} /\ InOrder(last, R)
      BY <2>1 DEF ToSet, InOrder
    <3>2. flat \in Seq(X) /\ InOrder(flat, R) /\ \A x \in ToSet(flat) : <<x, c>> \in R
      BY <2>9, <2>10, <2>11
    <3>3. tour[c] = flat \o last
      BY <2>12
    <3> HIDE DEF flat, last
    <3>4. \A x \in ToSet(flat), y \in ToSet(last) : <<x, y>> \in R
      BY <3>1, <3>2
    <3>5. InOrder(flat \o last, R)
      BY <3>1, <3>2, <3>4, JoinedInOrder
    <3> QED BY <3>3, <3>5
  <2> QED BY <2>4, <2>13
<1>12. \A c \in 1 .. N : c \in Fine
  <2> HIDE DEF Fine
  <2> QED BY <1>2, <1>11, Downwards
<1>13. Root \in Fine /\ tour[Root] \in Seq(X)
  BY <1>2, <1>4, <1>12
<1> QED BY <1>5, <1>13 DEF X, R

-----------------------------------------------------------------------------
(* The schedule.                                                           *)

LEMMA PassesAre ==
  ASSUME NEW case
  PROVE  Passes(case) \in Seq(PassName)
<1> DEFINE S == PassName
           Q == Seq(S)
<1>1. ASSUME NEW n \in Nat, NEW passes \in Seq(PassName)
      PROVE  Times(n, passes) \in Seq(PassName)
  <2> DEFINE copies == [k \in 1 .. n |-> passes]
  <2>1. copies \in Seq(Q)
    <3>1. passes \in Q
      OBVIOUS
    <3> HIDE DEF Q
    <3> QED BY <3>1
  <2>2. Times(n, passes) = FlattenSeq(copies)
    BY DEF Times
  <2> HIDE DEF copies, S
  <2>3. FlattenSeq(copies) \in Seq(S)
    BY <2>1, Flattened
  <2> QED BY <2>2, <2>3 DEF S
<1>0. /\ {"inline_vars", "vars", "constant_eval", "join_compute", "reduce_if", "if_opts", "cmov"} \subseteq S
      /\ <<>> \in Q /\ \A x \in S : <<x>> \in Q /\ \A y \in S : <<x, y>> \in Q
  <2>1. {"inline_vars", "vars", "constant_eval", "join_compute", "reduce_if", "if_opts", "cmov"} \subseteq S
    BY DEF PassName
  <2> HIDE DEF S
  <2>2. <<>> \in Q /\ \A x \in S : <<x>> \in Q /\ \A y \in S : <<x, y>> \in Q
    OBVIOUS
  <2> QED BY <2>1, <2>2
<1> DEFINE again == Times(ConstevalIterations, <<"constant_eval", "inline_vars">>)
<1>2. again \in Q
  <2>1. <<"constant_eval", "inline_vars">> \in Q /\ ConstevalIterations \in Nat
    <3> HIDE DEF S, Q
    <3> QED BY <1>0, SsaOptAssumption
  <2> QED BY <1>1, <2>1
<1>3. OptPre \in Q
  <2>1. <<"inline_vars", "vars">> \in Q
    <3> HIDE DEF S, Q
    <3> QED BY <1>0
  <2>2. OptPre = <<"inline_vars", "vars">> \o again
    BY DEF OptPre
  <2> HIDE DEF again, S
  <2> QED BY <1>2, <2>1, <2>2
<1> DEFINE ifs == IF case.ifEval THEN <<"reduce_if", "if_opts">> ELSE <<>>
           cmov == IF case.cmovOpt THEN <<"cmov">> ELSE <<>>
           join == <<"join_compute">>
<1>4. ifs \in Q /\ cmov \in Q /\ join \in Q
  <2>1. <<"reduce_if", "if_opts">> \in Q /\ <<>> \in Q /\ <<"cmov">> \in Q /\ join \in Q
    <3> HIDE DEF S, Q
    <3> QED BY <1>0
  <2> HIDE DEF S, Q
  <2> QED BY <2>1
<1>5. Passes(case) = OptPre \o join \o ifs \o cmov \o OptPre \o OptPre
  BY DEF Passes
<1> HIDE DEF ifs, cmov, join, S
<1>6. \A s, t \in Q : s \o t \in Q
  OBVIOUS
<1> HIDE DEF Q
<1>7. OptPre \o join \o ifs \o cmov \o OptPre \o OptPre \in Q
  <2>1. OptPre \o join \in Q
    BY <1>3, <1>4, <1>6
  <2>2. OptPre \o join \o ifs \in Q
    BY <1>4, <1>6, <2>1
  <2>3. OptPre \o join \o ifs \o cmov \in Q
    BY <1>4, <1>6, <2>2
  <2>4. OptPre \o join \o ifs \o cmov \o OptPre \in Q
    BY <1>3, <1>6, <2>3
  <2> QED BY <1>3, <1>6, <2>4
<1> QED BY <1>5, <1>7 DEF Q, S

(* What is scheduled is a pass and its block. *)
Turns == [pass : PassName, block : DOMAIN blocks]

(* Blocks are still there when their turn comes. *)
InTurn(s) ==
  /\ s \in Seq(Turns)
  /\ \A n \in DOMAIN s : s[n].block \in BlocksIn(Root)
  /\ \A n, m \in DOMAIN s : n < m => s[m].block \in Later(s[n].block)

LEMMA ScheduleIs ==
  ASSUME NEW case, Shaped, Apart(blocks, ops), \A u \in DOMAIN ops : Distinct(ops[u])
  PROVE  InTurn(Schedule(case))
<1> DEFINE X == Turns
           R == UNION {{<<t, r>> : r \in {w \in X : w.block \in Later(t.block)}} : t \in X}
           P == Passes(case)
           I == InsideOut
           turn(n) == [k \in DOMAIN P |-> [pass |-> P[k], block |-> I[n]]]
           ss == [n \in DOMAIN I |-> turn(n)]
<1>1. P \in Seq(PassName) /\ DOMAIN P = 1 .. Len(P) /\ Len(P) \in Nat
  <2>1. P \in Seq(PassName)
    BY PassesAre
  <2> HIDE DEF P
  <2> QED BY <2>1
<1>2. /\ I \in Seq(DOMAIN blocks) /\ ToSet(I) \subseteq BlocksIn(Root) /\ InOrder(I, VisitOrder)
      /\ DOMAIN I = 1 .. Len(I) /\ Len(I) \in Nat
  <2>1. I \in Seq(DOMAIN blocks) /\ ToSet(I) \subseteq BlocksIn(Root) /\ InOrder(I, VisitOrder)
    BY InsideOutIs
  <2> HIDE DEF I
  <2> QED BY <2>1
<1> HIDE DEF P, I
<1>3. ASSUME NEW n \in DOMAIN I
      PROVE  /\ I[n] \in DOMAIN blocks /\ I[n] \in BlocksIn(Root) /\ turn(n) \in Seq(X)
             /\ \A t \in ToSet(turn(n)) : t \in X /\ t.block = I[n]
  <2>1. I[n] \in DOMAIN blocks /\ I[n] \in ToSet(I)
    BY <1>2 DEF ToSet
  <2>2. ASSUME NEW k \in DOMAIN P
        PROVE  turn(n)[k] \in X /\ turn(n)[k].block = I[n]
    BY <1>1, <2>1 DEF Turns
  <2>3. turn(n) \in Seq(X)
    <3> DEFINE t == turn(n)
    <3>1. t = [k \in 1 .. Len(P) |-> t[k]]
      BY <1>1
    <3>2. ASSUME NEW k \in 1 .. Len(P) PROVE t[k] \in X
      <4>1. k \in DOMAIN P
        BY <1>1
      <4>2. turn(n)[k] \in X
        <5> HIDE DEF turn, X
        <5> QED BY <2>2, <4>1
      <4> QED BY <4>2
    <3>3. t \in Seq(X)
      <4> HIDE DEF t, X
      <4> QED BY <1>1, <3>1, <3>2
    <3> QED BY <3>3
  <2>4. \A t \in ToSet(turn(n)) : \E k \in DOMAIN P : t = turn(n)[k]
    BY DEF ToSet
  <2> HIDE DEF turn, X
  <2> QED BY <1>2, <2>1, <2>2, <2>3, <2>4
<1>4. \A t, r \in X : <<t, r>> \in R <=> r.block \in Later(t.block)
  <2> HIDE DEF X
  <2> QED OBVIOUS
<1> HIDE DEF R, X
<1>5. ss \in Seq(Seq(X)) /\ DOMAIN ss = DOMAIN I /\ \A n \in DOMAIN I : ss[n] = turn(n)
  <2> DEFINE Q == Seq(X)
  <2>1. DOMAIN ss = DOMAIN I /\ \A n \in DOMAIN I : ss[n] = turn(n) /\ ss[n] \in Q
    BY <1>3
  <2>2. ss = [n \in 1 .. Len(I) |-> ss[n]]
    BY <1>2
  <2> HIDE DEF ss, Q, turn
  <2>3. ss \in Seq(Q)
    BY <1>2, <2>1, <2>2
  <2> QED BY <2>1, <2>3 DEF Q
<1> DEFINE s == FlattenSeq(ss)
<1>6. Schedule(case) = s
  BY DEF Schedule, P, I
<1> HIDE DEF ss, turn
<1>7. s \in Seq(X) /\ ToSet(s) = UNION {ToSet(ss[n]) : n \in DOMAIN ss}
  BY <1>5, Flattened, FlatMembers
<1>8. \A b, c \in DOMAIN blocks : <<b, c>> \in VisitOrder <=> c \in Later(b)
  BY DEF VisitOrder
<1>9. \A b \in DOMAIN blocks : b \in Later(b)
  BY DEF Later
<1>10. \A n \in DOMAIN ss : InOrder(ss[n], R)
  <2> SUFFICES ASSUME NEW n \in DOMAIN ss, NEW k \in DOMAIN ss[n], NEW j \in DOMAIN ss[n]
               PROVE  <<ss[n][k], ss[n][j]>> \in R
    BY DEF InOrder
  <2>1. n \in DOMAIN I /\ ss[n][k] \in ToSet(turn(n)) /\ ss[n][j] \in ToSet(turn(n))
    BY <1>5 DEF ToSet
  <2>2. /\ ss[n][k] \in X /\ ss[n][k].block = I[n] /\ ss[n][j] \in X /\ ss[n][j].block = I[n]
        /\ I[n] \in DOMAIN blocks
    BY <1>3, <2>1
  <2> QED BY <1>4, <1>9, <2>2
<1>11. \A n, m \in DOMAIN ss : n < m => \A t \in ToSet(ss[n]), r \in ToSet(ss[m]) : <<t, r>> \in R
  <2> SUFFICES ASSUME NEW n \in DOMAIN ss, NEW m \in DOMAIN ss, n < m,
                      NEW t \in ToSet(ss[n]), NEW r \in ToSet(ss[m])
               PROVE  <<t, r>> \in R
    OBVIOUS
  <2>1. n \in DOMAIN I /\ m \in DOMAIN I /\ t \in ToSet(turn(n)) /\ r \in ToSet(turn(m))
    BY <1>5
  <2>2. t \in X /\ t.block = I[n] /\ r \in X /\ r.block = I[m]
    BY <1>3, <2>1
  <2>3. I[n] \in DOMAIN blocks /\ I[m] \in DOMAIN blocks /\ <<I[n], I[m]>> \in VisitOrder
    BY <1>2, <1>3, <2>1 DEF InOrder
  <2> QED BY <1>4, <1>8, <2>2, <2>3
<1>12. InOrder(s, R)
  BY <1>5, <1>10, <1>11, FlatInOrder
<1>13. ASSUME NEW t \in ToSet(s)
       PROVE  t \in X /\ t.block \in BlocksIn(Root)
  <2>1. PICK n \in DOMAIN ss : t \in ToSet(ss[n])
    BY <1>7
  <2>2. n \in DOMAIN I /\ t \in ToSet(turn(n))
    BY <1>5, <2>1
  <2>3. t \in X /\ t.block = I[n] /\ I[n] \in BlocksIn(Root)
    BY <1>3, <2>2
  <2> QED BY <2>3
<1> HIDE DEF s
<1>14. \A n \in DOMAIN s : s[n] \in X /\ s[n].block \in BlocksIn(Root)
  <2>1. \A n \in DOMAIN s : s[n] \in ToSet(s)
    BY DEF ToSet
  <2> QED BY <1>13, <2>1
<1>15. ASSUME NEW n \in DOMAIN s, NEW m \in DOMAIN s, n < m
       PROVE  s[m].block \in Later(s[n].block)
  <2>1. <<s[n], s[m]>> \in R
    BY <1>12, <1>15 DEF InOrder
  <2> QED BY <1>4, <1>14, <2>1
<1> QED BY <1>6, <1>7, <1>14, <1>15 DEF InTurn, X

-----------------------------------------------------------------------------
(* The programs as they come in.                                           *)

Verified(p) ==
  /\ p \in Seq(SsaBlock) /\ Root \in DOMAIN p
  /\ \A b \in DOMAIN p : \A k \in DOMAIN p[b].ops : Optimisable(p, b, p[b].ops[k])
  /\ NestedOnce(p) /\ DeclaredOnce(p)

(* Ops get numbers one block after the other, each its own. *)
Numbers(p, os) ==
  /\ \A b \in DOMAIN p : \A k \in DOMAIN p[b].ops :
       NumberOf(p, b, k) \in DOMAIN os /\ os[NumberOf(p, b, k)] = p[b].ops[k]
  /\ \A u \in DOMAIN os : \E b \in DOMAIN p : \E k \in DOMAIN p[b].ops : u = NumberOf(p, b, k)
  /\ \A b, c \in DOMAIN p : \A k \in DOMAIN p[b].ops, j \in DOMAIN p[c].ops :
       NumberOf(p, b, k) = NumberOf(p, c, j) => b = c /\ k = j

LEMMA WithinBefore ==
  ASSUME NEW x \in Nat, NEW y \in Nat, NEW l \in Nat, NEW k \in Nat, NEW j \in Nat \ {0},
         k <= l, x + l <= y
  PROVE  x + k < y + j
OBVIOUS

LEMMA Numbering ==
  ASSUME NEW p \in Seq(SsaBlock)
  PROVE  /\ FlattenSeq([b \in DOMAIN p |-> p[b].ops]) \in Seq(SsaOp)
         /\ Numbers(p, FlattenSeq([b \in DOMAIN p |-> p[b].ops]))
<1> DEFINE X == SsaOp
           lists == [b \in DOMAIN p |-> p[b].ops]
           os == FlattenSeq(lists)
           L == Len(p)
           Q == Seq(X)
<1>1. L \in Nat /\ DOMAIN p = 1 .. L /\ \A b \in DOMAIN p : p[b].ops \in Q
  <2>1. \A b \in DOMAIN p : p[b] \in SsaBlock
    OBVIOUS
  <2> QED BY <2>1 DEF SsaBlock
<1>2. lists \in Seq(Q) /\ Len(lists) = L /\ DOMAIN lists = 1 .. L /\ \A b \in 1 .. L : lists[b] = p[b].ops
  <2> HIDE DEF Q, L
  <2> QED BY <1>1
<1> HIDE DEF lists, os, L, X
<1>3. os \in Seq(X)
  BY <1>2, Flattened DEF os
<1>4. PICK off : Begins(lists, off) /\ MadeOf(os, lists, off, L)
  BY <1>2, Flattened DEF os
<1>5. off \in [0 .. L -> Nat] /\ off[0] = 0 /\ \A i \in 1 .. L : off[i] = off[i - 1] + Len(lists[i])
  BY <1>2, <1>4 DEF Begins
<1>6. ASSUME NEW b \in 1 .. L, NEW k
      PROVE  NumberOf(p, b, k) = k + off[b - 1]
  <2> DEFINE pre == [c \in 1 .. b - 1 |-> p[c].ops]
             S == {i \in 0 .. b - 1 : TRUE}
  <2>1. b - 1 \in Nat /\ b - 1 \in 0 .. L /\ \A c \in 1 .. b - 1 : c \in 1 .. L
    BY <1>1
  <2>2. pre \in Seq(Q) /\ Len(pre) = b - 1 /\ DOMAIN pre = 1 .. b - 1
        /\ \A c \in 1 .. b - 1 : pre[c] = lists[c]
    <3> HIDE DEF Q
    <3> QED BY <1>1, <1>2, <2>1
  <2>3. NumberOf(p, b, k) = k + Len(FlattenSeq(pre))
    BY DEF NumberOf
  <2> HIDE DEF pre
  <2>4. PICK upto : Begins(pre, upto) /\ MadeOf(FlattenSeq(pre), pre, upto, Len(pre))
    BY <2>2, Flattened
  <2>5. upto[0] = 0 /\ \A i \in 1 .. b - 1 : upto[i] = upto[i - 1] + Len(pre[i])
    BY <2>2, <2>4 DEF Begins
  <2> DEFINE Same == {i \in 0 .. b - 1 : upto[i] = off[i]}
  <2>6. 0 \in Same
    BY <1>5, <2>1, <2>5
  <2>7. ASSUME NEW i \in 1 .. b - 1, i - 1 \in Same
        PROVE  i \in Same
    <3>1. upto[i] = upto[i - 1] + Len(pre[i]) /\ pre[i] = lists[i] /\ i \in 0 .. b - 1
      BY <2>1, <2>2, <2>5
    <3>2. off[i] = off[i - 1] + Len(lists[i])
      BY <1>5, <2>1
    <3> QED BY <2>7, <3>1, <3>2
  <2>8. \A i \in 0 .. b - 1 : i \in Same
    <3> HIDE DEF Same
    <3> QED BY <2>1, <2>6, <2>7, CountingUp
  <2>9. upto[b - 1] = off[b - 1]
    BY <2>1, <2>8
  <2>10. Len(FlattenSeq(pre)) = upto[b - 1]
    BY <2>2, <2>4 DEF MadeOf
  <2> QED BY <2>3, <2>9, <2>10
<1>7. ASSUME NEW b \in 1 .. L, NEW k \in DOMAIN p[b].ops
      PROVE  /\ k \in Nat \ {0} /\ k <= Len(lists[b]) /\ k \in DOMAIN lists[b] /\ Len(lists[b]) \in Nat
             /\ off[b - 1] \in Nat /\ NumberOf(p, b, k) = off[b - 1] + k
             /\ NumberOf(p, b, k) \in Nat
  <2>1. lists[b] = p[b].ops /\ lists[b] \in Q
    BY <1>1, <1>2
  <2>2. k \in DOMAIN lists[b] /\ k \in Nat \ {0} /\ k <= Len(lists[b]) /\ Len(lists[b]) \in Nat
    BY <2>1
  <2>3. b - 1 \in 0 .. L
    BY <1>1
  <2>4. off[b - 1] \in Nat
    BY <1>5, <2>3
  <2>5. NumberOf(p, b, k) = k + off[b - 1]
    BY <1>6
  <2> QED BY <2>2, <2>4, <2>5
<1>8. ASSUME NEW b \in 1 .. L, NEW k \in DOMAIN p[b].ops
      PROVE  NumberOf(p, b, k) \in DOMAIN os /\ os[NumberOf(p, b, k)] = p[b].ops[k]
  <2>1. k \in DOMAIN lists[b] /\ NumberOf(p, b, k) = off[b - 1] + k
    BY <1>7
  <2>2. off[b - 1] + k \in DOMAIN os /\ os[off[b - 1] + k] = lists[b][k]
    BY <1>4, <2>1 DEF MadeOf
  <2> QED BY <1>2, <2>1, <2>2
<1>9. ASSUME NEW u \in DOMAIN os
      PROVE  \E b \in 1 .. L : \E k \in DOMAIN p[b].ops : u = NumberOf(p, b, k)
  <2>1. PICK b \in 1 .. L : \E k \in DOMAIN lists[b] : u = off[b - 1] + k
    BY <1>4 DEF MadeOf
  <2>2. PICK k \in DOMAIN p[b].ops : u = off[b - 1] + k
    BY <1>2, <2>1
  <2> QED BY <1>7, <2>2
<1>10. ASSUME NEW b \in 1 .. L, NEW c \in 1 .. L, b < c,
              NEW k \in DOMAIN p[b].ops, NEW j \in DOMAIN p[c].ops
       PROVE  NumberOf(p, b, k) < NumberOf(p, c, j)
  <2>1. b \in 0 .. L /\ c - 1 \in 0 .. L /\ b <= c - 1
    BY <1>1, <1>10
  <2>2. off[b] <= off[c - 1]
    BY <1>2, <1>4, <2>1, BeginningsGrow
  <2>3. off[b] = off[b - 1] + Len(lists[b])
    BY <1>5
  <2>4. NumberOf(p, b, k) = off[b - 1] + k /\ NumberOf(p, c, j) = off[c - 1] + j
        /\ k \in Nat /\ j \in Nat \ {0} /\ k <= Len(lists[b]) /\ Len(lists[b]) \in Nat
        /\ off[b - 1] \in Nat /\ off[c - 1] \in Nat
    BY <1>7
  <2> HIDE DEF lists
  <2>5. off[b - 1] + Len(lists[b]) <= off[c - 1]
    BY <2>2, <2>3
  <2>6. off[b - 1] + k < off[c - 1] + j
    BY <2>4, <2>5, WithinBefore
  <2> QED BY <2>4, <2>6
<1>11. ASSUME NEW b \in 1 .. L, NEW c \in 1 .. L, NEW k \in DOMAIN p[b].ops, NEW j \in DOMAIN p[c].ops,
              NumberOf(p, b, k) = NumberOf(p, c, j)
       PROVE  b = c /\ k = j
  <2>1. b \in Nat /\ c \in Nat
    BY <1>1
  <2>2. NumberOf(p, b, k) \in Nat /\ NumberOf(p, c, j) \in Nat
    BY <1>7
  <2>3. ~ (b < c) /\ ~ (c < b)
    BY <1>10, <1>11, <2>2
  <2>4. b = c
    BY <2>1, <2>3
  <2> QED BY <1>7, <1>11, <2>4
<1>12. Numbers(p, os)
  BY <1>1, <1>8, <1>9, <1>11 DEF Numbers
<1> QED BY <1>3, <1>12 DEF os, lists, X

(* What the first state holds of the program. *)
Laid(p) ==
  /\ ops \in Seq(SsaOp) /\ blocks \in Seq(OptBlock) /\ DOMAIN blocks = DOMAIN p
  /\ \A b \in DOMAIN p :
       /\ blocks[b].ins = p[b].ins /\ blocks[b].outs = p[b].outs
       /\ DOMAIN blocks[b].ops = DOMAIN p[b].ops
       /\ \A k \in DOMAIN p[b].ops :
            blocks[b].ops[k] \in DOMAIN ops /\ ops[blocks[b].ops[k]] = p[b].ops[k]
  /\ \A u \in DOMAIN ops : \E b \in DOMAIN p : \E k \in DOMAIN p[b].ops : u = blocks[b].ops[k]
  /\ \A b, c \in DOMAIN p : \A k \in DOMAIN p[b].ops, j \in DOMAIN p[c].ops :
       blocks[b].ops[k] = blocks[c].ops[j] => b = c /\ k = j

Entered(p) ==
  /\ blocks = [b \in DOMAIN p |-> [p[b] EXCEPT !.ops = [k \in DOMAIN @ |-> NumberOf(p, b, k)]]]
  /\ ops = FlattenSeq([b \in DOMAIN p |-> p[b].ops])

LEMMA LaidAtFirst ==
  ASSUME NEW p, Verified(p), Entered(p)
  PROVE  Laid(p)
<1> DEFINE numbers(b) == [k \in DOMAIN p[b].ops |-> NumberOf(p, b, k)]
<1>1. p \in Seq(SsaBlock) /\ DOMAIN p = 1 .. Len(p) /\ Len(p) \in Nat
  BY DEF Verified
<1>2. ops \in Seq(SsaOp) /\ Numbers(p, ops)
  BY <1>1, Numbering DEF Entered
<1>3. ASSUME NEW b \in DOMAIN p
      PROVE  /\ blocks[b] \in OptBlock /\ blocks[b].ins = p[b].ins /\ blocks[b].outs = p[b].outs
             /\ DOMAIN blocks[b].ops = DOMAIN p[b].ops
             /\ \A k \in DOMAIN p[b].ops : blocks[b].ops[k] = NumberOf(p, b, k)
  <2>1. p[b] \in SsaBlock
    BY <1>1
  <2>2. blocks[b] = [p[b] EXCEPT !.ops = numbers(b)]
    BY DEF Entered
  <2>3. p[b].ops \in Seq(SsaOp)
    BY <2>1 DEF SsaBlock
  <2>4. DOMAIN p[b].ops = 1 .. Len(p[b].ops) /\ Len(p[b].ops) \in Nat
    BY <2>3
  <2>5. \A k \in DOMAIN p[b].ops : NumberOf(p, b, k) \in Nat
    BY <1>2 DEF Numbers
  <2>6. numbers(b) \in Seq(Nat)
    BY <2>4, <2>5
  <2> DEFINE n == numbers(b)
  <2>7. DOMAIN n = DOMAIN p[b].ops /\ \A k \in DOMAIN p[b].ops : n[k] = NumberOf(p, b, k)
    OBVIOUS
  <2> HIDE DEF n, numbers
  <2>8. [p[b] EXCEPT !.ops = n] \in OptBlock
    BY <2>1, <2>6 DEF SsaBlock, OptBlock, n
  <2>9. /\ [p[b] EXCEPT !.ops = n].ins = p[b].ins /\ [p[b] EXCEPT !.ops = n].outs = p[b].outs
        /\ [p[b] EXCEPT !.ops = n].ops = n
    BY <2>1 DEF SsaBlock
  <2> QED BY <2>2, <2>7, <2>8, <2>9 DEF n
<1>4. blocks \in Seq(OptBlock) /\ DOMAIN blocks = DOMAIN p
  <2>1. DOMAIN blocks = DOMAIN p /\ blocks = [b \in 1 .. Len(p) |-> blocks[b]]
    BY <1>1 DEF Entered
  <2>2. \A b \in 1 .. Len(p) : blocks[b] \in OptBlock
    BY <1>1, <1>3
  <2> DEFINE B == OptBlock
             bs == blocks
  <2>3. bs = [b \in 1 .. Len(p) |-> bs[b]] /\ \A b \in 1 .. Len(p) : bs[b] \in B
    BY <2>1, <2>2
  <2> HIDE DEF B, bs
  <2>4. bs \in Seq(B)
    BY <1>1, <2>3
  <2> QED BY <2>1, <2>4 DEF B, bs
<1>5. ASSUME NEW b \in DOMAIN p
      PROVE  /\ blocks[b].ins = p[b].ins /\ blocks[b].outs = p[b].outs
             /\ DOMAIN blocks[b].ops = DOMAIN p[b].ops
             /\ \A k \in DOMAIN p[b].ops :
                  blocks[b].ops[k] \in DOMAIN ops /\ ops[blocks[b].ops[k]] = p[b].ops[k]
  <2>1. \A k \in DOMAIN p[b].ops : NumberOf(p, b, k) \in DOMAIN ops /\ ops[NumberOf(p, b, k)] = p[b].ops[k]
    BY <1>2 DEF Numbers
  <2> QED BY <1>3, <2>1
<1>6. ASSUME NEW u \in DOMAIN ops
      PROVE  \E b \in DOMAIN p : \E k \in DOMAIN p[b].ops : u = blocks[b].ops[k]
  <2>1. PICK b \in DOMAIN p : \E k \in DOMAIN p[b].ops : u = NumberOf(p, b, k)
    BY <1>2 DEF Numbers
  <2>2. PICK k \in DOMAIN p[b].ops : u = NumberOf(p, b, k)
    BY <2>1
  <2>3. blocks[b].ops[k] = NumberOf(p, b, k)
    BY <1>3
  <2> QED BY <2>2, <2>3
<1>7. ASSUME NEW b \in DOMAIN p, NEW c \in DOMAIN p, NEW k \in DOMAIN p[b].ops, NEW j \in DOMAIN p[c].ops,
             blocks[b].ops[k] = blocks[c].ops[j]
      PROVE  b = c /\ k = j
  <2>1. NumberOf(p, b, k) = NumberOf(p, c, j)
    <3>1. blocks[b].ops[k] = NumberOf(p, b, k) /\ blocks[c].ops[j] = NumberOf(p, c, j)
      BY <1>3
    <3> QED BY <1>7, <3>1
  <2> QED BY <1>2, <2>1 DEF Numbers
<1> QED BY <1>2, <1>4, <1>5, <1>6, <1>7 DEF Laid

LEMMA LaidInShape ==
  ASSUME NEW p, Verified(p), Laid(p)
  PROVE  Shaped /\ Apart(blocks, ops) /\ \A u \in DOMAIN ops : Distinct(ops[u])
<1>1. \A b \in DOMAIN p : \A k \in DOMAIN p[b].ops : Optimisable(p, b, p[b].ops[k])
  BY DEF Verified
<1>2. DOMAIN blocks = DOMAIN p /\ DOMAIN p \subseteq Nat
  BY DEF Laid, Verified
<1>3. ASSUME NEW u \in DOMAIN ops
      PROVE  \E b \in DOMAIN p : \E k \in DOMAIN p[b].ops :
               u = blocks[b].ops[k] /\ ops[u] = p[b].ops[k] /\ Optimisable(p, b, ops[u])
  <2>1. PICK b \in DOMAIN p : \E k \in DOMAIN p[b].ops : u = blocks[b].ops[k]
    BY DEF Laid
  <2>2. PICK k \in DOMAIN p[b].ops : u = blocks[b].ops[k]
    BY <2>1
  <2>3. ops[blocks[b].ops[k]] = p[b].ops[k]
    BY DEF Laid
  <2>4. Optimisable(p, b, p[b].ops[k])
    BY <1>1
  <2> QED BY <2>2, <2>3, <2>4
<1>4. ASSUME NEW u \in DOMAIN ops
      PROVE  OpRight(u) /\ Distinct(ops[u])
  <2>1. PICK b \in DOMAIN p : Optimisable(p, b, ops[u])
    BY <1>3
  <2> DEFINE op == ops[u]
  <2>2. /\ BlocksOf(op) \subseteq {c \in DOMAIN p : c > b}
        /\ op.id \in ComputingId => Len(op.outs) = 1
        /\ op.id # "IF" => {op.then, op.els} = {None}
        /\ op.id \notin LoopId => {op.cond, op.do} = {None}
        /\ op.id \in LoopId \cup {"IF"} => BlocksOf(op) # {}
        /\ op.id = "IF" => \A c \in BlocksOf(op) : Len(p[c].outs) = Len(op.outs)
        /\ (op.a \in Val <=> op.id \in ComputingId \cup {"IF"})
        /\ (op.b \in Val <=> op.id = "OR")
        /\ op.then = op.els => op.then = None
        /\ op.cond = op.do => op.cond = None
    BY <2>1 DEF Optimisable
  <2> HIDE DEF op
  <2>3. op.id \in ComputingId => op.id # "IF" /\ op.id \notin LoopId
    BY DEF ComputingId, LoopId
  <2>4. op.id \in ComputingId => BlocksOf(op) = {}
    BY <2>2, <2>3 DEF BlocksOf
  <2>5. op.id = "IF" => op.id \notin LoopId
    BY DEF LoopId
  <2>6. Distinct(op)
    BY <2>2, <2>5 DEF Distinct
  <2>7. op.id = "IF" => \A c \in {op.then, op.els} \ {None} : Len(blocks[c].outs) = Len(op.outs)
    <3> SUFFICES ASSUME op.id = "IF", NEW c \in {op.then, op.els} \ {None}
                 PROVE  Len(blocks[c].outs) = Len(op.outs)
      OBVIOUS
    <3>1. c \in BlocksOf(op)
      BY DEF BlocksOf
    <3>2. c \in DOMAIN p /\ Len(p[c].outs) = Len(op.outs)
      BY <2>2, <3>1
    <3> QED BY <3>2 DEF Laid
  <2>8. BlocksOf(op) \subseteq DOMAIN blocks
    BY <1>2, <2>2
  <2>9. OpRight(u)
    <3>1. /\ BlocksOf(op) \subseteq DOMAIN blocks
          /\ op.id \in ComputingId => Len(op.outs) = 1 /\ BlocksOf(op) = {}
          /\ op.id \in LoopId \cup {"IF"} => BlocksOf(op) # {}
          /\ op.id = "IF" => \A c \in {op.then, op.els} \ {None} : Len(blocks[c].outs) = Len(op.outs)
          /\ (op.a \in Val <=> op.id \in ComputingId \cup {"IF"})
          /\ (op.b \in Val <=> op.id = "OR")
      BY <2>2, <2>4, <2>7, <2>8
    <3> QED BY <3>1 DEF OpRight, op
  <2> QED BY <2>6, <2>9 DEF op
<1>5. ASSUME NEW b \in DOMAIN p, NEW u \in ToSet(blocks[b].ops)
      PROVE  \E k \in DOMAIN p[b].ops : u = blocks[b].ops[k] /\ u \in DOMAIN ops /\ ops[u] = p[b].ops[k]
  <2>1. DOMAIN blocks[b].ops = DOMAIN p[b].ops
    BY DEF Laid
  <2>2. PICK k \in DOMAIN p[b].ops : u = blocks[b].ops[k]
    BY <2>1 DEF ToSet
  <2>3. blocks[b].ops[k] \in DOMAIN ops /\ ops[blocks[b].ops[k]] = p[b].ops[k]
    BY DEF Laid
  <2> QED BY <2>2, <2>3
<1>6. ASSUME NEW b \in DOMAIN p PROVE ListRight(b)
  <2>1. ToSet(blocks[b].ops) \subseteq DOMAIN ops
    BY <1>5
  <2>2. IsInjective(blocks[b].ops)
    <3>1. \A k, j \in DOMAIN blocks[b].ops : blocks[b].ops[k] = blocks[b].ops[j] => k = j
      BY DEF Laid
    <3> QED BY <3>1 DEF IsInjective
  <2>3. ASSUME NEW u \in ToSet(blocks[b].ops), NEW d \in BlocksOf(ops[u])
        PROVE  d > b
    <3>1. PICK k \in DOMAIN p[b].ops : ops[u] = p[b].ops[k]
      BY <1>5
    <3>2. Optimisable(p, b, ops[u])
      BY <1>1, <3>1
    <3> QED BY <3>2 DEF Optimisable
  <2> QED BY <2>1, <2>2, <2>3 DEF ListRight
<1>7. Shaped
  <2>1. ops \in Seq(SsaOp) /\ blocks \in Seq(OptBlock) /\ Root \in DOMAIN blocks
    BY DEF Laid, Verified
  <2> QED BY <1>2, <1>4, <1>6, <2>1 DEF Shaped
<1>8. ASSUME NEW u \in DOMAIN ops, NEW w \in DOMAIN ops, BlocksOf(ops[u]) \cap BlocksOf(ops[w]) # {}
      PROVE  u = w
  <2>1. PICK b \in DOMAIN p : \E k \in DOMAIN p[b].ops : u = blocks[b].ops[k] /\ ops[u] = p[b].ops[k]
    BY <1>3
  <2>2. PICK k \in DOMAIN p[b].ops : u = blocks[b].ops[k] /\ ops[u] = p[b].ops[k]
    BY <2>1
  <2>3. PICK c \in DOMAIN p : \E j \in DOMAIN p[c].ops : w = blocks[c].ops[j] /\ ops[w] = p[c].ops[j]
    BY <1>3
  <2>4. PICK j \in DOMAIN p[c].ops : w = blocks[c].ops[j] /\ ops[w] = p[c].ops[j]
    BY <2>3
  <2>5. BlocksOf(p[b].ops[k]) \cap BlocksOf(p[c].ops[j]) # {}
    BY <1>8, <2>2, <2>4
  <2>6. b = c /\ k = j
    BY <2>5 DEF Verified, NestedOnce
  <2> QED BY <2>2, <2>4, <2>6
<1>9. ASSUME NEW b \in DOMAIN p, NEW c \in DOMAIN p, NEW u \in ToSet(blocks[b].ops), u \in ToSet(blocks[c].ops)
      PROVE  b = c
  <2>1. PICK k \in DOMAIN p[b].ops : u = blocks[b].ops[k]
    BY <1>5
  <2>2. PICK j \in DOMAIN p[c].ops : u = blocks[c].ops[j]
    BY <1>5, <1>9
  <2>3. blocks[b].ops[k] = blocks[c].ops[j]
    BY <2>1, <2>2
  <2>4. \A d, e \in DOMAIN p : \A n \in DOMAIN p[d].ops, m \in DOMAIN p[e].ops :
          blocks[d].ops[n] = blocks[e].ops[m] => d = e
    BY DEF Laid
  <2> QED BY <2>3, <2>4
<1>10. Apart(blocks, ops)
  <2>1. \A b, c \in DOMAIN blocks : ToSet(blocks[b].ops) \cap ToSet(blocks[c].ops) # {} => b = c
    BY <1>2, <1>9
  <2> QED BY <1>8, <2>1 DEF Apart
<1> QED BY <1>4, <1>7, <1>10

LEMMA LaidOnce ==
  ASSUME NEW p, Verified(p), Laid(p)
  PROVE  Single
<1>1. Shaped
  BY LaidInShape
<1>2. Reachable \subseteq DOMAIN ops /\ BlocksIn(Root) \subseteq DOMAIN p
  BY <1>1, ReachableAreOps DEF Laid, Verified
<1>3. ASSUME NEW u \in DOMAIN ops
      PROVE  \E b \in DOMAIN p : \E k \in DOMAIN p[b].ops : u = blocks[b].ops[k] /\ ops[u] = p[b].ops[k]
  <2>1. PICK b \in DOMAIN p : \E k \in DOMAIN p[b].ops : u = blocks[b].ops[k]
    BY DEF Laid
  <2>2. PICK k \in DOMAIN p[b].ops : u = blocks[b].ops[k]
    BY <2>1
  <2>3. ops[blocks[b].ops[k]] = p[b].ops[k]
    BY DEF Laid
  <2> QED BY <2>2, <2>3
<1>4. ASSUME NEW u \in Reachable, NEW w \in Reachable, ToSet(ops[u].outs) \cap ToSet(ops[w].outs) # {}
      PROVE  u = w
  <2>0. u \in DOMAIN ops /\ w \in DOMAIN ops
    BY <1>2
  <2>1. PICK b \in DOMAIN p : \E k \in DOMAIN p[b].ops : u = blocks[b].ops[k] /\ ops[u] = p[b].ops[k]
    BY <1>3, <2>0
  <2>2. PICK k \in DOMAIN p[b].ops : u = blocks[b].ops[k] /\ ops[u] = p[b].ops[k]
    BY <2>1
  <2>3. PICK c \in DOMAIN p : \E j \in DOMAIN p[c].ops : w = blocks[c].ops[j] /\ ops[w] = p[c].ops[j]
    BY <1>3, <2>0
  <2>4. PICK j \in DOMAIN p[c].ops : w = blocks[c].ops[j] /\ ops[w] = p[c].ops[j]
    BY <2>3
  <2>5. ToSet(p[b].ops[k].outs) \cap ToSet(p[c].ops[j].outs) # {}
    BY <1>4, <2>2, <2>4
  <2>6. b = c /\ k = j
    BY <2>5 DEF Verified, DeclaredOnce
  <2> QED BY <2>2, <2>4, <2>6
<1>5. ASSUME NEW b \in BlocksIn(Root), NEW c \in BlocksIn(Root), ToSet(blocks[b].ins) \cap ToSet(blocks[c].ins) # {}
      PROVE  b = c
  <2>1. b \in DOMAIN p /\ c \in DOMAIN p
    BY <1>2
  <2>2. blocks[b].ins = p[b].ins /\ blocks[c].ins = p[c].ins
    BY <2>1 DEF Laid
  <2> QED BY <1>5, <2>1, <2>2 DEF Verified, DeclaredOnce
<1>6. ASSUME NEW b \in BlocksIn(Root), NEW u \in Reachable
      PROVE  ToSet(blocks[b].ins) \cap ToSet(ops[u].outs) = {}
  <2>0. u \in DOMAIN ops /\ b \in DOMAIN p
    BY <1>2
  <2>1. PICK c \in DOMAIN p : \E k \in DOMAIN p[c].ops : u = blocks[c].ops[k] /\ ops[u] = p[c].ops[k]
    BY <1>3, <2>0
  <2>2. PICK k \in DOMAIN p[c].ops : ops[u] = p[c].ops[k]
    BY <2>1
  <2>3. blocks[b].ins = p[b].ins
    BY <2>0 DEF Laid
  <2>4. ToSet(p[b].ins) \cap ToSet(p[c].ops[k].outs) = {}
    BY <2>0 DEF Verified, DeclaredOnce
  <2> QED BY <2>2, <2>3, <2>4
<1> QED BY <1>4, <1>5, <1>6 DEF Single

LEMMA InitInv == Init => OptInv
<1> SUFFICES ASSUME Init PROVE OptInv
  OBVIOUS
<1>1. PICK case \in Cases :
        /\ blocks = [b \in DOMAIN case.program |->
              [case.program[b] EXCEPT !.ops = [k \in DOMAIN @ |-> NumberOf(case.program, b, k)]]]
        /\ ops = FlattenSeq([b \in DOMAIN case.program |-> case.program[b].ops])
        /\ decl = [v \in Var |->
              LET declaring == {u \in DOMAIN ops : v \in ToSet(ops[u].outs)}
              IN  IF declaring = {} THEN 0 ELSE Min(declaring)]
        /\ todo = Schedule(case) /\ at = 0 /\ crashed = FALSE
  BY DEF Init
<1> DEFINE p == case.program
<1>2. Verified(p)
  BY SsaOptAssumption DEF Verified
<1>3. Laid(p)
  <2> HIDE DEF p
  <2>1. blocks = [b \in DOMAIN p |-> [p[b] EXCEPT !.ops = [k \in DOMAIN @ |-> NumberOf(p, b, k)]]]
    BY <1>1 DEF p
  <2>2. ops = FlattenSeq([b \in DOMAIN p |-> p[b].ops])
    BY <1>1 DEF p
  <2>3. Entered(p)
    BY <2>1, <2>2 DEF Entered
  <2> QED BY <1>2, <2>3, LaidAtFirst
<1> HIDE DEF p
<1>4. Shaped /\ Apart(blocks, ops) /\ (\A u \in DOMAIN ops : Distinct(ops[u])) /\ Single
  BY <1>2, <1>3, LaidInShape, LaidOnce
<1>5. InTurn(todo)
  <2>1. InTurn(Schedule(case))
    BY <1>4, ScheduleIs
  <2> QED BY <1>1, <2>1
<1>6. decl \in [Var -> DOMAIN ops \cup {0}]
  <2>1. ASSUME NEW v \in Var PROVE decl[v] \in DOMAIN ops \cup {0}
    <3> DEFINE declaring == {u \in DOMAIN ops : v \in ToSet(ops[u].outs)}
    <3>1. decl[v] = IF declaring = {} THEN 0 ELSE Min(declaring)
      BY <1>1
    <3>2. Len(ops) \in Nat /\ DOMAIN ops = 1 .. Len(ops) /\ declaring \in SUBSET (1 .. Len(ops))
      BY <1>4 DEF Shaped
    <3> HIDE DEF declaring
    <3>3. declaring # {} => Min(declaring) \in declaring
      BY <3>2, LeastIsIn
    <3> QED BY <3>1, <3>2, <3>3
  <2>2. decl = [v \in Var |-> decl[v]]
    BY <1>1
  <2> QED BY <2>1, <2>2
<1>7. Tables
  BY <1>1, <1>5, <1>6 DEF Tables, InTurn, Turns
<1>8. Pending
  BY <1>5 DEF Pending, InTurn
<1>9. NestedApart
  BY <1>4 DEF NestedApart, Apart
<1>10. ListsApart
  <2>1. BlocksIn(Root) \subseteq DOMAIN blocks
    BY <1>4, ReachableAreOps DEF Shaped
  <2> QED BY <1>4, <2>1 DEF ListsApart, Apart
<1> QED BY <1>4, <1>7, <1>8, <1>9, <1>10 DEF OptInv

(* TypeOK, at all times and for every program the verifier lets in:        *)
(* whatever was folded, joined, spliced or removed, ops keep the operands, *)
(* results and blocks of their kind, and no list and no table names an op  *)
(* that does not exist.                                                    *)
THEOREM Types == Spec => []TypeOK
<1> QED BY InitInv, StepInv, InvTypes, PTL DEF Spec

(* SingleAssignment, at all times: the copies of vx_opt_join_compute and   *)
(* the renaming of vx_opt_reduce_if never leave two declarations of a      *)
(* variable, which is what vx_IrBlock_verify demands once vx_opt returns.  *)
THEOREM DeclaredOnceAlways == Spec => []SingleAssignment
<1> QED BY InitInv, StepInv, InvSingle, PTL DEF Spec

=============================================================================
