--------------------------- MODULE LlirExecProofs ---------------------------
(***************************************************************************)
(* Proofs about the runs of flat programs, of any size: when two programs  *)
(* do the same, and the rewritings that make a program which does.         *)
(*                                                                         *)
(* A program is the op c[i] of each slot i and the slots A in its op list. *)
(* Two programs have the same runs when each simulates the other, a step   *)
(* of the one matched by any number of steps of the other; then the        *)
(* interpreter answers the same, because it watches long enough to see a   *)
(* machine state twice in a run that never stops.                          *)
(***************************************************************************)
EXTENDS LlirExec, FiniteSetTheorems, WellFoundedInduction, TLAPS

(* The numbers are well ordered, so that a set of them has a least one. *)
LEMMA MinIsLeast ==
  ASSUME NEW S \in SUBSET Nat, S # {}
  PROVE  Min(S) \in S /\ \A y \in S : Min(S) <= y
<1> DEFINE R == {ss \in Nat \X Nat : ss[1] < ss[2]}
<1>1. IsWellFoundedOn(R, Nat)
  BY NatLessThanWellFounded DEF OpToRel
<1>2. PICK x \in S : \A y \in S : ~ (<<y, x>> \in R)
  <2> HIDE DEF R
  <2> QED BY <1>1, WFMin
<1>3. \A y \in S : x <= y
  <2> SUFFICES ASSUME NEW y \in S PROVE x <= y
    OBVIOUS
  <2>1. <<y, x>> \in Nat \X Nat /\ ~ (<<y, x>> \in R)
    BY <1>2
  <2>2. ~ (<<y, x>>[1] < <<y, x>>[2])
    BY <2>1, Zenon
  <2> QED BY <2>1, <2>2
<1> QED BY <1>3 DEF Min

(* Induction, with the property as a set of numbers. *)
LEMMA CountingUp ==
  ASSUME NEW S, 0 \in S, \A n \in Nat : n \in S => n + 1 \in S
  PROVE  \A n \in Nat : n \in S
<1> SUFFICES ASSUME NEW n \in Nat, n \notin S PROVE FALSE
  OBVIOUS
<1> DEFINE Out == {k \in Nat : k \notin S}
<1>1. Out \in SUBSET Nat /\ Out # {}
  OBVIOUS
<1> DEFINE least == Min(Out)
<1>2. least \in Out /\ \A y \in Out : least <= y
  BY <1>1, MinIsLeast
<1> HIDE DEF least
<1>3. least # 0 /\ least \in Nat
  BY <1>2
<1>4. least - 1 \in Nat /\ least - 1 \notin Out
  BY <1>2, <1>3
<1>5. (least - 1) + 1 \in S
  BY <1>4
<1> QED BY <1>2, <1>3, <1>5

(* A program of good shape in which jumps find their label; nothing is     *)
(* placed in memory.                                                       *)
Runnable(c, A) ==
  /\ c \in [Slot -> Op] /\ A \subseteq Slot
  /\ \A i \in A : OpShape(c[i]) /\ c[i].id # "PLACE"
  /\ \A i \in A : IsJump(c[i]) =>
       \E j \in A : /\ c[j].id = "LABEL" /\ c[j].label = c[i].label
                    /\ \A k \in A : c[k].id = "LABEL" /\ c[k].label = c[i].label => k = j

(* The machine states of its runs. *)
State(A) ==
  {m \in [at : A \cup {End}, env : Env, calls : Seq(Val), ret : Val \cup {None}] :
     m.at # End => m.ret = None}

LEMMA SlotsAre ==
  /\ \A s \in Slot : s \in Nat /\ 0 < s /\ s < End /\ s # End
  /\ End \in Nat /\ End \notin Slot
<1>1. MaxOps \in Nat \ {0}
  BY LlirAssumption
<1> QED BY <1>1 DEF Slot, End

LEMMA NextIs ==
  ASSUME NEW A \in SUBSET Slot, NEW i \in Nat
  PROVE  /\ NextOf(A, i) = End => \A j \in A : ~ (i < j)
         /\ NextOf(A, i) # End =>
              /\ NextOf(A, i) \in A /\ i < NextOf(A, i)
              /\ \A j \in A : i < j => NextOf(A, i) <= j
         /\ NextOf(A, i) \in A \cup {End}
<1>1. After(A, i) \in SUBSET Nat /\ \A j \in After(A, i) : j # End
  BY SlotsAre DEF After
<1>2. CASE After(A, i) = {}
  BY <1>2 DEF NextOf, After
<1>3. CASE After(A, i) # {}
  <2> DEFINE n == Min(After(A, i))
  <2>1. n \in After(A, i) /\ \A y \in After(A, i) : n <= y
    BY <1>1, <1>3, MinIsLeast
  <2>2. NextOf(A, i) = n
    BY <1>3 DEF NextOf
  <2> HIDE DEF n
  <2> QED BY <1>1, <2>1, <2>2 DEF After
<1> QED BY <1>2, <1>3

(* The next slot is known by what it is. *)
LEMMA NextUnique ==
  ASSUME NEW A \in SUBSET Slot, NEW i \in Nat, NEW n \in A, i < n,
         \A j \in A : i < j => n <= j
  PROVE  NextOf(A, i) = n
<1>1. n \in Nat /\ n # End /\ \A j \in A : j \in Nat /\ j # End
  BY SlotsAre
<1> DEFINE x == NextOf(A, i)
<1>2. x # End
  BY NextIs
<1>3. x \in A /\ i < x /\ x <= n
  BY <1>2, NextIs
<1> HIDE DEF x
<1>4. n <= x
  BY <1>3
<1>5. x = n
  BY <1>1, <1>3, <1>4
<1> QED BY <1>5 DEF x

LEMMA LabelIs ==
  ASSUME NEW c, NEW A, NEW j \in A, NEW l, c[j].id = "LABEL", c[j].label = l,
         \A k \in A : c[k].id = "LABEL" /\ c[k].label = l => k = j
  PROVE  LabelSlot(c, A, l) = j
BY DEF LabelSlot

(* A jump lands on the label it names. *)
LEMMA JumpLands ==
  ASSUME NEW c, NEW A, Runnable(c, A), NEW i \in A, IsJump(c[i])
  PROVE  /\ LabelSlot(c, A, c[i].label) \in A
         /\ c[LabelSlot(c, A, c[i].label)].id = "LABEL"
         /\ c[LabelSlot(c, A, c[i].label)].label = c[i].label
         /\ \A k \in A : c[k].id = "LABEL" /\ c[k].label = c[i].label
                           => k = LabelSlot(c, A, c[i].label)
<1>1. PICK j \in A : /\ c[j].id = "LABEL" /\ c[j].label = c[i].label
                     /\ \A k \in A : c[k].id = "LABEL" /\ c[k].label = c[i].label => k = j
  BY DEF Runnable
<1>2. LabelSlot(c, A, c[i].label) = j
  BY <1>1, LabelIs
<1> QED BY <1>1, <1>2

LEMMA EnvTyped ==
  ASSUME NEW env \in Env, NEW op \in Op, OpShape(op), op.id # "PLACE"
  PROVE  EnvAfter(env, op) \in Env
<1>1. \A x \in Val : Read(env, x) \in Imm
  BY DEF Env, Read, Val
<1>2. \A x \in Imm : op.out \in Var => Assign(env, op, x) \in Env
  BY DEF Env, Assign
<1>3. 0 \in Imm /\ 1 \in Imm /\ None \notin Imm /\ \A x \in Imm : x \notin Var
  BY LlirAssumption DEF Imm
<1>4. op.id \in OpId /\ op.a \in Val \cup {None} /\ op.b \in Val \cup {None}
  BY DEF Op
<1>5. CASE op.id \in {"IMM", "NOT", "OR", "CMOV"}
  <2>1. op.out \in Var
    BY <1>5 DEF OpShape
  <2>2. CASE op.id = "IMM"
    BY <1>1, <1>2, <2>1, <2>2 DEF EnvAfter, OpShape
  <2>3. CASE op.id = "NOT"
    BY <1>2, <1>3, <2>1, <2>3 DEF EnvAfter
  <2>4. CASE op.id = "OR"
    BY <1>2, <1>3, <2>1, <2>4 DEF EnvAfter
  <2>5. CASE op.id = "CMOV"
    <3>1. Assign(env, op, Read(env, op.a)) \in Env
      BY <1>1, <1>2, <2>1, <2>5 DEF OpShape
    <3>2. op.b # None => Assign(env, op, Read(env, op.b)) \in Env
      BY <1>1, <1>2, <1>4, <2>1
    <3> QED BY <2>5, <3>1, <3>2 DEF EnvAfter
  <2> QED BY <1>5, <2>2, <2>3, <2>4, <2>5
<1>6. CASE op.id = "STORE"
  <2>1. Read(env, op.a) \notin Var
    <3>1. CASE op.a = None
      BY <3>1, LlirAssumption DEF Read
    <3> QED BY <1>1, <1>3, <1>4, <3>1
  <2> QED BY <1>6, <2>1 DEF EnvAfter
<1>7. CASE op.id \notin {"IMM", "NOT", "OR", "CMOV", "STORE"}
  BY <1>7 DEF EnvAfter
<1> QED BY <1>5, <1>6, <1>7

LEMMA ExecTyped ==
  ASSUME NEW c, NEW A, Runnable(c, A), NEW m \in State(A)
  PROVE  Exec(c, A, m) \in State(A)
<1>1. CASE m.at = End
  BY <1>1 DEF Exec
<1>2. CASE m.at # End
  <2> DEFINE op == c[m.at]
             x  == Exec(c, A, m)
  <2>1. /\ m.at \in A /\ m.at \in Nat /\ m.env \in Env /\ m.calls \in Seq(Val) /\ m.ret = None
        /\ A \in SUBSET Slot
    <3>1. /\ m.at \in A \cup {End} /\ m.env \in Env /\ m.calls \in Seq(Val)
          /\ m.at # End => m.ret = None
      BY DEF State
    <3>2. A \in SUBSET Slot
      BY DEF Runnable
    <3> QED BY <1>2, <3>1, <3>2, SlotsAre
  <2>2. op \in Op /\ OpShape(op) /\ op.id # "PLACE"
    BY <2>1 DEF Runnable
  <2>3. /\ x = [at |-> Target(c, A, m.env, m.at), env |-> EnvAfter(m.env, op),
                calls |-> IF op.id = "CALL" THEN Append(m.calls, Read(m.env, op.a)) ELSE m.calls,
                ret |-> IF op.id = "RETURN" THEN Read(m.env, op.a) ELSE m.ret]
    BY <1>2 DEF Exec
  <2> HIDE DEF x
  <2>4. Target(c, A, m.env, m.at) \in A \cup {End}
    <3>1. NextOf(A, m.at) \in A \cup {End}
      BY <2>1, NextIs
    <3>2. IsJump(op) => LabelSlot(c, A, op.label) \in A
      BY <2>1, JumpLands
    <3> QED BY <3>1, <3>2 DEF Target, IsJump
  <2>5. op.id = "RETURN" => Target(c, A, m.env, m.at) = End
    BY DEF Target
  <2>6. EnvAfter(m.env, op) \in Env
    BY <2>1, <2>2, EnvTyped
  <2>7. \A v \in Val : Read(m.env, v) \in Val
    BY <2>1 DEF Env, Read, Val
  <2>8. op.id = "CALL" => Append(m.calls, Read(m.env, op.a)) \in Seq(Val)
    BY <2>1, <2>2, <2>7 DEF OpShape
  <2>9. Read(m.env, op.a) \in Val \cup {None}
    <3>1. op.a \in Val \cup {None}
      BY <2>2 DEF Op
    <3>2. Read(m.env, None) = None
      BY LlirAssumption DEF Read
    <3> QED BY <2>7, <3>1, <3>2
  <2> HIDE DEF op
  <2> DEFINE at == Target(c, A, m.env, m.at)
             env == EnvAfter(m.env, op)
             calls == IF op.id = "CALL" THEN Append(m.calls, Read(m.env, op.a)) ELSE m.calls
             ret == IF op.id = "RETURN" THEN Read(m.env, op.a) ELSE m.ret
  <2>10. calls \in Seq(Val) /\ ret \in Val \cup {None} /\ (at # End => ret = None)
    BY <2>1, <2>5, <2>8, <2>9
  <2>11. x = [at |-> at, env |-> env, calls |-> calls, ret |-> ret]
    BY <2>3
  <2>12. at \in A \cup {End} /\ env \in Env
    BY <2>4, <2>6
  <2> HIDE DEF at, env, calls, ret
  <2>13. x \in State(A)
    BY <2>10, <2>11, <2>12 DEF State
  <2> QED BY <2>13 DEF x
<1> QED BY <1>1, <1>2

LEMMA StartTyped ==
  ASSUME NEW A \in SUBSET Slot, NEW env \in Env
  PROVE  Start(A, env) \in State(A)
<1>1. NextOf(A, 0) \in A \cup {End}
  BY NextIs
<1>2. <<>> \in Seq(Val)
  OBVIOUS
<1> QED BY <1>1, <1>2 DEF Start, State


(* A finite run of n steps. *)
IsPath(c, A, r, n) ==
  /\ r \in [0 .. n -> State(A)]
  /\ \A k \in 1 .. n : r[k] = Exec(c, A, r[k - 1])

Reaches(c, A, m, x) ==
  \E n \in Nat : \E r \in [0 .. n -> State(A)] :
    IsPath(c, A, r, n) /\ r[0] = m /\ r[n] = x

LEMMA ReachesItself ==
  ASSUME NEW c, NEW A, NEW m \in State(A)
  PROVE  Reaches(c, A, m, m)
<1> DEFINE r == [k \in 0 .. 0 |-> m]
<1>1. r \in [0 .. 0 -> State(A)] /\ IsPath(c, A, r, 0) /\ r[0] = m
  BY DEF IsPath
<1> QED BY <1>1 DEF Reaches

LEMMA LongerPath ==
  ASSUME NEW c, NEW A, Runnable(c, A), NEW n \in Nat, NEW r, IsPath(c, A, r, n)
  PROVE  \E s : IsPath(c, A, s, n + 1) /\ s[0] = r[0] /\ s[n + 1] = Exec(c, A, r[n])
<1> DEFINE x == Exec(c, A, r[n])
           s == [k \in 0 .. n + 1 |-> IF k = n + 1 THEN x ELSE r[k]]
<1>1. x \in State(A)
  BY ExecTyped DEF IsPath
<1> HIDE DEF x
<1>2. s \in [0 .. n + 1 -> State(A)]
  <2>1. \A k \in 0 .. n + 1 : k # n + 1 => k \in 0 .. n
    OBVIOUS
  <2> QED BY <1>1, <2>1 DEF IsPath
<1>3. s[0] = r[0] /\ s[n + 1] = x
  OBVIOUS
<1>4. ASSUME NEW k \in 1 .. n + 1
      PROVE  s[k] = Exec(c, A, s[k - 1])
  <2>1. CASE k = n + 1
    <3>1. s[k] = x /\ s[k - 1] = r[n]
      BY <2>1
    <3> QED BY <3>1 DEF x
  <2>2. CASE k # n + 1
    <3>1. k \in 1 .. n /\ s[k] = r[k] /\ s[k - 1] = r[k - 1]
      BY <2>2
    <3> HIDE DEF s
    <3> QED BY <3>1 DEF IsPath
  <2> QED BY <2>1, <2>2
<1> HIDE DEF s
<1> QED BY <1>2, <1>3, <1>4 DEF IsPath, x

LEMMA ReachesOn ==
  ASSUME NEW c, NEW A, Runnable(c, A), NEW m, NEW x, Reaches(c, A, m, x)
  PROVE  Reaches(c, A, m, Exec(c, A, x)) /\ m \in State(A) /\ x \in State(A)
<1>1. PICK n \in Nat : \E r \in [0 .. n -> State(A)] : IsPath(c, A, r, n) /\ r[0] = m /\ r[n] = x
  BY DEF Reaches
<1>2. PICK r \in [0 .. n -> State(A)] : IsPath(c, A, r, n) /\ r[0] = m /\ r[n] = x
  BY <1>1
<1>3. PICK s : IsPath(c, A, s, n + 1) /\ s[0] = r[0] /\ s[n + 1] = Exec(c, A, r[n])
  BY <1>2, LongerPath
<1>4. s \in [0 .. n + 1 -> State(A)] /\ n + 1 \in Nat /\ s[0] = m /\ s[n + 1] = Exec(c, A, x)
  BY <1>2, <1>3 DEF IsPath
<1>5. 0 \in 0 .. n /\ n \in 0 .. n
  OBVIOUS
<1> QED BY <1>2, <1>3, <1>4, <1>5 DEF Reaches

(* What holds where a run starts and after each step holds wherever it     *)
(* gets.                                                                   *)
LEMMA ReachedIn ==
  ASSUME NEW c, NEW A, NEW S, NEW m \in S, \A x \in S : Exec(c, A, x) \in S
  PROVE  \A x : Reaches(c, A, m, x) => x \in S
<1> SUFFICES ASSUME NEW n \in Nat, NEW r \in [0 .. n -> State(A)],
                    IsPath(c, A, r, n), r[0] = m
             PROVE  r[n] \in S
  BY DEF Reaches
<1> DEFINE Fine == {k \in Nat : k <= n => r[k] \in S}
<1>1. 0 \in Fine
  OBVIOUS
<1>2. ASSUME NEW k \in Nat, k \in Fine
      PROVE  k + 1 \in Fine
  <2> SUFFICES ASSUME k + 1 <= n PROVE r[k + 1] \in S
    OBVIOUS
  <2>1. k + 1 \in 1 .. n /\ (k + 1) - 1 = k
    OBVIOUS
  <2>2. r[k + 1] = Exec(c, A, r[k])
    BY <2>1 DEF IsPath
  <2> QED BY <1>2, <2>2
<1>3. \A k \in Nat : k \in Fine
  <2> HIDE DEF Fine
  <2> QED BY <1>1, <1>2, CountingUp
<1> QED BY <1>3

LEMMA ReachesFurther ==
  ASSUME NEW c, NEW A, Runnable(c, A), NEW m, NEW x, NEW y,
         Reaches(c, A, m, x), Reaches(c, A, x, y)
  PROVE  Reaches(c, A, m, y)
<1> DEFINE S == {z \in State(A) : Reaches(c, A, m, z)}
<1>1. x \in S
  BY ReachesOn
<1>2. \A z \in S : Exec(c, A, z) \in S
  BY ReachesOn, ExecTyped
<1>3. y \in S
  <2> HIDE DEF S
  <2> QED BY <1>1, <1>2, ReachedIn
<1> QED BY <1>3

(* There is a run of any length, and it is the only one. *)
LEMMA PathExists ==
  ASSUME NEW c, NEW A, Runnable(c, A), NEW m \in State(A)
  PROVE  \A n \in Nat : \E r : IsPath(c, A, r, n) /\ r[0] = m
<1> DEFINE Fine == {n \in Nat : \E r : IsPath(c, A, r, n) /\ r[0] = m}
<1>1. 0 \in Fine
  <2> DEFINE r == [k \in 0 .. 0 |-> m]
  <2>1. IsPath(c, A, r, 0) /\ r[0] = m
    BY DEF IsPath
  <2> QED BY <2>1
<1>2. ASSUME NEW n \in Nat, n \in Fine
      PROVE  n + 1 \in Fine
  <2>1. PICK r : IsPath(c, A, r, n) /\ r[0] = m
    BY <1>2
  <2>2. \E s : IsPath(c, A, s, n + 1) /\ s[0] = r[0]
    BY <2>1, LongerPath
  <2> QED BY <2>1, <2>2
<1>3. \A n \in Nat : n \in Fine
  <2> HIDE DEF Fine
  <2> QED BY <1>1, <1>2, CountingUp
<1> QED BY <1>3

LEMMA PathsAgree ==
  ASSUME NEW c, NEW A, NEW n \in Nat, NEW r, IsPath(c, A, r, n),
         NEW k \in Nat, NEW s, IsPath(c, A, s, k), r[0] = s[0]
  PROVE  \A j \in Nat : j <= n /\ j <= k => r[j] = s[j]
<1> DEFINE Fine == {j \in Nat : j <= n /\ j <= k => r[j] = s[j]}
<1>1. 0 \in Fine
  OBVIOUS
<1>2. ASSUME NEW j \in Nat, j \in Fine
      PROVE  j + 1 \in Fine
  <2> SUFFICES ASSUME j + 1 <= n, j + 1 <= k PROVE r[j + 1] = s[j + 1]
    OBVIOUS
  <2>1. j + 1 \in 1 .. n /\ j + 1 \in 1 .. k /\ (j + 1) - 1 = j /\ j <= n /\ j <= k
    OBVIOUS
  <2>2. r[j] = s[j]
    BY <1>2, <2>1
  <2> QED BY <2>1, <2>2 DEF IsPath
<1>3. \A j \in Nat : j \in Fine
  <2> HIDE DEF Fine
  <2> QED BY <1>1, <1>2, CountingUp
<1> QED BY <1>3

(* Once stopped, always stopped: a state that stopped is all a run gets to *)
(* from there.                                                             *)
LEMMA StoppedStays ==
  ASSUME NEW c, NEW A, NEW n \in Nat, NEW r, IsPath(c, A, r, n),
         NEW i \in 0 .. n, r[i].at = End
  PROVE  \A j \in i .. n : r[j] = r[i]
<1> DEFINE Fine == {j \in Nat : i <= j /\ j <= n => r[j] = r[i]}
<1>1. 0 \in Fine
  OBVIOUS
<1>2. ASSUME NEW j \in Nat, j \in Fine
      PROVE  j + 1 \in Fine
  <2> SUFFICES ASSUME i <= j + 1, j + 1 <= n PROVE r[j + 1] = r[i]
    OBVIOUS
  <2>1. CASE i = j + 1
    BY <2>1
  <2>2. CASE i # j + 1
    <3>1. i <= j /\ j <= n /\ j + 1 \in 1 .. n /\ (j + 1) - 1 = j
      BY <2>2
    <3>2. r[j] = r[i]
      BY <1>2, <3>1
    <3>3. r[j + 1] = Exec(c, A, r[j])
      BY <3>1 DEF IsPath
    <3> QED BY <3>2, <3>3 DEF Exec
  <2> QED BY <2>1, <2>2
<1>3. \A j \in Nat : j \in Fine
  <2> HIDE DEF Fine
  <2> QED BY <1>1, <1>2, CountingUp
<1>4. \A j \in i .. n : j \in Nat /\ i <= j /\ j <= n
  OBVIOUS
<1> QED BY <1>3, <1>4

-----------------------------------------------------------------------------
(* One program does what another does.                                     *)
Shows(x, y) == x.calls = y.calls /\ x.ret = y.ret /\ (x.at = End => y.at = End)

(* Whatever a run of the first gets to show, the run of the second shows.  *)
Follows(c, A, m, d, B, w) ==
  \A x : Reaches(c, A, m, x) => \E y : Reaches(d, B, w, y) /\ Shows(x, y)

SameRuns(c, A, d, B) ==
  \A env \in Env : /\ Follows(c, A, Start(A, env), d, B, Start(B, env))
                   /\ Follows(d, B, Start(B, env), c, A, Start(A, env))

LEMMA SameRunsTransitive ==
  ASSUME NEW c, NEW A, NEW d, NEW B, NEW e, NEW C, SameRuns(c, A, d, B), SameRuns(d, B, e, C)
  PROVE  SameRuns(c, A, e, C)
<1>1. \A x, y, z : Shows(x, y) /\ Shows(y, z) => Shows(x, z)
  BY DEF Shows
<1> QED BY <1>1 DEF SameRuns, Follows

LEMMA SameRunsReflexive ==
  ASSUME NEW c, NEW A
  PROVE  SameRuns(c, A, c, A)
BY DEF SameRuns, Follows, Shows

(* Pairs of states, in R, such that the second program can always come     *)
(* after the first.                                                        *)
KeepsUp(c, A, d, B, R) ==
  \A x \in State(A), y \in State(B) : <<x, y>> \in R =>
    /\ Shows(x, y)
    /\ \E z \in State(B) : Reaches(d, B, y, z) /\ <<Exec(c, A, x), z>> \in R

LEMMA Simulation ==
  ASSUME NEW c, NEW A, Runnable(c, A), NEW d, NEW B, Runnable(d, B), NEW R,
         KeepsUp(c, A, d, B, R),
         NEW m \in State(A), NEW w \in State(B), <<m, w>> \in R
  PROVE  Follows(c, A, m, d, B, w)
<1> DEFINE S == {x \in State(A) : \E y \in State(B) : Reaches(d, B, w, y) /\ <<x, y>> \in R}
<1>1. m \in S
  BY ReachesItself
<1>2. ASSUME NEW x \in S
      PROVE  Exec(c, A, x) \in S
  <2>1. PICK y \in State(B) : Reaches(d, B, w, y) /\ <<x, y>> \in R
    OBVIOUS
  <2>2. PICK z \in State(B) : Reaches(d, B, y, z) /\ <<Exec(c, A, x), z>> \in R
    BY <2>1 DEF KeepsUp
  <2>3. Reaches(d, B, w, z)
    BY <2>1, <2>2, ReachesFurther
  <2>4. Exec(c, A, x) \in State(A)
    BY ExecTyped
  <2> QED BY <2>2, <2>3, <2>4
<1>3. \A x : Reaches(c, A, m, x) => x \in S
  <2> HIDE DEF S
  <2> QED BY <1>1, <1>2, ReachedIn
<1>4. \A x \in S : \E y : Reaches(d, B, w, y) /\ Shows(x, y)
  BY DEF KeepsUp
<1> QED BY <1>3, <1>4 DEF Follows


-----------------------------------------------------------------------------
(* Watching for as many steps as there are machine states is enough.       *)
LEMMA FunctionsFinite ==
  ASSUME NEW S, IsFiniteSet(S), NEW T, IsFiniteSet(T)
  PROVE  IsFiniteSet([S -> T])
<1> DEFINE graph == [f \in [S -> T] |-> {<<x, f[x]>> : x \in S}]
           G == SUBSET (S \X T)
<1>1. IsFiniteSet(G)
  BY FS_Product, FS_SUBSET
<1>2. graph \in [[S -> T] -> G]
  OBVIOUS
<1>3. ASSUME NEW f \in [S -> T], NEW g \in [S -> T], graph[f] = graph[g]
      PROVE  f = g
  <2>1. \A x \in S : f[x] = g[x]
    <3> SUFFICES ASSUME NEW x \in S PROVE f[x] = g[x]
      OBVIOUS
    <3>1. <<x, f[x]>> \in graph[f]
      OBVIOUS
    <3>2. <<x, f[x]>> \in graph[g]
      BY <1>3, <3>1
    <3>3. PICK y \in S : <<x, f[x]>> = <<y, g[y]>>
      BY <3>2
    <3> QED BY <3>3
  <2> QED BY <2>1
<1>4. graph \in Injection([S -> T], G)
  <2> DEFINE F == [S -> T]
  <2>1. \A f, g \in F : graph[f] = graph[g] => f = g
    BY <1>3
  <2>2. graph \in [F -> G]
    BY <1>2
  <2> HIDE DEF graph, F, G
  <2>3. graph \in Injection(F, G)
    BY <2>1, <2>2 DEF Injection, IsInjective
  <2> QED BY <2>3 DEF F
<1> HIDE DEF graph, G
<1> QED BY <1>1, <1>4, FS_Injection

Spots(A) == (A \cup {End}) \X Env

LEMMA FuelIs ==
  ASSUME NEW c, NEW A, Runnable(c, A)
  PROVE  /\ IsFiniteSet(Spots(A))
         /\ Fuel(c, A) = Cardinality(Spots(A)) /\ Fuel(c, A) \in Nat
<1>1. IsFiniteSet(A \cup {End})
  <2>1. MaxOps \in Nat
    BY LlirAssumption
  <2>2. IsFiniteSet(1 .. End)
    BY <2>1, FS_Interval, SlotsAre
  <2>3. A \cup {End} \in SUBSET (1 .. End)
    BY <2>1 DEF Runnable, Slot, End
  <2> QED BY <2>2, <2>3, FS_Subset
<1>2. IsFiniteSet(Env)
  <2>1. IsFiniteSet(Var)
    BY LlirAssumption
  <2>2. IsFiniteSet(Imm)
    <3>1. IsFiniteSet(0 .. 1)
      <4>1. 0 \in Int /\ 1 \in Int
        OBVIOUS
      <4> QED BY <4>1, FS_Interval
    <3>2. 0 .. 1 = Imm
      BY DEF Imm
    <3> QED BY <3>1, <3>2
  <2> QED BY <2>1, <2>2, FunctionsFinite DEF Env
<1>3. IsFiniteSet(Spots(A))
  BY <1>1, <1>2, FS_Product DEF Spots
<1>4. Fuel(c, A) = Cardinality(Spots(A))
  <2> DEFINE placed == {c[i].a : i \in {j \in A : c[j].id = "PLACE"}}
  <2>1. placed = {}
    BY DEF Runnable
  <2>2. Imm \cup placed = Imm
    BY <2>1
  <2>3. Fuel(c, A) = Cardinality((A \cup {End}) \X [Var -> Imm \cup placed])
    BY DEF Fuel
  <2> HIDE DEF placed
  <2> QED BY <2>2, <2>3 DEF Spots, Env
<1> QED BY <1>3, <1>4, FS_CardinalityType

(* Where a program goes and what variables hold do not depend on the calls *)
(* it has made.                                                            *)
LEMMA SameSpot ==
  ASSUME NEW c, NEW A, NEW x, NEW y, x.at = y.at, x.env = y.env
  PROVE  Exec(c, A, x).at = Exec(c, A, y).at /\ Exec(c, A, x).env = Exec(c, A, y).env
BY DEF Exec

(* A run that has not stopped by then goes round in circles. *)
LEMMA NeverStops ==
  ASSUME NEW c, NEW A, Runnable(c, A), NEW n, n = Fuel(c, A), NEW r, IsPath(c, A, r, n),
         r[n].at # End
  PROVE  \A x : Reaches(c, A, r[0], x) => x.at # End
<1>1. n \in Nat /\ n = Cardinality(Spots(A)) /\ IsFiniteSet(Spots(A))
  BY FuelIs
<1> DEFINE g == [k \in 0 .. n |-> <<r[k].at, r[k].env>>]
<1>2. \A k \in 0 .. n : r[k] \in State(A)
  BY DEF IsPath
<1>3. g \in [0 .. n -> Spots(A)]
  <2>1. \A k \in 0 .. n : r[k].at \in A \cup {End} /\ r[k].env \in Env
    BY <1>2 DEF State
  <2> QED BY <2>1 DEF Spots
<1>4. IsFiniteSet(0 .. n) /\ Cardinality(0 .. n) = n + 1
  BY <1>1, FS_Interval
<1>5. PICK i, j \in 0 .. n : i # j /\ g[i] = g[j]
  <2> HIDE DEF g
  <2>1. Cardinality(Spots(A)) < Cardinality(0 .. n)
    BY <1>1, <1>4
  <2> QED BY <1>1, <1>3, <1>4, <2>1, FS_PigeonHole
<1>6. PICK lo, hi \in 0 .. n : lo < hi /\ r[lo].at = r[hi].at /\ r[lo].env = r[hi].env
  <2>1. r[i].at = r[j].at /\ r[i].env = r[j].env
    BY <1>5
  <2>2. i < j \/ j < i
    BY <1>1, <1>5
  <2> QED BY <2>1, <2>2
<1>7. \A k \in 0 .. n : r[k].at # End
  <2> SUFFICES ASSUME NEW k \in 0 .. n, r[k].at = End PROVE FALSE
    OBVIOUS
  <2>1. r[n] = r[k]
    <3>1. n \in k .. n
      BY <1>1
    <3> QED BY <1>1, <3>1, StoppedStays
  <2> QED BY <2>1
<1> DEFINE S == {x \in State(A) : \E k \in 0 .. hi - 1 : x.at = r[k].at /\ x.env = r[k].env}
<1>8. r[0] \in S
  <2>1. 0 \in 0 .. hi - 1 /\ 0 \in 0 .. n
    BY <1>1, <1>6
  <2> QED BY <1>2, <2>1
<1>9. ASSUME NEW x \in S
      PROVE  Exec(c, A, x) \in S
  <2>1. PICK k \in 0 .. hi - 1 : x.at = r[k].at /\ x.env = r[k].env
    OBVIOUS
  <2> DEFINE y == Exec(c, A, x)
  <2>2. y.at = Exec(c, A, r[k]).at /\ y.env = Exec(c, A, r[k]).env
    BY <2>1, SameSpot
  <2>3. k + 1 \in 1 .. n /\ (k + 1) - 1 = k /\ k \in Nat
    BY <1>1, <1>6
  <2>4. r[k + 1] = Exec(c, A, r[k])
    BY <2>3 DEF IsPath
  <2>5. y \in State(A)
    BY ExecTyped
  <2> HIDE DEF y
  <2>6. CASE k + 1 = hi
    <3>1. y.at = r[lo].at /\ y.env = r[lo].env
      BY <1>6, <2>2, <2>4, <2>6
    <3>2. lo \in 0 .. hi - 1
      BY <1>1, <1>6
    <3>3. y \in S
      BY <2>5, <3>1, <3>2
    <3> QED BY <3>3 DEF y
  <2>7. CASE k + 1 # hi
    <3>1. k + 1 \in 0 .. hi - 1
      BY <1>1, <1>6, <2>3, <2>7
    <3>2. y \in S
      BY <2>2, <2>4, <2>5, <3>1
    <3> QED BY <3>2 DEF y
  <2> QED BY <2>6, <2>7
<1>10. \A x : Reaches(c, A, r[0], x) => x \in S
  <2> HIDE DEF S
  <2> QED BY <1>8, <1>9, ReachedIn
<1>11. \A k \in 0 .. hi - 1 : k \in 0 .. n
  BY <1>1, <1>6
<1>12. \A x \in S : x.at # End
  BY <1>7, <1>11
<1> QED BY <1>10, <1>12

(* What the interpreter answers is the last state of a run of that length. *)
LEMMA OutcomeIs ==
  ASSUME NEW c, NEW A, Runnable(c, A), NEW env \in Env, NEW n \in Nat
  PROVE  \E r : /\ IsPath(c, A, r, n) /\ r[0] = Start(A, env)
                /\ OutcomeWithin(n, c, A, env) =
                     [stopped |-> r[n].at = End, calls |-> r[n].calls, ret |-> r[n].ret]
<1> DEFINE body(g) == [k \in 0 .. n |-> IF k = 0 THEN Start(A, env) ELSE Exec(c, A, g[k - 1])]
           run == CHOOSE g : g = body(g)
<1>1. Start(A, env) \in State(A)
  BY StartTyped DEF Runnable
<1>2. PICK r : IsPath(c, A, r, n) /\ r[0] = Start(A, env)
  BY <1>1, PathExists
<1>3. r = body(r)
  <2>1. r = [k \in 0 .. n |-> r[k]]
    BY <1>2 DEF IsPath
  <2>2. \A k \in 0 .. n : r[k] = IF k = 0 THEN Start(A, env) ELSE Exec(c, A, r[k - 1])
    <3> SUFFICES ASSUME NEW k \in 0 .. n, k # 0 PROVE r[k] = Exec(c, A, r[k - 1])
      BY <1>2
    <3>1. k \in 1 .. n
      OBVIOUS
    <3> QED BY <1>2, <3>1 DEF IsPath
  <2> QED BY <2>1, <2>2
<1>4. run = body(run)
  <2> HIDE DEF body
  <2> QED BY <1>3
<1>5. run \in [0 .. n -> State(A)] /\ run[0] = Start(A, env)
      /\ \A k \in 1 .. n : run[k] = Exec(c, A, run[k - 1])
  <2> HIDE DEF run
  <2>1. run = [k \in 0 .. n |-> run[k]]
    BY <1>4
  <2>2. \A k \in 0 .. n : run[k] = IF k = 0 THEN Start(A, env) ELSE Exec(c, A, run[k - 1])
    BY <1>4
  <2>3. run[0] = Start(A, env)
    BY <2>2
  <2>4. \A k \in 1 .. n : k \in 0 .. n /\ k # 0
    OBVIOUS
  <2>5. \A k \in 1 .. n : run[k] = Exec(c, A, run[k - 1])
    BY <2>2, <2>4
  <2> DEFINE Fine == {k \in Nat : k <= n => run[k] \in State(A)}
  <2>6. 0 \in Fine
    BY <1>1, <2>3
  <2>7. ASSUME NEW k \in Nat, k \in Fine
        PROVE  k + 1 \in Fine
    <3> SUFFICES ASSUME k + 1 <= n PROVE run[k + 1] \in State(A)
      OBVIOUS
    <3>1. k + 1 \in 1 .. n /\ (k + 1) - 1 = k /\ k <= n
      OBVIOUS
    <3>2. run[k + 1] = Exec(c, A, run[k])
      BY <2>5, <3>1
    <3> QED BY <2>7, <3>1, <3>2, ExecTyped
  <2>8. \A k \in Nat : k \in Fine
    <3> HIDE DEF Fine
    <3> QED BY <2>6, <2>7, CountingUp
  <2>9. \A k \in 0 .. n : run[k] \in State(A)
    BY <2>8
  <2> QED BY <2>1, <2>3, <2>5, <2>9
<1>6. IsPath(c, A, run, n)
  <2> HIDE DEF run
  <2> QED BY <1>5 DEF IsPath
<1> DEFINE once == IF MaxOps < n THEN MaxOps ELSE n
           last == run[IF run[once].at = End THEN once ELSE n]
<1>7. OutcomeWithin(n, c, A, env) =
        [stopped |-> last.at = End, calls |-> last.calls, ret |-> last.ret]
  BY DEF OutcomeWithin
<1> HIDE DEF run
<1>8. last = run[n]
  <2>1. once \in 0 .. n /\ n \in once .. n
    BY LlirAssumption
  <2>2. run[once].at = End => run[n] = run[once]
    <3> HIDE DEF once
    <3> QED BY <1>6, <2>1, StoppedStays
  <2> QED BY <2>2
<1> HIDE DEF last
<1> QED BY <1>5, <1>6, <1>7, <1>8


-----------------------------------------------------------------------------
(* Programs with the same runs have outcomes that look the same.           *)
StartsWith(t, s) == Len(s) <= Len(t) /\ \A k \in 1 .. Len(s) : s[k] = t[k]

LEMMA CallsGrow ==
  ASSUME NEW c, NEW A, Runnable(c, A), NEW n \in Nat, NEW r, IsPath(c, A, r, n), NEW i \in 0 .. n
  PROVE  \A j \in i .. n : StartsWith(r[j].calls, r[i].calls)
<1>1. \A k \in 0 .. n : r[k] \in State(A) /\ r[k].calls \in Seq(Val)
  BY DEF IsPath, State
<1> DEFINE Fine == {j \in Nat : i <= j /\ j <= n => StartsWith(r[j].calls, r[i].calls)}
<1>2. StartsWith(r[i].calls, r[i].calls)
  <2>1. Len(r[i].calls) \in Nat
    BY <1>1
  <2> QED BY <2>1 DEF StartsWith
<1>3. 0 \in Fine
  <2>1. i <= 0 => i = 0
    OBVIOUS
  <2> QED BY <1>2, <2>1
<1>4. ASSUME NEW j \in Nat, j \in Fine
      PROVE  j + 1 \in Fine
  <2> SUFFICES ASSUME i <= j + 1, j + 1 <= n PROVE StartsWith(r[j + 1].calls, r[i].calls)
    OBVIOUS
  <2>1. CASE i = j + 1
    BY <1>2, <2>1
  <2>2. CASE i # j + 1
    <3>1. i <= j /\ j <= n /\ j + 1 \in 1 .. n /\ (j + 1) - 1 = j /\ j \in 0 .. n
      BY <2>2
    <3>2. StartsWith(r[j].calls, r[i].calls)
      BY <1>4, <3>1
    <3>3. r[j + 1] = Exec(c, A, r[j])
      BY <3>1 DEF IsPath
    <3>4. r[j + 1].calls = r[j].calls \/ \E x : r[j + 1].calls = Append(r[j].calls, x)
      BY <3>3, SMTT(30) DEF Exec
    <3> DEFINE s == r[j].calls
               t == r[i].calls
    <3>5. s \in Seq(Val) /\ t \in Seq(Val)
      BY <1>1, <3>1
    <3>6. r[j + 1].calls = s \/ \E x : r[j + 1].calls = Append(s, x)
      BY <3>4
    <3>7. StartsWith(s, t)
      BY <3>2
    <3> HIDE DEF s, t
    <3>8. \A x : StartsWith(Append(s, x), t)
      <4> SUFFICES ASSUME NEW x PROVE StartsWith(Append(s, x), t)
        OBVIOUS
      <4>1. /\ Len(Append(s, x)) = Len(s) + 1
            /\ \A k \in 1 .. Len(s) : Append(s, x)[k] = s[k]
        BY <3>5
      <4>2. Len(s) \in Nat /\ Len(t) \in Nat /\ Len(t) <= Len(s)
        BY <3>5, <3>7 DEF StartsWith
      <4>3. \A k \in 1 .. Len(t) : k \in 1 .. Len(s) /\ s[k] = t[k]
        BY <3>7, <4>2 DEF StartsWith
      <4> QED BY <4>1, <4>2, <4>3 DEF StartsWith
    <3>9. StartsWith(r[j + 1].calls, t)
      BY <3>6, <3>7, <3>8
    <3> QED BY <3>9 DEF t
  <2> QED BY <2>1, <2>2
<1>5. \A j \in Nat : j \in Fine
  <2> HIDE DEF Fine
  <2> QED BY <1>3, <1>4, CountingUp
<1>6. \A j \in i .. n : j \in Nat /\ i <= j /\ j <= n
  OBVIOUS
<1> QED BY <1>5, <1>6

(* The last state w that the interpreter saw, compared with any other that *)
(* a run gets to.                                                          *)
Final(c, A, env, w) ==
  /\ Reaches(c, A, Start(A, env), w) /\ w \in State(A)
  /\ Outcome(c, A, env) = [stopped |-> w.at = End, calls |-> w.calls, ret |-> w.ret]
  /\ \A x : Reaches(c, A, Start(A, env), x) =>
       /\ x.at = End => w = x
       /\ StartsWith(x.calls, w.calls) \/ StartsWith(w.calls, x.calls)

LEMMA FinalExists ==
  ASSUME NEW c, NEW A, Runnable(c, A), NEW env \in Env
  PROVE  \E w : Final(c, A, env, w)
<1> DEFINE n == Fuel(c, A)
           m == Start(A, env)
<1>1. n \in Nat
  BY FuelIs
<1>2. PICK r : /\ IsPath(c, A, r, n) /\ r[0] = m
               /\ OutcomeWithin(n, c, A, env) =
                    [stopped |-> r[n].at = End, calls |-> r[n].calls, ret |-> r[n].ret]
  <2> HIDE DEF n
  <2> QED BY <1>1, OutcomeIs
<1>3. Outcome(c, A, env) =
        [stopped |-> r[n].at = End, calls |-> r[n].calls, ret |-> r[n].ret]
  BY <1>2 DEF Outcome
<1>4. ~ (r[n].at = End) => \A x : Reaches(c, A, m, x) => x.at # End
  BY <1>2, NeverStops
<1> HIDE DEF n, m
<1>5. r \in [0 .. n -> State(A)] /\ n \in 0 .. n /\ 0 \in 0 .. n /\ r[n] \in State(A)
  BY <1>1, <1>2 DEF IsPath
<1>6. Reaches(c, A, m, r[n])
  BY <1>1, <1>2, <1>5 DEF Reaches
<1>7. ASSUME NEW x, Reaches(c, A, m, x)
      PROVE  /\ x.at = End => r[n] = x
             /\ StartsWith(x.calls, r[n].calls) \/ StartsWith(r[n].calls, x.calls)
  <2>1. PICK k \in Nat : \E s \in [0 .. k -> State(A)] : IsPath(c, A, s, k) /\ s[0] = m /\ s[k] = x
    BY <1>7 DEF Reaches
  <2>2. PICK s : IsPath(c, A, s, k) /\ s[0] = m /\ s[k] = x
    BY <2>1
  <2>3. \A j \in Nat : j <= n /\ j <= k => r[j] = s[j]
    BY <1>1, <1>2, <2>2, PathsAgree
  <2>4. CASE k <= n
    <3>1. r[k] = x /\ k \in 0 .. n /\ n \in k .. n
      BY <1>1, <2>2, <2>3, <2>4
    <3>2. x.at = End => r[n] = x
      BY <1>1, <1>2, <3>1, StoppedStays
    <3>3. StartsWith(r[n].calls, x.calls)
      BY <1>1, <1>2, <3>1, CallsGrow
    <3> QED BY <3>2, <3>3
  <2>5. CASE n < k
    <3>1. s[n] = r[n] /\ n \in 0 .. k /\ k \in n .. k
      BY <1>1, <2>2, <2>3, <2>5
    <3>2. x.at = End => r[n].at = End
      BY <1>4, <1>7
    <3>3. r[n].at = End => x = r[n]
      BY <2>2, <3>1, StoppedStays
    <3>4. StartsWith(x.calls, r[n].calls)
      BY <2>2, <3>1, CallsGrow
    <3> QED BY <3>2, <3>3, <3>4
  <2> QED BY <1>1, <2>4, <2>5
<1>8. Final(c, A, env, r[n])
  <2>1. Reaches(c, A, Start(A, env), r[n]) /\ r[n] \in State(A)
    BY <1>5, <1>6 DEF m
  <2>2. \A x : Reaches(c, A, Start(A, env), x) =>
          /\ x.at = End => r[n] = x
          /\ StartsWith(x.calls, r[n].calls) \/ StartsWith(r[n].calls, x.calls)
    BY <1>7 DEF m
  <2> QED BY <1>3, <2>1, <2>2 DEF Final
<1> QED BY <1>8

LEMMA StopsToo ==
  ASSUME NEW c, NEW A, NEW d, NEW B, NEW env, NEW w, NEW u,
         Final(c, A, env, w), Final(d, B, env, u),
         Follows(c, A, Start(A, env), d, B, Start(B, env))
  PROVE  /\ w.at = End => u.at = End /\ u.calls = w.calls /\ u.ret = w.ret
         /\ StartsWith(w.calls, u.calls) \/ StartsWith(u.calls, w.calls)
<1>1. PICK y : Reaches(d, B, Start(B, env), y) /\ Shows(w, y)
  BY DEF Final, Follows
<1> QED BY <1>1 DEF Final, Shows

LEMMA SameRunsSameOutcome ==
  ASSUME NEW c, NEW A, Runnable(c, A), NEW d, NEW B, Runnable(d, B),
         SameRuns(c, A, d, B), NEW env \in Env
  PROVE  SameOutcome(Outcome(c, A, env), Outcome(d, B, env))
<1>1. PICK w : Final(c, A, env, w)
  BY FinalExists
<1>2. PICK u : Final(d, B, env, u)
  BY FinalExists
<1>3. /\ w.at = End => u.at = End /\ u.calls = w.calls /\ u.ret = w.ret
      /\ StartsWith(w.calls, u.calls) \/ StartsWith(u.calls, w.calls)
  BY <1>1, <1>2, StopsToo DEF SameRuns
<1>4. u.at = End => w.at = End
  BY <1>1, <1>2, StopsToo DEF SameRuns
<1>5. w.at # End => w.ret = None /\ u.at # End /\ u.ret = None
  BY <1>1, <1>2, <1>4 DEF Final, State
<1> DEFINE p == Outcome(c, A, env)
           q == Outcome(d, B, env)
<1>6. /\ p.stopped = (w.at = End) /\ p.calls = w.calls /\ p.ret = w.ret
      /\ q.stopped = (u.at = End) /\ q.calls = u.calls /\ q.ret = u.ret
      /\ w.calls \in Seq(Val) /\ u.calls \in Seq(Val)
  <2>1. /\ p = [stopped |-> w.at = End, calls |-> w.calls, ret |-> w.ret]
        /\ q = [stopped |-> u.at = End, calls |-> u.calls, ret |-> u.ret]
        /\ w \in State(A) /\ u \in State(B)
    BY <1>1, <1>2 DEF Final
  <2> HIDE DEF p, q
  <2>2. p.stopped = (w.at = End) /\ q.stopped = (u.at = End)
    BY <2>1
  <2>3. p.calls = w.calls /\ p.ret = w.ret /\ q.calls = u.calls /\ q.ret = u.ret
    BY <2>1
  <2>4. w.calls \in Seq(Val) /\ u.calls \in Seq(Val)
    BY <2>1 DEF State
  <2> QED BY <2>2, <2>3, <2>4
<1> HIDE DEF p, q
<1>7. \A k \in 1 .. Min({Len(p.calls), Len(q.calls)}) : p.calls[k] = q.calls[k]
  <2> DEFINE a == Len(p.calls)
             b == Len(q.calls)
  <2>1. a \in Nat /\ b \in Nat
    BY <1>6
  <2>2. Min({a, b}) \in Nat /\ Min({a, b}) <= a /\ Min({a, b}) <= b
    <3>1. {a, b} \in SUBSET Nat /\ {a, b} # {}
      BY <2>1
    <3> HIDE DEF a, b
    <3>2. Min({a, b}) \in {a, b} /\ \A y \in {a, b} : Min({a, b}) <= y
      BY <3>1, MinIsLeast
    <3> QED BY <2>1, <3>2
  <2>3. StartsWith(p.calls, q.calls) \/ StartsWith(q.calls, p.calls)
    BY <1>3, <1>6
  <2>4. \A k \in 1 .. Min({a, b}) : k \in 1 .. a /\ k \in 1 .. b
    <3> HIDE DEF a, b
    <3> QED BY <2>1, <2>2
  <2> QED BY <2>3, <2>4 DEF StartsWith
<1>8. p.stopped = q.stopped /\ p.ret = q.ret
  BY <1>3, <1>4, <1>5, <1>6
<1>9. p.stopped => p.calls = q.calls
  BY <1>3, <1>6
<1>10. SameOutcome(p, q)
  BY <1>7, <1>8, <1>9 DEF SameOutcome
<1> QED BY <1>10 DEF p, q


-----------------------------------------------------------------------------
(* What a step of a run is made of.                                        *)
LEMMA GoesTo ==
  ASSUME NEW c, NEW A, Runnable(c, A), NEW env, NEW i \in A, NEW x, x = Target(c, A, env, i)
  PROVE  \/ x = End
         \/ IsJump(c[i]) /\ x \in A /\ c[x].id = "LABEL"
         \/ ~EndsFlow(c[i]) /\ x = NextOf(A, i)
<1>1. IsJump(c[i]) => LabelSlot(c, A, c[i].label) \in A /\ c[LabelSlot(c, A, c[i].label)].id = "LABEL"
  BY JumpLands
<1> QED BY <1>1 DEF Target, IsJump, EndsFlow

LEMMA FallsInto ==
  ASSUME NEW A \in SUBSET Slot, NEW i \in A, NEW j \in A \cup {0}, NEW x \in A,
         NextOf(A, j) = x, i < x
  PROVE  j \in A /\ i <= j /\ j < x
<1>1. j \in Nat /\ i \in Nat /\ 0 < i /\ x # End /\ x \in Nat
  BY SlotsAre
<1>2. j < x /\ \A k \in A : j < k => x <= k
  BY <1>1, NextIs
<1>3. i <= j
  BY <1>1, <1>2
<1> QED BY <1>1, <1>2, <1>3

(* Two programs that go through the same states, those in G.               *)
LEMMA SameSteps ==
  ASSUME NEW c, NEW A, Runnable(c, A), NEW d, NEW B, Runnable(d, B), NEW G,
         \A x \in G : /\ x \in State(A) /\ x \in State(B)
                      /\ Exec(c, A, x) = Exec(d, B, x) /\ Exec(c, A, x) \in G,
         \A env \in Env : Start(A, env) = Start(B, env) /\ Start(A, env) \in G
  PROVE  SameRuns(c, A, d, B)
<1> DEFINE R == {ss \in G \X G : ss[1] = ss[2]}
<1>1. \A x, y : <<x, y>> \in R <=> x \in G /\ y = x
  OBVIOUS
<1> HIDE DEF R
<1>2. KeepsUp(c, A, d, B, R)
  <2> SUFFICES ASSUME NEW x \in G
               PROVE  /\ Shows(x, x)
                      /\ \E z \in State(B) : Reaches(d, B, x, z) /\ <<Exec(c, A, x), z>> \in R
    BY <1>1 DEF KeepsUp
  <2>1. Reaches(d, B, x, Exec(d, B, x)) /\ Exec(d, B, x) \in State(B)
    BY ReachesItself, ReachesOn, ExecTyped
  <2> QED BY <1>1, <2>1 DEF Shows
<1>3. KeepsUp(d, B, c, A, R)
  <2> SUFFICES ASSUME NEW x \in G
               PROVE  /\ Shows(x, x)
                      /\ \E z \in State(A) : Reaches(c, A, x, z) /\ <<Exec(d, B, x), z>> \in R
    BY <1>1 DEF KeepsUp
  <2>1. Reaches(c, A, x, Exec(c, A, x)) /\ Exec(c, A, x) \in State(A)
    BY ReachesItself, ReachesOn, ExecTyped
  <2> QED BY <1>1, <2>1 DEF Shows
<1> QED BY <1>1, <1>2, <1>3, Simulation DEF SameRuns

LEMMA SameExec ==
  ASSUME NEW c, NEW A, NEW d, NEW B, NEW x,
         x.at # End => /\ d[x.at] = c[x.at]
                       /\ Target(d, B, x.env, x.at) = Target(c, A, x.env, x.at)
  PROVE  Exec(c, A, x) = Exec(d, B, x)
BY DEF Exec

(* Labels that stay are found as before.                                   *)
LEMMA SameLabel ==
  ASSUME NEW c, NEW A, Runnable(c, A), NEW d, NEW B, NEW i \in A, IsJump(c[i]),
         LET s == LabelSlot(c, A, c[i].label)
         IN  s \in B /\ d[s].id = "LABEL" /\ d[s].label = c[i].label,
         \A k \in B : d[k].id = "LABEL" => k \in A /\ c[k].id = "LABEL" /\ c[k].label = d[k].label
  PROVE  LabelSlot(d, B, c[i].label) = LabelSlot(c, A, c[i].label)
<1> DEFINE s == LabelSlot(c, A, c[i].label)
<1>1. \A k \in A : c[k].id = "LABEL" /\ c[k].label = c[i].label => k = s
  BY JumpLands
<1>2. s \in B /\ d[s].id = "LABEL" /\ d[s].label = c[i].label
  OBVIOUS
<1>3. \A k \in B : d[k].id = "LABEL" /\ d[k].label = c[i].label => k = s
  BY <1>1
<1> HIDE DEF s
<1>4. LabelSlot(d, B, c[i].label) = s
  BY <1>2, <1>3, LabelIs
<1> QED BY <1>4 DEF s

-----------------------------------------------------------------------------
(* What is behind an op that ends the flow, up to the next label, is never *)
(* run: removing it changes nothing.                                       *)
LEMMA UnreachedRemoved ==
  ASSUME NEW c, NEW A, Runnable(c, A), NEW i \in A, EndsFlow(c[i]),
         NEW B, B = A \ Segment(c, A, i), Runnable(c, B)
  PROVE  SameRuns(c, A, c, B)
<1> DEFINE D == Segment(c, A, i)
           G == {x \in State(A) : x.at \notin D}
<1>1. A \in SUBSET Slot /\ i \in Nat /\ \A j \in A : j \in Nat
  BY SlotsAre DEF Runnable
<1>2. \A x \in D : x \in A /\ i < x /\ c[x].id # "LABEL"
  BY DEF Segment, After
<1>3. ASSUME NEW j \in (A \ D) \cup {0}, j # i
      PROVE  NextOf(A, j) \notin D /\ NextOf(B, j) = NextOf(A, j)
  <2>1. NextOf(A, j) \notin D
    <3> SUFFICES ASSUME NextOf(A, j) \in D PROVE FALSE
      OBVIOUS
    <3> DEFINE x == NextOf(A, j)
    <3>1. x \in A /\ i < x
      BY <1>2
    <3>2. j \in A /\ i <= j /\ j < x
      <4>1. j \in A \cup {0} /\ NextOf(A, j) = x
        BY <1>3
      <4>2. A \in SUBSET Slot /\ i \in A /\ x \in A /\ i < x
        BY <1>1, <3>1
      <4> HIDE DEF x, D
      <4> QED BY <4>1, <4>2, FallsInto
    <3>3. j \in Between(A, i, x)
      BY <1>1, <1>3, <3>2 DEF Between
    <3>4. \A k \in Between(A, i, x) \cup {x} : c[k].id # "LABEL"
      BY DEF Segment
    <3>5. \A k \in Between(A, i, j) : k \in Between(A, i, x)
      <4>1. j \in Nat /\ x \in Nat /\ j < x
        BY <1>1, <3>1, <3>2
      <4> HIDE DEF x
      <4> QED BY <1>1, <4>1 DEF Between
    <3>6. j \in D
      <4>1. j \in After(A, i)
        BY <3>3 DEF After, Between
      <4>2. \A k \in Between(A, i, j) \cup {j} : c[k].id # "LABEL"
        BY <3>3, <3>4, <3>5
      <4> QED BY <4>1, <4>2 DEF Segment
    <3>7. j # 0
      BY <1>1, <3>2, SlotsAre
    <3> HIDE DEF D
    <3> QED BY <1>3, <3>6, <3>7
  <2>2. NextOf(B, j) = NextOf(A, j)
    <3>1. B \in SUBSET Slot /\ B \subseteq A /\ j \in Nat
      <4>1. B = A \ D
        OBVIOUS
      <4>2. j \in A \/ j = 0
        BY <1>3
      <4>3. j \in Nat
        BY <1>1, <4>2
      <4> HIDE DEF D
      <4>4. B \subseteq A
        BY <4>1
      <4>5. B \in SUBSET Slot
        BY <1>1, <4>4
      <4> QED BY <4>3, <4>4, <4>5
    <3>2. CASE NextOf(A, j) = End
      <4>1. \A k \in B : ~ (j < k)
        BY <1>1, <3>1, <3>2, NextIs
      <4> QED BY <3>1, <3>2, <4>1, NextIs
    <3>3. CASE NextOf(A, j) # End
      <4>1. NextOf(A, j) \in B /\ j < NextOf(A, j) /\ \A k \in B : j < k => NextOf(A, j) <= k
        BY <1>1, <2>1, <3>1, <3>3, NextIs
      <4> QED BY <3>1, <4>1, NextUnique
    <3> QED BY <3>2, <3>3
  <2> QED BY <2>1, <2>2
<1>4. ASSUME NEW j \in A \ D, NEW env
      PROVE  Target(c, B, env, j) = Target(c, A, env, j) /\ Target(c, A, env, j) \notin D
  <2> DEFINE x == Target(c, A, env, j)
  <2>1. \/ x = End
        \/ IsJump(c[j]) /\ x \in A /\ c[x].id = "LABEL"
        \/ ~EndsFlow(c[j]) /\ x = NextOf(A, j)
    BY GoesTo
  <2>2. x \notin D
    <3>1. End \notin D
      BY <1>1, <1>2, SlotsAre
    <3> QED BY <1>2, <1>3, <2>1, <3>1
  <2>3. IsJump(c[j]) => LabelSlot(c, B, c[j].label) = LabelSlot(c, A, c[j].label)
    <3> SUFFICES ASSUME IsJump(c[j]) PROVE LabelSlot(c, B, c[j].label) = LabelSlot(c, A, c[j].label)
      OBVIOUS
    <3> DEFINE s == LabelSlot(c, A, c[j].label)
    <3>1. s \in A /\ c[s].id = "LABEL" /\ c[s].label = c[j].label
      BY JumpLands
    <3>2. s \in B
      BY <1>2, <3>1
    <3> QED BY <3>1, <3>2, SameLabel
  <2>4. ~EndsFlow(c[j]) => NextOf(B, j) = NextOf(A, j)
    BY <1>3
  <2>5. Target(c, B, env, j) = Target(c, A, env, j)
    BY <2>3, <2>4 DEF Target, IsJump, EndsFlow
  <2> QED BY <2>2, <2>5
<1>5. \A x \in G : x \in State(A) /\ x \in State(B)
  <2> SUFFICES ASSUME NEW x \in G PROVE x \in State(B)
    OBVIOUS
  <2>1. x.at \in B \cup {End}
    BY DEF State
  <2> HIDE DEF G, D
  <2>2. x \in State(A)
    BY DEF G
  <2> QED BY <2>1, <2>2 DEF State
<1>6. ASSUME NEW x \in G
      PROVE  Exec(c, A, x) = Exec(c, B, x) /\ Exec(c, A, x) \in G
  <2>1. x.at # End => x.at \in A \ D
    BY DEF State
  <2>2. Exec(c, A, x) = Exec(c, B, x)
    <3> HIDE DEF D, G
    <3> QED BY <1>4, <2>1, SameExec
  <2>3. Exec(c, A, x) \in State(A)
    BY ExecTyped
  <2>4. Exec(c, A, x).at \notin D
    <3>1. CASE x.at = End
      BY <3>1 DEF Exec
    <3>2. CASE x.at # End
      <4>1. Exec(c, A, x).at = Target(c, A, x.env, x.at)
        BY <3>2 DEF Exec
      <4> HIDE DEF D, G
      <4> QED BY <1>4, <2>1, <3>2, <4>1
    <3> QED BY <3>1, <3>2
  <2> QED BY <2>2, <2>3, <2>4
<1>7. ASSUME NEW env \in Env
      PROVE  Start(A, env) = Start(B, env) /\ Start(A, env) \in G
  <2>1. 0 # i /\ 0 \in (A \ D) \cup {0}
    BY <1>1, SlotsAre
  <2>2. NextOf(A, 0) \notin D /\ NextOf(B, 0) = NextOf(A, 0)
    BY <1>3, <2>1
  <2>3. Start(A, env) \in State(A)
    BY <1>1, StartTyped
  <2> HIDE DEF D
  <2> QED BY <2>2, <2>3 DEF Start
<1> HIDE DEF D, G
<1> QED BY <1>5, <1>6, <1>7, SameSteps


-----------------------------------------------------------------------------
(* An op leaves alone the variables that are not its output.  A STORE      *)
(* writes where an operand points; nothing is placed, so nowhere.          *)
LEMMA KeepsOthers ==
  ASSUME NEW env \in Env, NEW op \in Op, OpShape(op), op.id # "PLACE"
  PROVE  /\ op.out = None => EnvAfter(env, op) = env
         /\ op.out \in Var => \E x : EnvAfter(env, op) = Assign(env, op, x) \/ EnvAfter(env, op) = env
<1>1. \A x \in Val : Read(env, x) \in Imm
  BY DEF Env, Read, Val
<1>2. None \notin Imm /\ None \notin Var /\ \A x \in Imm : x \notin Var
  BY LlirAssumption DEF Imm
<1>3. op.id \in OpId /\ op.a \in Val \cup {None}
  BY DEF Op
<1>4. op.id \in {"IMM", "NOT", "OR", "CMOV"} => op.out \in Var
  BY DEF OpShape
<1>5. op.id = "STORE" => EnvAfter(env, op) = env
  <2> SUFFICES ASSUME op.id = "STORE" PROVE EnvAfter(env, op) = env
    OBVIOUS
  <2>1. Read(env, op.a) \notin Var
    <3>1. CASE op.a = None
      BY <1>2, <3>1 DEF Read
    <3> QED BY <1>1, <1>2, <1>3, <3>1
  <2> QED BY <2>1 DEF EnvAfter
<1>6. op.id \notin {"IMM", "NOT", "OR", "CMOV", "STORE"} => EnvAfter(env, op) = env
  BY DEF EnvAfter
<1>7. op.id \in {"IMM", "NOT", "OR", "CMOV"} =>
        \E x : EnvAfter(env, op) = Assign(env, op, x) \/ EnvAfter(env, op) = env
  BY DEF EnvAfter
<1> QED BY <1>2, <1>4, <1>5, <1>6, <1>7

LEMMA KeepsVar ==
  ASSUME NEW env \in Env, NEW op \in Op, OpShape(op), op.id # "PLACE",
         NEW v \in Val, op.out # v
  PROVE  Read(EnvAfter(env, op), v) = Read(env, v)
<1>1. op.out \in Var \cup {None}
  BY DEF Op
<1>2. \A x : v \in Var => Assign(env, op, x)[v] = env[v]
  BY DEF Assign, Env
<1>3. v \in Var => EnvAfter(env, op)[v] = env[v]
  BY <1>1, <1>2, KeepsOthers
<1> QED BY <1>3 DEF Read

(* An op reads the same when an operand is replaced by one of equal value. *)
LEMMA ReadsSame ==
  ASSUME NEW env \in Env, NEW op \in Op, op.id # "PLACE", NEW o \in Var, NEW n \in Val,
         Read(env, o) = Read(env, n), NEW s, s = Substitute(op, o, n)
  PROVE  /\ s.id = op.id /\ s.out = op.out /\ s.label = op.label
         /\ Read(env, s.a) = Read(env, op.a) /\ Read(env, s.cond) = Read(env, op.cond)
         /\ EnvAfter(env, s) = EnvAfter(env, op)
<1>1. /\ s.id = op.id /\ s.out = op.out /\ s.label = op.label
      /\ s.cond = (IF op.cond = o THEN n ELSE op.cond)
      /\ s.a = (IF op.a = o THEN n ELSE op.a)
      /\ s.b = (IF op.b = o THEN n ELSE op.b)
  BY DEF Substitute, Op
<1>2. /\ Read(env, s.a) = Read(env, op.a)
      /\ Read(env, s.b) = Read(env, op.b)
      /\ Read(env, s.cond) = Read(env, op.cond)
  BY <1>1
<1>3. (s.b = None) = (op.b = None)
  BY <1>1, LlirAssumption DEF Val, Imm
<1>4. \A x : Assign(env, s, x) = Assign(env, op, x)
  BY <1>1 DEF Assign
<1>5. EnvAfter(env, s) = EnvAfter(env, op)
  BY <1>1, <1>2, <1>3, <1>4 DEF EnvAfter
<1> QED BY <1>1, <1>2, <1>5

(* Control gets to a slot in the reach of a copy only from the copy or     *)
(* from the reach, and there both variables hold the same.                 *)
LEMMA CopyInlined ==
  ASSUME NEW c, NEW A, Runnable(c, A), NEW i \in A, c[i].id = "IMM", ~CopiesItself(c[i]),
         NEW d, d = Inlined(c, A, i), Runnable(d, A)
  PROVE  SameRuns(c, A, d, A)
<1> DEFINE o == c[i].out
           n == c[i].a
           Here == InlineReach(c, A, i)
           G == {x \in State(A) : x.at \in Here => Read(x.env, o) = Read(x.env, n)}
<1>1. A \in SUBSET Slot /\ i \in Nat /\ \A j \in A : j \in Nat /\ j # End /\ j # 0
  BY SlotsAre DEF Runnable
<1>2. \A j \in A : c[j] \in Op /\ OpShape(c[j]) /\ c[j].id # "PLACE"
  BY DEF Runnable
<1>3. o \in Var /\ n \in Val /\ n # o
  <2>1. OpShape(c[i])
    BY <1>2
  <2> QED BY <2>1 DEF OpShape, CopiesItself
<1>4. \A x \in Here : x \in A /\ i < x /\ c[x].id # "LABEL"
  BY DEF InlineReach, Segment, After
<1>5. ASSUME NEW j \in A \cup {0}, NEW x \in Here, NextOf(A, j) = x, j # i
      PROVE  j \in Here /\ j \in A /\ c[j].out # o /\ c[j].out # n
  <2>1. x \in A /\ i < x /\ x \in Nat
    BY <1>1, <1>4
  <2>2. j \in A /\ i <= j /\ j < x /\ j \in Nat
    BY <1>1, <1>5, <2>1, FallsInto
  <2>3. j \in Between(A, i, x)
    BY <1>1, <1>5, <2>2 DEF Between
  <2>4. \A k \in Between(A, i, x) : /\ c[k].id # "LABEL"
                                    /\ ~VarInOuts(c[k], o) /\ ~VarInOuts(c[k], n)
    BY DEF InlineReach, Segment
  <2>5. \A k \in Between(A, i, j) : k \in Between(A, i, x)
    <3> HIDE DEF Here, o, n
    <3> QED BY <1>1, <2>1, <2>2 DEF Between
  <2>6. j \in Here
    <3>1. j \in After(A, i)
      BY <2>3 DEF After, Between
    <3>2. \A k \in Between(A, i, j) \cup {j} : c[k].id # "LABEL"
      BY <2>3, <2>4, <2>5
    <3>3. \A k \in Between(A, i, j) : ~VarInOuts(c[k], o) /\ ~VarInOuts(c[k], n)
      BY <2>4, <2>5
    <3> QED BY <3>1, <3>2, <3>3 DEF Segment, InlineReach
  <2>7. c[j].out # o /\ c[j].out # n
    BY <2>3, <2>4 DEF VarInOuts
  <2> HIDE DEF Here, o, n
  <2> QED BY <2>2, <2>6, <2>7
<1>6. \A j \in A : d[j] = (IF j \in Here /\ c[j].id \notin {"PLACE", "RETURN"}
                            THEN Substitute(c[j], o, n) ELSE c[j])
  BY <1>1 DEF Inlined
<1> HIDE DEF Here, o, n
<1>7. \A j \in A : d[j].id = c[j].id /\ d[j].label = c[j].label
  BY <1>2, <1>6 DEF Substitute, Op
<1>8. ASSUME NEW x \in G, x.at # End
      PROVE  /\ x.at \in A /\ x.env \in Env
             /\ EnvAfter(x.env, d[x.at]) = EnvAfter(x.env, c[x.at])
             /\ Read(x.env, d[x.at].a) = Read(x.env, c[x.at].a)
             /\ Read(x.env, d[x.at].cond) = Read(x.env, c[x.at].cond)
  <2>1. x.at \in A /\ x.env \in Env
    BY <1>8 DEF State
  <2>2. CASE x.at \in Here /\ c[x.at].id \notin {"PLACE", "RETURN"}
    <3>1. Read(x.env, o) = Read(x.env, n)
      BY <2>2
    <3>2. d[x.at] = Substitute(c[x.at], o, n) /\ c[x.at] \in Op /\ c[x.at].id # "PLACE"
      BY <1>2, <1>6, <2>1, <2>2
    <3> HIDE DEF G
    <3> QED BY <1>3, <2>1, <3>1, <3>2, ReadsSame
  <2>3. CASE ~(x.at \in Here /\ c[x.at].id \notin {"PLACE", "RETURN"})
    <3>1. d[x.at] = c[x.at]
      BY <1>6, <2>1, <2>3
    <3> QED BY <2>1, <3>1
  <2> QED BY <2>2, <2>3
<1>9. \A j \in A : IsJump(c[j]) => LabelSlot(d, A, c[j].label) = LabelSlot(c, A, c[j].label)
  <2> SUFFICES ASSUME NEW j \in A, IsJump(c[j])
               PROVE  LabelSlot(d, A, c[j].label) = LabelSlot(c, A, c[j].label)
    OBVIOUS
  <2> DEFINE s == LabelSlot(c, A, c[j].label)
  <2>1. s \in A /\ c[s].id = "LABEL" /\ c[s].label = c[j].label
    BY JumpLands
  <2>2. s \in A /\ d[s].id = "LABEL" /\ d[s].label = c[j].label
    BY <1>7, <2>1
  <2> QED BY <1>7, <2>2, SameLabel
<1>10. ASSUME NEW x \in G
       PROVE  Exec(c, A, x) = Exec(d, A, x)
  <2>1. CASE x.at = End
    BY <2>1 DEF Exec
  <2>2. CASE x.at # End
    <3>1. /\ x.at \in A
          /\ EnvAfter(x.env, d[x.at]) = EnvAfter(x.env, c[x.at])
          /\ Read(x.env, d[x.at].a) = Read(x.env, c[x.at].a)
          /\ Read(x.env, d[x.at].cond) = Read(x.env, c[x.at].cond)
          /\ d[x.at].id = c[x.at].id /\ d[x.at].label = c[x.at].label
      BY <1>7, <1>8, <2>2
    <3>2. Target(d, A, x.env, x.at) = Target(c, A, x.env, x.at)
      BY <1>9, <3>1 DEF Target, IsJump
    <3> HIDE DEF G
    <3> QED BY <2>2, <3>1, <3>2 DEF Exec
  <2> QED BY <2>1, <2>2
<1>11. ASSUME NEW x \in G
       PROVE  Exec(c, A, x) \in G
  <2> DEFINE y == Exec(c, A, x)
  <2>1. y \in State(A)
    BY ExecTyped
  <2> SUFFICES ASSUME y.at \in Here
               PROVE  Read(y.env, o) = Read(y.env, n)
    BY <2>1
  <2>2. y.at \in A /\ c[y.at].id # "LABEL"
    BY <1>4
  <2>3. x.at # End
    BY <1>1, <2>2 DEF Exec
  <2>4. y.at = Target(c, A, x.env, x.at) /\ y.env = EnvAfter(x.env, c[x.at])
    BY <2>3 DEF Exec
  <2>5. x.at \in A /\ x.env \in Env
    <3> HIDE DEF G, y
    <3> QED BY <1>8, <1>11, <2>3
  <2> HIDE DEF y
  <2>6. y.at = NextOf(A, x.at)
    <3>1. \/ y.at = End
          \/ IsJump(c[x.at]) /\ y.at \in A /\ c[y.at].id = "LABEL"
          \/ ~EndsFlow(c[x.at]) /\ y.at = NextOf(A, x.at)
      BY <2>4, <2>5, GoesTo
    <3>2. y.at # End
      BY <1>1, <2>2
    <3> QED BY <2>2, <3>1, <3>2
  <2>7. c[x.at] \in Op /\ OpShape(c[x.at]) /\ c[x.at].id # "PLACE"
    BY <1>2, <2>5
  <2>8. CASE x.at = i
    <3>1. y.env = Assign(x.env, c[i], Read(x.env, n))
      BY <2>4, <2>8 DEF EnvAfter, n
    <3>2. Read(y.env, o) = Read(x.env, n)
      BY <1>3, <2>5, <3>1 DEF Assign, Read, Env, o
    <3>3. Read(y.env, n) = Read(x.env, n)
      <4>1. y.env = EnvAfter(x.env, c[x.at]) /\ c[x.at].out # n
        BY <1>3, <2>4, <2>8 DEF o
      <4> QED BY <1>3, <2>5, <2>7, <4>1, KeepsVar
    <3> QED BY <3>2, <3>3
  <2>9. CASE x.at # i
    <3>1. x.at \in Here /\ c[x.at].out # o /\ c[x.at].out # n
      BY <1>5, <2>5, <2>6, <2>9
    <3>2. Read(x.env, o) = Read(x.env, n)
      BY <3>1
    <3>3. o \in Val
      BY <1>3 DEF Val
    <3>4. Read(y.env, o) = Read(x.env, o) /\ Read(y.env, n) = Read(x.env, n)
      BY <1>3, <2>4, <2>5, <2>7, <3>1, <3>3, KeepsVar
    <3> QED BY <3>2, <3>4
  <2> QED BY <2>8, <2>9
<1>12. ASSUME NEW env \in Env
       PROVE  Start(A, env) \in G
  <2>1. Start(A, env) \in State(A)
    BY <1>1, StartTyped
  <2>2. NextOf(A, 0) \notin Here
    BY <1>1, <1>5, <1>4
  <2> QED BY <2>1, <2>2 DEF Start
<1> HIDE DEF G
<1>13. \A x \in G : x \in State(A)
  BY DEF G
<1> QED BY <1>10, <1>11, <1>12, <1>13, SameSteps

-----------------------------------------------------------------------------
(* Removing one op that does nothing to be seen: it writes only variables  *)
(* of X, which no op reads, and goes on to the next op or to t with only   *)
(* labels on the way.                                                      *)
Removable(c, A, i, t, X) ==
  /\ c[i].id \notin {"CALL", "RETURN"}
  /\ \A j \in A : c[j].cond \notin X /\ c[j].a \notin X /\ c[j].b \notin X
  /\ c[i].out \in X \/ \A env \in Env : EnvAfter(env, c[i]) = env
  /\ \A env \in Env : Target(c, A, env, i) \in {NextOf(A, i), t}
  /\ t # NextOf(A, i) =>
       t \in A /\ i < t /\ \A k \in Between(A, i, t) : c[k].id = "LABEL"
  /\ \A j \in A : IsJump(c[j]) => LabelSlot(c, A, c[j].label) # i

(* The states x of the program and y of the one without the op: alike, at  *)
(* the same op, x at the op and y past it, y on its way to x.              *)
Alike(X, x, y) ==
  x.calls = y.calls /\ x.ret = y.ret /\ \A v \in Var \ X : x.env[v] = y.env[v]

Level(i, X, x, y) == Alike(X, x, y) /\ x.at = y.at /\ x.at # i

Ahead(A, i, X, x, y) == Alike(X, x, y) /\ x.at = i /\ y.at = NextOf(A, i)

Behind(A, i, t, X, x, y) ==
  /\ Alike(X, x, y) /\ x.at = t /\ t \in A /\ t # NextOf(A, i)
  /\ y.at \in Between(A, i, t)

(* An op does the same to variables that are alike. *)
LEMMA AlikeAfter ==
  ASSUME NEW X, NEW env \in Env, NEW e2 \in Env, \A v \in Var \ X : env[v] = e2[v],
         NEW op \in Op, OpShape(op), op.id # "PLACE",
         op.cond \notin X, op.a \notin X, op.b \notin X
  PROVE  /\ \A v \in Var \ X : EnvAfter(env, op)[v] = EnvAfter(e2, op)[v]
         /\ Read(env, op.a) = Read(e2, op.a) /\ Read(env, op.cond) = Read(e2, op.cond)
<1>1. /\ Read(env, op.a) = Read(e2, op.a) /\ Read(env, op.b) = Read(e2, op.b)
      /\ Read(env, op.cond) = Read(e2, op.cond)
  BY DEF Read
<1>2. \A x : \A v \in Var \ X : Assign(env, op, x)[v] = Assign(e2, op, x)[v]
  BY DEF Assign, Env
<1>3. CASE op.id = "STORE"
  <2>1. op.out = None
    BY <1>3 DEF OpShape
  <2>2. EnvAfter(env, op) = env /\ EnvAfter(e2, op) = e2
    BY <1>3, <2>1, KeepsOthers
  <2> QED BY <1>1, <2>2
<1>4. CASE op.id # "STORE"
  <2> DEFINE same(e, f) == \A v \in Var \ X : e[v] = f[v]
             a == Read(env, op.a)
             b == Read(env, op.b)
             k == Read(env, op.cond)
  <2>1. /\ EnvAfter(env, op) =
             CASE op.id = "IMM"   -> Assign(env, op, a)
               [] op.id = "NOT"   -> Assign(env, op, IF a = 0 THEN 1 ELSE 0)
               [] op.id = "OR"    -> Assign(env, op, IF a = 0 /\ b = 0 THEN 0 ELSE 1)
               [] op.id = "CMOV"  -> IF k # 0 THEN Assign(env, op, a)
                                     ELSE IF op.b = None THEN env
                                     ELSE Assign(env, op, b)
               [] OTHER           -> env
        /\ EnvAfter(e2, op) =
             CASE op.id = "IMM"   -> Assign(e2, op, a)
               [] op.id = "NOT"   -> Assign(e2, op, IF a = 0 THEN 1 ELSE 0)
               [] op.id = "OR"    -> Assign(e2, op, IF a = 0 /\ b = 0 THEN 0 ELSE 1)
               [] op.id = "CMOV"  -> IF k # 0 THEN Assign(e2, op, a)
                                     ELSE IF op.b = None THEN e2
                                     ELSE Assign(e2, op, b)
               [] OTHER           -> e2
    BY <1>1, <1>4 DEF EnvAfter
  <2>2. same(env, e2) /\ \A x : same(Assign(env, op, x), Assign(e2, op, x))
    BY <1>2
  <2> HIDE DEF same, a, b, k
  <2>3. same(EnvAfter(env, op), EnvAfter(e2, op))
    <3>1. CASE op.id \in {"IMM", "NOT", "OR"}
      BY <2>1, <2>2, <3>1
    <3>2. CASE op.id = "CMOV"
      BY <2>1, <2>2, <3>2
    <3>3. CASE op.id \notin {"IMM", "NOT", "OR", "CMOV"}
      <4>1. EnvAfter(env, op) = env /\ EnvAfter(e2, op) = e2
        BY <2>1, <3>3
      <4> QED BY <2>2, <4>1
    <3> QED BY <3>1, <3>2, <3>3
  <2> QED BY <1>1, <2>3 DEF same
<1> QED BY <1>3, <1>4

(* Where the op was, the list closes up. *)
LEMMA NextWithout ==
  ASSUME NEW A \in SUBSET Slot, NEW i \in A, NEW B, B = A \ {i}, NEW j \in Nat
  PROVE  /\ NextOf(A, j) # i => NextOf(B, j) = NextOf(A, j)
         /\ NextOf(A, j) = i => NextOf(B, j) = NextOf(A, i)
         /\ NextOf(A, i) # i /\ NextOf(A, i) \in B \cup {End}
<1>1. B \in SUBSET Slot /\ B \subseteq A /\ i \in Nat /\ i # End /\ \A k \in A : k \in Nat /\ k # End
  BY SlotsAre
<1>2. NextOf(A, i) # i /\ NextOf(A, i) \in B \cup {End}
  BY <1>1, NextIs
<1>3. ASSUME NextOf(A, j) # i
      PROVE  NextOf(B, j) = NextOf(A, j)
  <2>1. CASE NextOf(A, j) = End
    <3>1. \A k \in B : ~ (j < k)
      BY <1>1, <2>1, NextIs
    <3> QED BY <1>1, <3>1, <2>1, NextIs
  <2>2. CASE NextOf(A, j) # End
    <3>1. NextOf(A, j) \in B /\ j < NextOf(A, j) /\ \A k \in B : j < k => NextOf(A, j) <= k
      BY <1>1, <1>3, <2>2, NextIs
    <3> QED BY <1>1, <3>1, NextUnique
  <2> QED BY <2>1, <2>2
<1>4. ASSUME NextOf(A, j) = i
      PROVE  NextOf(B, j) = NextOf(A, i)
  <2>1. j < i /\ \A k \in A : j < k => i <= k
    BY <1>1, <1>4, NextIs
  <2>2. \A k \in B : j < k => i < k
    BY <1>1, <2>1
  <2>3. CASE NextOf(A, i) = End
    <3>1. \A k \in B : ~ (j < k)
      BY <1>1, <2>2, <2>3, NextIs
    <3> QED BY <1>1, <2>3, <3>1, NextIs
  <2>4. CASE NextOf(A, i) # End
    <3>1. NextOf(A, i) \in B /\ i < NextOf(A, i) /\ \A k \in A : i < k => NextOf(A, i) <= k
      BY <1>1, <1>2, <2>4, NextIs
    <3> DEFINE n == NextOf(A, i)
    <3>2. j < n /\ \A k \in B : j < k => n <= k
      <4>1. n \in Nat /\ i < n /\ \A k \in A : i < k => n <= k
        BY <1>1, <3>1
      <4> HIDE DEF n
      <4> QED BY <1>1, <2>1, <2>2, <4>1
    <3> QED BY <1>1, <3>1, <3>2, NextUnique
  <2> QED BY <2>3, <2>4
<1> QED BY <1>2, <1>3, <1>4

LEMMA FallsOn ==
  ASSUME NEW c, NEW A, NEW env, NEW j, c[j].id # "RETURN", c[j].id # "GOTO",
         ~ (c[j].id = "COND" /\ Read(env, c[j].cond) # 0)
  PROVE  Target(c, A, env, j) = NextOf(A, j)
BY DEF Target

(* From the same op the two go to the same op, or the first to the op.     *)
LEMMA LevelStep ==
  ASSUME NEW c, NEW A, Runnable(c, A), NEW i \in A, NEW B, B = A \ {i}, Runnable(c, B),
         NEW t, NEW X, Removable(c, A, i, t, X),
         NEW x \in State(A), NEW y \in State(B), Level(i, X, x, y)
  PROVE  \/ Level(i, X, Exec(c, A, x), Exec(c, B, y))
         \/ Ahead(A, i, X, Exec(c, A, x), Exec(c, B, y))
<1>1. A \in SUBSET Slot /\ i # End /\ i \in Nat /\ \A j \in A : j \in Nat /\ j # End
  BY SlotsAre DEF Runnable
<1>2. CASE x.at = End
  BY <1>1, <1>2 DEF Exec, Level
<1>3. CASE x.at # End
  <2> DEFINE j == x.at
             op == c[j]
             x2 == Exec(c, A, x)
             y2 == Exec(c, B, y)
  <2>1. y.at = j /\ j # i /\ j \in A /\ j \in Nat /\ j # End /\ x.env \in Env /\ y.env \in Env
    BY <1>1, <1>3 DEF Level, State
  <2>2. op \in Op /\ OpShape(op) /\ op.id # "PLACE"
    BY <2>1 DEF Runnable
  <2>3. op.cond \notin X /\ op.a \notin X /\ op.b \notin X
    BY <2>1 DEF Removable
  <2>4. x.calls = y.calls /\ x.ret = y.ret /\ \A v \in Var \ X : x.env[v] = y.env[v]
    BY DEF Level, Alike
  <2>5. /\ x2 = [at |-> Target(c, A, x.env, j), env |-> EnvAfter(x.env, op),
                 calls |-> IF op.id = "CALL" THEN Append(x.calls, Read(x.env, op.a)) ELSE x.calls,
                 ret |-> IF op.id = "RETURN" THEN Read(x.env, op.a) ELSE x.ret]
        /\ y2 = [at |-> Target(c, B, y.env, j), env |-> EnvAfter(y.env, op),
                 calls |-> IF op.id = "CALL" THEN Append(y.calls, Read(y.env, op.a)) ELSE y.calls,
                 ret |-> IF op.id = "RETURN" THEN Read(y.env, op.a) ELSE y.ret]
    BY <2>1 DEF Exec
  <2> HIDE DEF op, x2, y2
  <2>6. /\ \A v \in Var \ X : EnvAfter(x.env, op)[v] = EnvAfter(y.env, op)[v]
        /\ Read(x.env, op.a) = Read(y.env, op.a) /\ Read(x.env, op.cond) = Read(y.env, op.cond)
    BY <2>1, <2>2, <2>3, <2>4, AlikeAfter
  <2>7. Alike(X, x2, y2)
    BY <2>4, <2>5, <2>6 DEF Alike
  <2>8. IsJump(op) => /\ LabelSlot(c, B, op.label) = LabelSlot(c, A, op.label)
                      /\ LabelSlot(c, A, op.label) # i
    <3> SUFFICES ASSUME IsJump(c[j])
                 PROVE  /\ LabelSlot(c, B, c[j].label) = LabelSlot(c, A, c[j].label)
                        /\ LabelSlot(c, A, c[j].label) # i
      BY DEF op
    <3> DEFINE s == LabelSlot(c, A, c[j].label)
    <3>1. s \in A /\ c[s].id = "LABEL" /\ c[s].label = c[j].label
      BY <2>1, JumpLands
    <3>2. s # i
      BY <2>1 DEF Removable
    <3>3. s \in B
      BY <3>1, <3>2
    <3>4. \A k \in B : c[k].id = "LABEL" => k \in A /\ c[k].id = "LABEL" /\ c[k].label = c[k].label
      OBVIOUS
    <3>5. LabelSlot(c, B, c[j].label) = LabelSlot(c, A, c[j].label)
      BY <2>1, <3>1, <3>3, <3>4, SameLabel
    <3> QED BY <3>2, <3>5
  <2>9. /\ NextOf(A, j) # i => NextOf(B, j) = NextOf(A, j)
        /\ NextOf(A, j) = i => NextOf(B, j) = NextOf(A, i)
    BY <1>1, <2>1, NextWithout
  <2>10. \/ x2.at = y2.at /\ x2.at # i
         \/ x2.at = i /\ y2.at = NextOf(A, i)
    <3>1. x2.at = Target(c, A, x.env, j) /\ y2.at = Target(c, B, y.env, j)
      BY <2>5
    <3>2. CASE op.id = "RETURN"
      BY <1>1, <3>1, <3>2 DEF Target, op
    <3>3. CASE op.id = "GOTO" \/ (op.id = "COND" /\ Read(x.env, op.cond) # 0)
      <4>1. IsJump(op)
        BY <3>3 DEF IsJump
      <4> QED BY <2>6, <2>8, <3>1, <3>3, <4>1 DEF Target, op
    <3>4. CASE op.id # "RETURN" /\ ~(op.id = "GOTO" \/ (op.id = "COND" /\ Read(x.env, op.cond) # 0))
      <4>1. x2.at = NextOf(A, j)
        <5>1. c[j].id # "RETURN" /\ c[j].id # "GOTO"
          BY <3>4 DEF op
        <5>2. ~ (c[j].id = "COND" /\ Read(x.env, c[j].cond) # 0)
          BY <3>4 DEF op
        <5>3. Target(c, A, x.env, j) = NextOf(A, j)
          BY <5>1, <5>2, FallsOn
        <5> QED BY <3>1, <5>3
      <4>2. ~(op.id = "GOTO" \/ (op.id = "COND" /\ Read(y.env, op.cond) # 0))
        BY <2>6, <3>4
      <4>3. y2.at = NextOf(B, j)
        <5>1. c[j].id # "RETURN" /\ c[j].id # "GOTO"
          BY <3>4 DEF op
        <5>2. ~ (c[j].id = "COND" /\ Read(y.env, c[j].cond) # 0)
          BY <4>2 DEF op
        <5>3. Target(c, B, y.env, j) = NextOf(B, j)
          BY <5>1, <5>2, FallsOn
        <5> QED BY <3>1, <5>3
      <4> QED BY <2>9, <4>1, <4>3
    <3> QED BY <3>2, <3>3, <3>4
  <2>11. Level(i, X, x2, y2) \/ Ahead(A, i, X, x2, y2)
    BY <2>7, <2>10 DEF Level, Ahead
  <2> QED BY <2>11 DEF x2, y2
<1> QED BY <1>2, <1>3

(* The op itself is run by the first alone. *)
LEMMA AheadStep ==
  ASSUME NEW c, NEW A, Runnable(c, A), NEW i \in A, NEW B, B = A \ {i}, Runnable(c, B),
         NEW t, NEW X, Removable(c, A, i, t, X),
         NEW x \in State(A), NEW y \in State(B), Ahead(A, i, X, x, y)
  PROVE  \/ Level(i, X, Exec(c, A, x), y)
         \/ Behind(A, i, t, X, Exec(c, A, x), y)
<1>1. A \in SUBSET Slot /\ i # End /\ i \in Nat /\ \A j \in A : j \in Nat /\ j # End
  BY SlotsAre DEF Runnable
<1> DEFINE x2 == Exec(c, A, x)
           n == NextOf(A, i)
<1>2. x.at = i /\ y.at = n /\ x.env \in Env
  BY DEF Ahead, State
<1>3. c[i] \in Op /\ OpShape(c[i]) /\ c[i].id # "PLACE"
  BY DEF Runnable
<1>4. x2.calls = x.calls /\ x2.ret = x.ret /\ x2.env = EnvAfter(x.env, c[i])
      /\ x2.at = Target(c, A, x.env, i)
  BY <1>1, <1>2 DEF Exec, Removable
<1> HIDE DEF x2
<1>5. \A v \in Var \ X : x2.env[v] = x.env[v]
  <2>1. CASE c[i].out \in X
    <3>1. \A v \in Var \ X : c[i].out # v /\ v \in Val
      BY <2>1 DEF Val
    <3>2. \A v \in Var \ X : Read(EnvAfter(x.env, c[i]), v) = Read(x.env, v)
      BY <1>2, <1>3, <3>1, KeepsVar
    <3> QED BY <1>4, <3>2 DEF Read
  <2>2. CASE \A env \in Env : EnvAfter(env, c[i]) = env
    BY <1>2, <1>4, <2>2
  <2> QED BY <2>1, <2>2 DEF Removable
<1>6. Alike(X, x2, y)
  BY <1>4, <1>5 DEF Ahead, Alike
<1>7. n # i /\ n \in A \cup {End}
  BY <1>1, NextWithout
<1>8. CASE x2.at = n
  BY <1>2, <1>6, <1>7, <1>8 DEF Level, x2
<1>9. CASE x2.at # n
  <2>1. x2.at = t /\ t # n
    BY <1>2, <1>4, <1>9 DEF Removable
  <2>2. t \in A /\ i < t
    BY <2>1 DEF Removable
  <2>3. n \in A /\ i < n /\ n <= t /\ n \in Nat /\ t \in Nat
    BY <1>1, <2>2, NextIs
  <2>4. n \in Between(A, i, t)
    <3> HIDE DEF n
    <3> QED BY <2>1, <2>3 DEF Between
  <2> QED BY <1>2, <1>6, <2>1, <2>2, <2>4 DEF Behind, x2
<1> QED BY <1>8, <1>9

(* The second goes over the labels. *)
LEMMA BehindStep ==
  ASSUME NEW c, NEW A, Runnable(c, A), NEW i \in A, NEW B, B = A \ {i}, Runnable(c, B),
         NEW t, NEW X, Removable(c, A, i, t, X),
         NEW x \in State(A), NEW y \in State(B), Behind(A, i, t, X, x, y)
  PROVE  /\ Exec(c, B, y).at \in Nat /\ y.at < Exec(c, B, y).at
         /\ \/ Level(i, X, x, Exec(c, B, y))
            \/ Behind(A, i, t, X, x, Exec(c, B, y))
<1>1. A \in SUBSET Slot /\ i # End /\ i \in Nat /\ \A j \in A : j \in Nat /\ j # End
  BY SlotsAre DEF Runnable
<1> DEFINE k == y.at
           y2 == Exec(c, B, y)
           n == NextOf(A, k)
<1>2. x.at = t /\ t \in A /\ t # NextOf(A, i) /\ k \in Between(A, i, t)
  BY DEF Behind
<1>3. k \in A /\ i < k /\ k < t /\ c[k].id = "LABEL" /\ i < t /\ k \in Nat /\ t \in Nat
  <2>1. k \in A /\ i < k /\ k < t
    BY <1>2 DEF Between
  <2> QED BY <1>1, <1>2, <2>1 DEF Removable
<1>4. n \in A /\ k < n /\ n <= t /\ n \in Nat
  BY <1>1, <1>2, <1>3, NextIs
<1>5. n # i
  <2> HIDE DEF k, n
  <2> QED BY <1>1, <1>3, <1>4
<1>6. NextOf(B, k) = n
  BY <1>1, <1>3, <1>5, NextWithout
<1>7. OpShape(c[k])
  BY <1>3 DEF Runnable
<1>8. EnvAfter(y.env, c[k]) = y.env
  BY <1>3 DEF EnvAfter
<1>9. y2.at = n /\ y2.env = y.env /\ y2.calls = y.calls /\ y2.ret = y.ret
  <2>1. Target(c, B, y.env, k) = n
    BY <1>3, <1>6 DEF Target
  <2> QED BY <1>1, <1>3, <1>8, <2>1 DEF Exec
<1> HIDE DEF k, n, y2
<1>10. Alike(X, x, y2)
  BY <1>9 DEF Behind, Alike
<1>11. CASE n = t
  <2>1. t # i
    BY <1>1, <1>3
  <2>2. Level(i, X, x, y2)
    BY <1>2, <1>9, <1>10, <1>11, <2>1 DEF Level
  <2> QED BY <1>4, <1>9, <2>2 DEF k, y2
<1>12. CASE n # t
  <2>1. n \in Between(A, i, t)
    BY <1>1, <1>3, <1>4, <1>12 DEF Between
  <2>2. Behind(A, i, t, X, x, y2)
    BY <1>2, <1>9, <1>10, <2>1 DEF Behind
  <2> QED BY <1>4, <1>9, <2>2 DEF k, y2
<1> QED BY <1>11, <1>12

LEMMA CatchesUp ==
  ASSUME NEW c, NEW A, Runnable(c, A), NEW i \in A, NEW B, B = A \ {i}, Runnable(c, B),
         NEW t, NEW X, Removable(c, A, i, t, X),
         NEW x \in State(A), NEW y \in State(B), Behind(A, i, t, X, x, y)
  PROVE  \E z \in State(B) : Reaches(c, B, y, z) /\ Level(i, X, x, z)
<1>1. A \in SUBSET Slot /\ End \in Nat /\ \A j \in A : j \in Nat /\ j < End
  BY SlotsAre DEF Runnable
<1>2. \A w : Behind(A, i, t, X, x, w) => w.at \in Nat /\ w.at < End
  BY <1>1 DEF Behind, Between
<1> DEFINE near(w) == Behind(A, i, t, X, x, w)
           done(w) == \E z \in State(B) : Reaches(c, B, w, z) /\ Level(i, X, x, z)
           Fine == {n \in Nat : \A w \in State(B) : near(w) /\ End - w.at <= n => done(w)}
<1>3. 0 \in Fine
  <2> SUFFICES ASSUME NEW w \in State(B), near(w), End - w.at <= 0 PROVE FALSE
    OBVIOUS
  <2>1. w.at \in Nat /\ w.at < End
    BY <1>2
  <2> QED BY <1>1, <2>1
<1>4. ASSUME NEW n \in Nat, n \in Fine
      PROVE  n + 1 \in Fine
  <2> SUFFICES ASSUME NEW w \in State(B), near(w), End - w.at <= n + 1 PROVE done(w)
    OBVIOUS
  <2> DEFINE v == Exec(c, B, w)
  <2>1. v.at \in Nat /\ w.at < v.at /\ (Level(i, X, x, v) \/ near(v))
    BY BehindStep
  <2>2. v \in State(B) /\ Reaches(c, B, w, v)
    BY ReachesItself, ReachesOn, ExecTyped
  <2>3. w.at \in Nat
    BY <1>2
  <2> HIDE DEF v
  <2>4. CASE Level(i, X, x, v)
    BY <2>2, <2>4
  <2>5. CASE near(v)
    <3>1. End - v.at <= n
      BY <1>1, <2>1, <2>3
    <3>2. done(v)
      BY <1>4, <2>2, <2>5, <3>1
    <3>3. PICK z \in State(B) : Reaches(c, B, v, z) /\ Level(i, X, x, z)
      BY <3>2
    <3>4. Reaches(c, B, w, z)
      BY <2>2, <3>3, ReachesFurther
    <3> QED BY <3>3, <3>4
  <2> QED BY <2>1, <2>4, <2>5
<1>5. \A n \in Nat : n \in Fine
  <2> HIDE DEF Fine
  <2> QED BY <1>3, <1>4, CountingUp
<1>6. End - y.at \in Nat
  <2>1. y.at \in Nat /\ y.at < End
    BY <1>2
  <2> QED BY <1>1, <2>1
<1>7. near(y) /\ End - y.at <= End - y.at
  BY <1>6
<1>8. done(y)
  <2> HIDE DEF near, done
  <2> QED BY <1>5, <1>6, <1>7
<1> QED BY <1>8

(* What a run can show it can show from earlier on. *)
LEMMA FollowsFromBefore ==
  ASSUME NEW c, NEW A, Runnable(c, A), NEW m, NEW d, NEW B, Runnable(d, B), NEW w, NEW v,
         Reaches(d, B, w, v), Follows(c, A, m, d, B, v)
  PROVE  Follows(c, A, m, d, B, w)
<1> SUFFICES ASSUME NEW x, Reaches(c, A, m, x)
             PROVE  \E y : Reaches(d, B, w, y) /\ Shows(x, y)
  BY DEF Follows
<1>1. PICK y : Reaches(d, B, v, y) /\ Shows(x, y)
  BY DEF Follows
<1>2. Reaches(d, B, w, y)
  BY <1>1, ReachesFurther
<1> QED BY <1>1, <1>2

LEMMA UnseenRemoved ==
  ASSUME NEW c, NEW A, Runnable(c, A), NEW i \in A, NEW B, B = A \ {i}, Runnable(c, B),
         NEW t, NEW X, Removable(c, A, i, t, X)
  PROVE  SameRuns(c, A, c, B)
<1>1. A \in SUBSET Slot /\ i # End /\ i \in Nat /\ \A j \in A : j \in Nat /\ j # End /\ j # 0
  BY SlotsAre DEF Runnable
<1>2. \A x, y : /\ Level(i, X, x, y) => Shows(x, y) /\ Shows(y, x)
                /\ Ahead(A, i, X, x, y) => Shows(x, y)
                /\ Behind(A, i, t, X, x, y) => Shows(y, x)
  BY <1>1 DEF Level, Ahead, Behind, Alike, Shows, Between
<1> DEFINE R == {ss \in State(A) \X State(B) :
                   Level(i, X, ss[1], ss[2]) \/ Ahead(A, i, X, ss[1], ss[2])}
           Q == {ss \in State(B) \X State(A) :
                   Level(i, X, ss[2], ss[1]) \/ Behind(A, i, t, X, ss[2], ss[1])}
<1>3. \A x \in State(A), y \in State(B) :
        /\ <<x, y>> \in R <=> (Level(i, X, x, y) \/ Ahead(A, i, X, x, y))
        /\ <<y, x>> \in Q <=> (Level(i, X, x, y) \/ Behind(A, i, t, X, x, y))
  OBVIOUS
<1> HIDE DEF R, Q
<1>4. KeepsUp(c, A, c, B, R)
  <2> SUFFICES ASSUME NEW x \in State(A), NEW y \in State(B), <<x, y>> \in R
               PROVE  /\ Shows(x, y)
                      /\ \E z \in State(B) : Reaches(c, B, y, z) /\ <<Exec(c, A, x), z>> \in R
    BY DEF KeepsUp
  <2> DEFINE x2 == Exec(c, A, x)
             y2 == Exec(c, B, y)
  <2>1. x2 \in State(A) /\ y2 \in State(B) /\ Reaches(c, B, y, y2) /\ Reaches(c, B, y, y)
    BY ReachesItself, ReachesOn, ExecTyped
  <2>2. CASE Level(i, X, x, y)
    <3>1. Level(i, X, x2, y2) \/ Ahead(A, i, X, x2, y2)
      BY <2>2, LevelStep
    <3> HIDE DEF x2, y2
    <3>2. \E z \in State(B) : Reaches(c, B, y, z) /\ <<x2, z>> \in R
      BY <1>3, <2>1, <3>1
    <3> QED BY <1>2, <2>2, <3>2 DEF x2
  <2>3. CASE Ahead(A, i, X, x, y)
    <3>1. Level(i, X, x2, y) \/ Behind(A, i, t, X, x2, y)
      BY <2>3, AheadStep
    <3> HIDE DEF x2, y2
    <3>2. \E z \in State(B) : Reaches(c, B, y, z) /\ Level(i, X, x2, z)
      BY <2>1, <3>1, CatchesUp
    <3>3. \E z \in State(B) : Reaches(c, B, y, z) /\ <<x2, z>> \in R
      BY <1>3, <2>1, <3>2
    <3> QED BY <1>2, <2>3, <3>3 DEF x2
  <2> QED BY <1>3, <2>2, <2>3
<1>5. KeepsUp(c, B, c, A, Q)
  <2> SUFFICES ASSUME NEW x \in State(A), NEW y \in State(B), <<y, x>> \in Q
               PROVE  /\ Shows(y, x)
                      /\ \E z \in State(A) : Reaches(c, A, x, z) /\ <<Exec(c, B, y), z>> \in Q
    BY DEF KeepsUp
  <2> DEFINE x2 == Exec(c, A, x)
             y2 == Exec(c, B, y)
             x3 == Exec(c, A, x2)
  <2>1. x2 \in State(A) /\ y2 \in State(B) /\ Reaches(c, A, x, x2) /\ Reaches(c, A, x, x)
    BY ReachesItself, ReachesOn, ExecTyped
  <2>2. x3 \in State(A) /\ Reaches(c, A, x, x3)
    <3> HIDE DEF x2
    <3> QED BY <2>1, ReachesOn, ExecTyped
  <2>3. CASE Level(i, X, x, y)
    <3>1. Level(i, X, x2, y2) \/ Ahead(A, i, X, x2, y2)
      BY <2>3, LevelStep
    <3>2. Ahead(A, i, X, x2, y2) => Level(i, X, x3, y2) \/ Behind(A, i, t, X, x3, y2)
      <4> HIDE DEF x2, y2
      <4> QED BY <2>1, AheadStep
    <3> HIDE DEF x2, y2, x3
    <3>3. \E z \in State(A) : Reaches(c, A, x, z) /\ <<y2, z>> \in Q
      BY <1>3, <2>1, <2>2, <3>1, <3>2
    <3> QED BY <1>2, <2>3, <3>3 DEF y2
  <2>4. CASE Behind(A, i, t, X, x, y)
    <3>1. Level(i, X, x, y2) \/ Behind(A, i, t, X, x, y2)
      BY <2>4, BehindStep
    <3> HIDE DEF x2, y2
    <3>2. \E z \in State(A) : Reaches(c, A, x, z) /\ <<y2, z>> \in Q
      BY <1>3, <2>1, <3>1
    <3> QED BY <1>2, <2>4, <3>2 DEF y2
  <2> QED BY <1>3, <2>3, <2>4
<1>6. ASSUME NEW env \in Env
      PROVE  /\ Follows(c, A, Start(A, env), c, B, Start(B, env))
             /\ Follows(c, B, Start(B, env), c, A, Start(A, env))
  <2> DEFINE x == Start(A, env)
             y == Start(B, env)
             x2 == Exec(c, A, x)
  <2>1. B \in SUBSET Slot
    BY DEF Runnable
  <2>2. x \in State(A) /\ y \in State(B)
    BY <1>1, <2>1, StartTyped
  <2>3. x2 \in State(A) /\ Reaches(c, A, x, x2)
    <3> HIDE DEF x
    <3> QED BY <2>2, ReachesItself, ReachesOn, ExecTyped
  <2>4. Level(i, X, x, y) \/ Ahead(A, i, X, x, y)
    <3>1. /\ NextOf(A, 0) # i => NextOf(B, 0) = NextOf(A, 0)
          /\ NextOf(A, 0) = i => NextOf(B, 0) = NextOf(A, i)
      BY <1>1, NextWithout
    <3> QED BY <3>1 DEF Level, Ahead, Alike, Start
  <2> HIDE DEF x, y
  <2>5. Follows(c, A, x, c, B, y)
    BY <1>3, <1>4, <2>2, <2>4, Simulation
  <2>6. Follows(c, B, y, c, A, x)
    <3>1. CASE Level(i, X, x, y)
      BY <1>3, <1>5, <2>2, <3>1, Simulation
    <3>2. CASE Ahead(A, i, X, x, y)
      <4>1. Level(i, X, x2, y) \/ Behind(A, i, t, X, x2, y)
        BY <2>2, <3>2, AheadStep
      <4> HIDE DEF x2
      <4>2. Follows(c, B, y, c, A, x2)
        BY <1>3, <1>5, <2>2, <2>3, <4>1, Simulation
      <4> QED BY <2>3, <4>2, FollowsFromBefore
    <3> QED BY <2>4, <3>1, <3>2
  <2> QED BY <2>5, <2>6 DEF x, y
<1> QED BY <1>6 DEF SameRuns

(* A label that no jump names. *)
LEMMA LabelRemoved ==
  ASSUME NEW c, NEW A, Runnable(c, A), NEW i \in A, c[i].id = "LABEL",
         ~LabelUsed(c, A, c[i].label), NEW B, B = A \ {i}, Runnable(c, B)
  PROVE  SameRuns(c, A, c, B)
<1>1. \A env : EnvAfter(env, c[i]) = env /\ Target(c, A, env, i) = NextOf(A, i)
  BY DEF EnvAfter, Target
<1>2. \A j \in A : IsJump(c[j]) => LabelSlot(c, A, c[j].label) # i
  BY JumpLands DEF LabelUsed
<1>3. Removable(c, A, i, NextOf(A, i), {})
  BY <1>1, <1>2 DEF Removable
<1> QED BY <1>3, UnseenRemoved

(* A jump forward over labels. *)
LEMMA EmptyJumpRemoved ==
  ASSUME NEW c, NEW A, Runnable(c, A), NEW i \in A, IsJump(c[i]),
         NEW t, t = LabelSlot(c, A, c[i].label), i < t,
         \A j \in Between(A, i, t) : ~HasEffect(c[j]),
         NEW B, B = A \ {i}, Runnable(c, B)
  PROVE  SameRuns(c, A, c, B)
<1>1. \A env : EnvAfter(env, c[i]) = env /\ Target(c, A, env, i) \in {NextOf(A, i), t}
  BY DEF EnvAfter, Target, IsJump
<1>2. \A j \in A : IsJump(c[j]) => LabelSlot(c, A, c[j].label) # i
  <2>1. c[i].id # "LABEL"
    BY DEF IsJump
  <2> QED BY <2>1, JumpLands
<1>3. \A k \in Between(A, i, t) : c[k].id = "LABEL"
  BY DEF Between, HasEffect, Runnable
<1>4. t \in A
  BY JumpLands
<1>5. Removable(c, A, i, t, {})
  BY <1>1, <1>2, <1>3, <1>4 DEF Removable, IsJump
<1> QED BY <1>5, UnseenRemoved

(* A copy of a variable to itself. *)
LEMMA SelfCopyRemoved ==
  ASSUME NEW c, NEW A, Runnable(c, A), NEW i \in A, CopiesItself(c[i]),
         NEW B, B = A \ {i}, Runnable(c, B)
  PROVE  SameRuns(c, A, c, B)
<1>1. c[i].id = "IMM" /\ c[i].a = c[i].out /\ c[i].out \in Var
  BY DEF CopiesItself, Runnable, OpShape
<1>2. ASSUME NEW env \in Env
      PROVE  EnvAfter(env, c[i]) = env
  <2>1. EnvAfter(env, c[i]) = [env EXCEPT ![c[i].out] = env[c[i].out]]
    BY <1>1 DEF EnvAfter, Assign, Read
  <2> QED BY <1>1, <2>1 DEF Env
<1>3. \A env : Target(c, A, env, i) = NextOf(A, i)
  BY <1>1 DEF Target
<1>4. \A j \in A : IsJump(c[j]) => LabelSlot(c, A, c[j].label) # i
  BY <1>1, JumpLands
<1>5. Removable(c, A, i, NextOf(A, i), {})
  BY <1>1, <1>2, <1>3, <1>4 DEF Removable
<1> QED BY <1>5, UnseenRemoved

(* An op that computes what no op reads. *)
LEMMA UnusedRemoved ==
  ASSUME NEW c, NEW A, Runnable(c, A), NEW i \in A, ~HasSideEffect(c[i]),
         c[i].id # "UNUSED", ~BlockVarUsed(c, A, c[i].out),
         NEW B, B = A \ {i}, Runnable(c, B)
  PROVE  SameRuns(c, A, c, B)
<1>1. c[i].id \in {"IMM", "NOT", "OR", "CMOV"} /\ c[i].out \in Var
  BY DEF HasSideEffect, Runnable, OpShape, Op, OpId
<1>2. \A env : Target(c, A, env, i) = NextOf(A, i)
  BY <1>1 DEF Target
<1>3. \A j \in A : IsJump(c[j]) => LabelSlot(c, A, c[j].label) # i
  BY <1>1, JumpLands
<1>4. \A j \in A : c[j].cond # c[i].out /\ c[j].a # c[i].out /\ c[j].b # c[i].out
  BY DEF BlockVarUsed, VarUsed
<1>5. Removable(c, A, i, NextOf(A, i), {c[i].out})
  BY <1>1, <1>2, <1>3, <1>4 DEF Removable
<1> QED BY <1>5, UnseenRemoved

-----------------------------------------------------------------------------
(* A jump to a label in front of a GOTO may as well go where that goes.    *)
LEMMA PassesThrough ==
  ASSUME NEW c, NEW A, Runnable(c, A), NEW m \in State(A), m.at \in A,
         c[m.at].id \in {"LABEL", "GOTO"}
  PROVE  Exec(c, A, m) = [m EXCEPT !.at = Target(c, A, m.env, m.at)]
<1>1. m.at # End
  BY SlotsAre DEF Runnable
<1>2. EnvAfter(m.env, c[m.at]) = m.env
  BY DEF EnvAfter
<1>3. m = [at |-> m.at, env |-> m.env, calls |-> m.calls, ret |-> m.ret]
  BY DEF State
<1>4. Exec(c, A, m) = [at |-> Target(c, A, m.env, m.at), env |-> m.env,
                       calls |-> m.calls, ret |-> m.ret]
  BY <1>1, <1>2 DEF Exec
<1> QED BY <1>3, <1>4

Retargets(c, i, f, d) == d = [c EXCEPT ![i].label = c[f].label]

LEMMA JumpRetargeted ==
  ASSUME NEW c, NEW A, Runnable(c, A), NEW i \in A, IsJump(c[i]),
         NEW s, s = LabelSlot(c, A, c[i].label), NEW f, f = NextOf(A, s),
         f \in A, c[f].id = "GOTO", f # i,
         NEW d, Retargets(c, i, f, d), Runnable(d, A)
  PROVE  SameRuns(c, A, d, A)
<1>1. A \in SUBSET Slot /\ \A j \in A : j # End
  BY SlotsAre DEF Runnable
<1> DEFINE t == LabelSlot(c, A, c[f].label)
<1>2. s \in A /\ c[s].id = "LABEL" /\ t \in A /\ IsJump(c[f])
  BY JumpLands DEF IsJump
<1>3. /\ \A j \in A : j # i => d[j] = c[j]
      /\ \A j \in A : d[j].id = c[j].id /\ d[j].out = c[j].out
                      /\ d[j].cond = c[j].cond /\ d[j].a = c[j].a /\ d[j].b = c[j].b
      /\ d[i].label = c[f].label
  <2>1. c \in [Slot -> Op] /\ i \in Slot
    BY <1>1 DEF Runnable
  <2>2. d[i] = [c[i] EXCEPT !.label = c[f].label] /\ \A j \in A : j # i => d[j] = c[j]
    BY <1>1, <2>1 DEF Retargets
  <2>3. c[i] \in Op
    BY <2>1
  <2> QED BY <2>2, <2>3 DEF Op
<1>4. \A j \in A : IsJump(c[j]) => LabelSlot(d, A, c[j].label) = LabelSlot(c, A, c[j].label)
  <2> SUFFICES ASSUME NEW j \in A, IsJump(c[j])
               PROVE  LabelSlot(d, A, c[j].label) = LabelSlot(c, A, c[j].label)
    OBVIOUS
  <2> DEFINE u == LabelSlot(c, A, c[j].label)
  <2>1. u \in A /\ c[u].id = "LABEL" /\ c[u].label = c[j].label
    BY JumpLands
  <2>2. \A k \in A : d[k].id = "LABEL" => k # i
    BY <1>3 DEF IsJump
  <2>3. d[u].id = "LABEL" /\ d[u].label = c[j].label
    <3>1. u # i
      BY <2>1 DEF IsJump
    <3> QED BY <1>3, <2>1, <3>1
  <2>4. \A k \in A : d[k].id = "LABEL" => k \in A /\ c[k].id = "LABEL" /\ c[k].label = d[k].label
    <3> SUFFICES ASSUME NEW k \in A, d[k].id = "LABEL"
                 PROVE  c[k].id = "LABEL" /\ c[k].label = d[k].label
      OBVIOUS
    <3>1. d[k] = c[k]
      BY <1>3, <2>2
    <3> QED BY <3>1
  <2>5. \A k \in A : d[k].id = "LABEL" /\ d[k].label = c[j].label => k = u
    BY <2>4, JumpLands
  <2> HIDE DEF u
  <2>6. LabelSlot(d, A, c[j].label) = u
    BY <2>1, <2>3, <2>5, LabelIs, SMTT(30)
  <2> QED BY <2>6 DEF u
<1> DEFINE taken(m) == \/ c[i].id = "GOTO"
                       \/ c[i].id = "COND" /\ Read(m.env, c[i].cond) # 0
           on(m) == [m EXCEPT !.at = t]
<1>5. ASSUME NEW m \in State(A)
      PROVE  /\ m.at # i => Exec(d, A, m) = Exec(c, A, m)
             /\ m.at = i /\ ~taken(m) => Exec(d, A, m) = Exec(c, A, m)
             /\ m.at = i /\ taken(m) =>
                  /\ Exec(c, A, m) = [m EXCEPT !.at = s]
                  /\ Exec(d, A, m) = [m EXCEPT !.at = t]
  <2> DEFINE j == m.at
  <2>1. m = [at |-> m.at, env |-> m.env, calls |-> m.calls, ret |-> m.ret]
    BY DEF State
  <2>2. CASE j = End
    BY <1>1, <2>2 DEF Exec
  <2>3. CASE j # End
    <3>1. j \in A
      BY <2>3 DEF State
    <3>2. CASE j # i
      <4>1. d[j] = c[j]
        BY <1>3, <3>1, <3>2
      <4>2. Target(d, A, m.env, j) = Target(c, A, m.env, j)
        BY <1>4, <3>1, <4>1 DEF Target, IsJump
      <4>3. Exec(d, A, m) = Exec(c, A, m)
        BY <4>1, <4>2 DEF Exec
      <4> QED BY <3>2, <4>3
    <3>3. CASE j = i
      <4>1. EnvAfter(m.env, c[i]) = m.env /\ EnvAfter(m.env, d[i]) = m.env
        BY <1>3 DEF EnvAfter, IsJump
      <4>2. /\ Exec(c, A, m) = [m EXCEPT !.at = Target(c, A, m.env, i)]
            /\ Exec(d, A, m) = [m EXCEPT !.at = Target(d, A, m.env, i)]
        <5>1. c[i].id \notin {"CALL", "RETURN"} /\ d[i].id \notin {"CALL", "RETURN"}
          BY <1>3 DEF IsJump
        <5>2. /\ Exec(c, A, m) = [at |-> Target(c, A, m.env, i), env |-> m.env,
                                  calls |-> m.calls, ret |-> m.ret]
              /\ Exec(d, A, m) = [at |-> Target(d, A, m.env, i), env |-> m.env,
                                  calls |-> m.calls, ret |-> m.ret]
          BY <2>3, <3>3, <4>1, <5>1 DEF Exec
        <5> QED BY <2>1, <5>2
      <4>3. d[i].id = c[i].id /\ d[i].cond = c[i].cond /\ d[i].label = c[f].label
        BY <1>3
      <4>4. ~taken(m) => Target(d, A, m.env, i) = Target(c, A, m.env, i)
        <5>1. ~taken(m) => Target(c, A, m.env, i) = NextOf(A, i)
          BY DEF Target, IsJump
        <5>2. ~taken(m) => Target(d, A, m.env, i) = NextOf(A, i)
          BY <4>3 DEF Target, IsJump
        <5> QED BY <5>1, <5>2
      <4>5. taken(m) => Target(c, A, m.env, i) = s
        BY DEF Target
      <4>6. taken(m) => Target(d, A, m.env, i) = t
        <5>1. LabelSlot(d, A, d[i].label) = t
          BY <1>2, <1>4, <4>3
        <5> QED BY <4>3, <5>1 DEF Target
      <4> HIDE DEF taken, t
      <4> QED BY <3>3, <4>2, <4>4, <4>5, <4>6
    <3> QED BY <3>2, <3>3
  <2> QED BY <2>2, <2>3
<1>6. ASSUME NEW m \in State(A)
      PROVE  /\ m.at = s => Exec(c, A, m) = [m EXCEPT !.at = f]
             /\ m.at = f => Exec(c, A, m) = on(m)
  <2>1. CASE m.at = s
    <3>1. Target(c, A, m.env, s) = f
      BY <1>2 DEF Target
    <3>2. s # f
      BY <1>2
    <3> QED BY <1>2, <2>1, <3>1, <3>2, PassesThrough
  <2>2. CASE m.at = f
    <3>1. Target(c, A, m.env, f) = t
      BY DEF Target
    <3>2. s # f
      BY <1>2
    <3> QED BY <2>2, <3>1, <3>2, PassesThrough
  <2> QED BY <2>1, <2>2
<1> HIDE DEF t
<1> DEFINE late(x, y) == x.at \in {s, f} /\ y = on(x)
           R == {ss \in State(A) \X State(A) : ss[1] = ss[2] \/ late(ss[1], ss[2])}
           Q == {ss \in State(A) \X State(A) : ss[1] = ss[2]}
<1>7. \A x \in State(A), y \in State(A) :
        /\ <<x, y>> \in R <=> (x = y \/ late(x, y))
        /\ <<x, y>> \in Q <=> x = y
  OBVIOUS
<1> HIDE DEF R, Q
<1>8. ASSUME NEW x \in State(A), x.at \in A, NEW j \in A
      PROVE  [x EXCEPT !.at = j] \in State(A) /\ on([x EXCEPT !.at = j]) = on(x)
             /\ [x EXCEPT !.at = j].at = j
  BY <1>1, <1>8 DEF State
<1>9. KeepsUp(c, A, d, A, R)
  <2> SUFFICES ASSUME NEW x \in State(A), NEW y \in State(A), <<x, y>> \in R
               PROVE  /\ Shows(x, y)
                      /\ \E z \in State(A) : Reaches(d, A, y, z) /\ <<Exec(c, A, x), z>> \in R
    BY DEF KeepsUp
  <2>1. /\ Exec(c, A, x) \in State(A) /\ Exec(d, A, y) \in State(A)
        /\ Reaches(d, A, y, y) /\ Reaches(d, A, y, Exec(d, A, y))
    BY ReachesItself, ReachesOn, ExecTyped
  <2>2. CASE x = y
    <3>1. Exec(d, A, x) = Exec(c, A, x) \/ late(Exec(c, A, x), Exec(d, A, x))
      <4>1. CASE x.at = i /\ taken(x)
        <5>1. /\ Exec(c, A, x) = [x EXCEPT !.at = s]
              /\ Exec(d, A, x) = on(x)
          BY <1>5, <4>1
        <5>2. [x EXCEPT !.at = s].at = s /\ on([x EXCEPT !.at = s]) = on(x)
          BY <1>2, <1>8, <4>1
        <5> QED BY <5>1, <5>2
      <4>2. CASE ~(x.at = i /\ taken(x))
        <5> HIDE DEF taken
        <5> QED BY <1>5, <4>2
      <4> QED BY <4>1, <4>2
    <3>2. Shows(x, y)
      BY <2>2 DEF Shows
    <3>3. <<Exec(c, A, x), Exec(d, A, y)>> \in R
      BY <1>7, <2>1, <2>2, <3>1
    <3> QED BY <2>1, <3>2, <3>3
  <2>3. CASE late(x, y)
    <3>1. Shows(x, y)
      BY <1>1, <1>2, <2>3 DEF Shows, State
    <3>2. Exec(c, A, x) = y \/ late(Exec(c, A, x), y)
      <4>1. CASE x.at = f
        BY <1>6, <2>3, <4>1
      <4>2. CASE x.at = s
        <5>1. Exec(c, A, x) = [x EXCEPT !.at = f]
          BY <1>6, <4>2
        <5>2. [x EXCEPT !.at = f].at = f /\ on([x EXCEPT !.at = f]) = on(x)
          BY <1>2, <1>8, <4>2
        <5> QED BY <2>3, <5>1, <5>2
      <4> QED BY <2>3, <4>1, <4>2
    <3>3. <<Exec(c, A, x), y>> \in R
      BY <1>7, <2>1, <3>2
    <3> QED BY <2>1, <3>1, <3>3
  <2> QED BY <1>7, <2>2, <2>3
<1>10. KeepsUp(d, A, c, A, Q)
  <2> SUFFICES ASSUME NEW x \in State(A), NEW y \in State(A), <<x, y>> \in Q
               PROVE  /\ Shows(x, y)
                      /\ \E z \in State(A) : Reaches(c, A, y, z) /\ <<Exec(d, A, x), z>> \in Q
    BY DEF KeepsUp
  <2>0. y = x /\ Shows(x, x)
    BY <1>7 DEF Shows
  <2>1. /\ Exec(c, A, x) \in State(A) /\ Exec(d, A, x) \in State(A)
        /\ Reaches(c, A, x, Exec(c, A, x))
    BY ReachesItself, ReachesOn, ExecTyped
  <2>2. CASE x.at = i /\ taken(x)
    <3> DEFINE x1 == [x EXCEPT !.at = s]
               x2 == [x EXCEPT !.at = f]
    <3>1. Exec(c, A, x) = x1 /\ Exec(d, A, x) = on(x)
      BY <1>5, <2>2
    <3>2. x1 \in State(A) /\ x2 \in State(A) /\ x1.at = s /\ x2.at = f
      BY <1>2, <1>8, <2>2
    <3>3. Exec(c, A, x1) = [x1 EXCEPT !.at = f]
      <4> HIDE DEF x1
      <4> QED BY <1>6, <3>2
    <3>4. Exec(c, A, x1) = x2
      BY <3>3
    <3>5. Exec(c, A, x2) = on(x2)
      <4> HIDE DEF x2
      <4> QED BY <1>6, <3>2
    <3>6. on(x2) = on(x)
      BY <1>2, <1>8, <2>2
    <3> HIDE DEF x1, x2
    <3>7. Reaches(c, A, x, x1)
      BY <2>1, <3>1
    <3>8. Reaches(c, A, x, x2)
      BY <3>4, <3>7, ReachesOn
    <3>9. Reaches(c, A, x, on(x))
      BY <3>5, <3>6, <3>8, ReachesOn
    <3> DEFINE z == on(x)
    <3>10. z = Exec(d, A, x) /\ z \in State(A) /\ Reaches(c, A, x, z)
      BY <2>1, <3>1, <3>9
    <3> HIDE DEF z, on
    <3>11. <<Exec(d, A, x), z>> \in Q
      BY <1>7, <3>10
    <3> QED BY <2>0, <3>10, <3>11
  <2>3. CASE ~(x.at = i /\ taken(x))
    <3>1. Exec(d, A, x) = Exec(c, A, x)
      <4> HIDE DEF taken
      <4> QED BY <1>5, <2>3
    <3>2. <<Exec(d, A, x), Exec(c, A, x)>> \in Q
      BY <1>7, <2>1, <3>1
    <3> QED BY <2>0, <2>1, <3>2
  <2> QED BY <2>2, <2>3
<1>11. ASSUME NEW env \in Env
       PROVE  /\ Start(A, env) \in State(A) /\ <<Start(A, env), Start(A, env)>> \in R
              /\ <<Start(A, env), Start(A, env)>> \in Q
  BY <1>1, <1>7, StartTyped
<1> HIDE DEF late, taken, on
<1> QED BY <1>9, <1>10, <1>11, Simulation DEF SameRuns

-----------------------------------------------------------------------------
(* A CMOV with an ELSE operand, whose output is not among the operands it  *)
(* still reads, may assign the ELSE value first and the other on condition.*)
Expands(c, A, i, d, B) ==
  /\ B = A \cup {i - 1}
  /\ d = [c EXCEPT ![i].b = None,
                   ![i - 1] = MakeOp("IMM", c[i].out, None, None, c[i].b, None)]

(* The states of the second program: in front of the new op, and behind it *)
(* with the ELSE value assigned.                                           *)
Twin(i, x) == [x EXCEPT !.at = IF x.at = i THEN i - 1 ELSE x.at]

Midway(i, op, x) == [x EXCEPT !.env = Assign(x.env, op, Read(x.env, op.b))]

LEMMA NextWith ==
  ASSUME NEW A \in SUBSET Slot, NEW i \in A, NEW B, B = A \cup {i - 1}, i - 1 \in Slot, i - 1 \notin A
  PROVE  /\ B \in SUBSET Slot
         /\ NextOf(B, i - 1) = i
         /\ \A j \in A \cup {0} : NextOf(B, j) = IF NextOf(A, j) = i THEN i - 1 ELSE NextOf(A, j)
<1>1. B \in SUBSET Slot /\ \A k \in B : k \in Nat /\ k # End /\ 0 < k
  BY SlotsAre
<1>2. i \in Nat /\ i - 1 \in Nat
  BY <1>1
<1>3. NextOf(B, i - 1) = i
  <2>1. i \in B /\ i - 1 < i /\ \A k \in B : i - 1 < k => i <= k
    BY <1>1, <1>2
  <2> DEFINE h == i - 1
  <2>2. h \in Nat /\ h < i /\ \A k \in B : h < k => i <= k
    BY <1>2, <2>1
  <2> HIDE DEF h
  <2>3. NextOf(B, h) = i
    BY <1>1, <2>1, <2>2, NextUnique
  <2> QED BY <2>3 DEF h
<1>4. ASSUME NEW j \in A \cup {0}
      PROVE  NextOf(B, j) = IF NextOf(A, j) = i THEN i - 1 ELSE NextOf(A, j)
  <2> DEFINE n == NextOf(A, j)
             h == i - 1
  <2>1. j \in Nat /\ h \in Nat /\ j # h /\ h < i /\ h \in B
    BY <1>1, <1>2
  <2>2. \A k \in B : k \in A \/ k = h
    OBVIOUS
  <2>3. /\ n = End => \A k \in A : ~ (j < k)
        /\ n # End => n \in A /\ j < n /\ \A k \in A : j < k => n <= k
    BY <2>1, NextIs
  <2>4. CASE n = i
    <3>1. j < i /\ \A k \in A : j < k => i <= k
      BY <1>1, <2>3, <2>4
    <3>2. \A k \in B : k \in Nat /\ (k \in A \/ k = h)
      BY <1>1, <2>2
    <3> HIDE DEF n
    <3>3. j < h
      BY <1>2, <2>1, <3>1
    <3> HIDE DEF h
    <3>4. \A k \in B : j < k => h <= k
      BY <1>2, <2>1, <3>1, <3>2
    <3>5. NextOf(B, j) = h
      BY <1>1, <2>1, <3>3, <3>4, NextUnique
    <3> QED BY <2>4, <3>5 DEF h, n
  <2>5. CASE n # i
    <3> SUFFICES NextOf(B, j) = n
      BY <2>5
    <3>1. \A k \in B : k \in Nat /\ (k \in A \/ k = h)
      BY <1>1, <2>2
    <3>2. CASE n = End
      <4>1. ~ (j < i)
        BY <2>3, <3>2
      <4> HIDE DEF n, h
      <4>2. \A k \in B : ~ (j < k)
        BY <1>2, <2>1, <2>3, <3>1, <3>2, <4>1
      <4>3. NextOf(B, j) = End
        BY <1>1, <2>1, <4>2, NextIs
      <4> QED BY <3>2, <4>3
    <3>3. CASE n # End
      <4>1. n \in A /\ n \in B /\ n \in Nat /\ j < n /\ \A k \in A : j < k => n <= k
        BY <1>1, <2>3, <3>3
      <4>2. j < i => n <= i
        BY <4>1
      <4>3. n <= h \/ ~ (j < h)
        <5> HIDE DEF n
        <5> QED BY <1>2, <2>1, <2>5, <4>1, <4>2
      <4> HIDE DEF n, h
      <4>4. \A k \in B : j < k => n <= k
        BY <3>1, <4>1, <4>3
      <4>5. NextOf(B, j) = n
        BY <1>1, <2>1, <4>1, <4>4, NextUnique
      <4> QED BY <4>5
    <3> QED BY <3>2, <3>3
  <2> QED BY <2>4, <2>5
<1> QED BY <1>1, <1>3, <1>4

LEMMA CmovExpanded ==
  ASSUME NEW c, NEW A, Runnable(c, A), NEW i \in A, c[i].id = "CMOV", c[i].b # None,
         c[i].out \notin {c[i].cond, c[i].a}, i - 1 \in Slot, i - 1 \notin A,
         NEW d, NEW B, Expands(c, A, i, d, B), Runnable(d, B)
  PROVE  SameRuns(c, A, d, B)
<1> DEFINE h  == i - 1
           op == c[i]
<1>1. /\ A \in SUBSET Slot /\ B \in SUBSET Slot /\ B = A \cup {h}
      /\ \A j \in B : j \in Nat /\ j # End /\ j # 0
      /\ i \in Nat /\ h # i
  BY SlotsAre DEF Runnable, Expands
<1>2. op \in Op /\ OpShape(op) /\ op.out \in Var /\ op.a \in Val /\ op.b \in Val
  BY DEF Runnable, OpShape, Op
<1>3. /\ \A j \in A : j # i => d[j] = c[j]
      /\ d[h] = MakeOp("IMM", op.out, None, None, op.b, None)
      /\ d[i] = [op EXCEPT !.b = None]
  <2>1. c \in [Slot -> Op] /\ i \in Slot /\ i - 1 \in Slot /\ i - 1 # i
    BY <1>1 DEF Runnable
  <2>2. \A j \in A : j \in Slot /\ j # i - 1
    BY <1>1
  <2> QED BY <2>1, <2>2 DEF Expands
<1>4. /\ d[h].id = "IMM" /\ d[h].out = op.out /\ d[h].a = op.b
      /\ d[i].id = "CMOV" /\ d[i].out = op.out /\ d[i].cond = op.cond
      /\ d[i].a = op.a /\ d[i].b = None
  BY <1>2, <1>3 DEF MakeOp, Op
<1>5. /\ NextOf(B, h) = i
      /\ \A j \in A \cup {0} : NextOf(B, j) = IF NextOf(A, j) = i THEN h ELSE NextOf(A, j)
  BY <1>1, NextWith
<1>6. \A j \in A : IsJump(c[j]) => LabelSlot(d, B, c[j].label) = LabelSlot(c, A, c[j].label)
                                   /\ LabelSlot(c, A, c[j].label) # i
  <2> SUFFICES ASSUME NEW j \in A, IsJump(c[j])
               PROVE  LabelSlot(d, B, c[j].label) = LabelSlot(c, A, c[j].label)
                      /\ LabelSlot(c, A, c[j].label) # i
    OBVIOUS
  <2> DEFINE u == LabelSlot(c, A, c[j].label)
  <2>1. u \in A /\ c[u].id = "LABEL" /\ c[u].label = c[j].label /\ u # i
    BY JumpLands
  <2>2. u \in B /\ d[u].id = "LABEL" /\ d[u].label = c[j].label
    BY <1>1, <1>3, <2>1
  <2>3. \A k \in B : d[k].id = "LABEL" => k \in A /\ c[k].id = "LABEL" /\ c[k].label = d[k].label
    BY <1>1, <1>3, <1>4
  <2>4. \A k \in B : d[k].id = "LABEL" /\ d[k].label = c[j].label => k = u
    BY <2>3, JumpLands
  <2> HIDE DEF u
  <2>5. LabelSlot(d, B, c[j].label) = u
    BY <2>2, <2>4, LabelIs
  <2> QED BY <2>1, <2>5 DEF u
<1> DEFINE twin(x) == Twin(i, x)
           mid(x) == Midway(i, op, x)
<1>7. ASSUME NEW x \in State(A)
      PROVE  /\ x = [at |-> x.at, env |-> x.env, calls |-> x.calls, ret |-> x.ret]
             /\ x.at \in A \cup {End} /\ x.env \in Env
             /\ twin(x) = [at |-> IF x.at = i THEN h ELSE x.at, env |-> x.env,
                           calls |-> x.calls, ret |-> x.ret]
             /\ mid(x) = [at |-> x.at, env |-> Assign(x.env, op, Read(x.env, op.b)),
                          calls |-> x.calls, ret |-> x.ret]
  BY DEF State, Twin, Midway
<1>8. ASSUME NEW x \in State(A)
      PROVE  twin(x) \in State(B) /\ (x.at = i => mid(x) \in State(B))
  <2>1. /\ x.at \in B \cup {End} /\ (IF x.at = i THEN h ELSE x.at) \in B \cup {End}
        /\ x.env \in Env /\ x.calls \in Seq(Val) /\ x.ret \in Val \cup {None}
        /\ x.at # End => x.ret = None
        /\ (IF x.at = i THEN h ELSE x.at) # End => x.at # End
    BY <1>1 DEF State
  <2>2. Read(x.env, op.b) \in Imm
    BY <1>2, <2>1 DEF Read, Env, Val
  <2>3. Assign(x.env, op, Read(x.env, op.b)) \in Env
    BY <1>2, <2>1, <2>2 DEF Assign, Env
  <2> HIDE DEF twin, mid, h, op
  <2>4. twin(x) \in State(B)
    BY <1>7, <2>1 DEF State
  <2>5. x.at = i => mid(x) \in State(B)
    BY <1>7, <2>1, <2>3 DEF State
  <2> QED BY <2>4, <2>5
<1> HIDE DEF h
<1>9. ASSUME NEW x \in State(A), x.at # i
      PROVE  Exec(d, B, twin(x)) = twin(Exec(c, A, x))
  <2>1. CASE x.at = End
    <3>1. twin(x) = x
      BY <1>7, <1>9
    <3> QED BY <2>1, <3>1 DEF Exec
  <2>2. CASE x.at # End
    <3> DEFINE j == x.at
               y == Exec(c, A, x)
    <3>1. j \in A /\ d[j] = c[j] /\ twin(x) = x
      BY <1>3, <1>7, <1>9, <2>2
    <3>2. Target(d, B, x.env, j) = IF Target(c, A, x.env, j) = i THEN h ELSE Target(c, A, x.env, j)
      <4>1. i # End
        BY <1>1
      <4> QED BY <1>5, <1>6, <3>1, <4>1 DEF Target, IsJump
    <3>3. y \in State(A)
      BY ExecTyped
    <3>4. y.at = Target(c, A, x.env, j)
      BY <2>2 DEF Exec
    <3>5. Exec(d, B, x) = [at |-> IF y.at = i THEN h ELSE y.at, env |-> y.env,
                           calls |-> y.calls, ret |-> y.ret]
      BY <2>2, <3>1, <3>2, <3>4 DEF Exec
    <3> HIDE DEF y, twin
    <3>6. Exec(d, B, x) = twin(y)
      BY <1>7, <3>3, <3>5
    <3> QED BY <3>1, <3>6 DEF y
  <2> QED BY <2>1, <2>2
<1>10. ASSUME NEW x \in State(A), x.at = i
       PROVE  Exec(d, B, twin(x)) = mid(x)
  <2>1. twin(x) = [at |-> h, env |-> x.env, calls |-> x.calls, ret |-> x.ret]
    BY <1>7, <1>10
  <2>2. EnvAfter(x.env, d[h]) = Assign(x.env, op, Read(x.env, op.b))
    BY <1>4 DEF EnvAfter, Assign
  <2>3. Target(d, B, x.env, h) = i
    BY <1>4, <1>5 DEF Target
  <2>4. h # End
    BY <1>1
  <2>5. Exec(d, B, twin(x)) = [at |-> i, env |-> Assign(x.env, op, Read(x.env, op.b)),
                               calls |-> x.calls, ret |-> x.ret]
    BY <1>4, <2>1, <2>2, <2>3, <2>4 DEF Exec
  <2> QED BY <1>7, <1>10, <2>5
<1>11. ASSUME NEW x \in State(A), x.at = i
       PROVE  Exec(d, B, mid(x)) = twin(Exec(c, A, x))
  <2> DEFINE a == Read(x.env, op.a)
             b == Read(x.env, op.b)
             k == Read(x.env, op.cond)
             e == Assign(x.env, op, b)
             y == Exec(c, A, x)
             n == NextOf(A, i)
  <2>1. x.env \in Env /\ i # End
    BY <1>1, <1>7
  <2>2. Read(e, op.a) = a /\ Read(e, op.cond) = k
    <3>1. \A v : v # op.out => Read(e, v) = Read(x.env, v)
      BY <1>2, <2>1 DEF Assign, Read, Env
    <3> QED BY <3>1
  <2>3. \A v : Assign(e, d[i], v) = Assign(x.env, op, v)
    BY <1>2, <1>4, <2>1 DEF Assign, Env
  <2>4. EnvAfter(e, d[i]) = EnvAfter(x.env, op)
    <3>1. EnvAfter(x.env, op) = IF k # 0 THEN Assign(x.env, op, a) ELSE e
      BY DEF EnvAfter
    <3>2. EnvAfter(e, d[i]) = IF Read(e, d[i].cond) # 0 THEN Assign(e, d[i], Read(e, d[i].a)) ELSE e
      BY <1>4 DEF EnvAfter
    <3> HIDE DEF a, b, k, e
    <3> QED BY <1>4, <2>2, <2>3, <3>1, <3>2
  <2>5. n # i /\ Target(d, B, e, i) = n /\ Target(c, A, x.env, i) = n
    <3>1. n # i
      BY <1>1, <2>1, NextIs
    <3> QED BY <1>4, <1>5, <3>1 DEF Target
  <2>6. y = [at |-> n, env |-> EnvAfter(x.env, op), calls |-> x.calls, ret |-> x.ret]
    BY <1>11, <2>1, <2>5 DEF Exec
  <2>7. mid(x) = [at |-> i, env |-> e, calls |-> x.calls, ret |-> x.ret]
    BY <1>7, <1>11
  <2>8. y \in State(A)
    BY ExecTyped
  <2> HIDE DEF e, y, n, mid, twin
  <2>9. Exec(d, B, mid(x)) = y
    BY <1>4, <2>1, <2>4, <2>5, <2>6, <2>7 DEF Exec
  <2>10. twin(y) = y
    BY <1>7, <2>5, <2>6, <2>8
  <2> QED BY <2>9, <2>10 DEF y
<1> DEFINE R == {ss \in State(A) \X State(B) : ss[2] = twin(ss[1])}
           Q == {ss \in State(B) \X State(A) :
                   ss[1] = twin(ss[2]) \/ (ss[2].at = i /\ ss[1] = mid(ss[2]))}
<1>12. \A x \in State(A), y \in State(B) :
         /\ <<x, y>> \in R <=> y = twin(x)
         /\ <<y, x>> \in Q <=> y = twin(x) \/ (x.at = i /\ y = mid(x))
  OBVIOUS
<1>13. ASSUME NEW x \in State(A)
       PROVE  /\ Shows(x, twin(x)) /\ Shows(twin(x), x)
              /\ x.at = i => Shows(mid(x), x)
  <2>1. i # End /\ h # End
    BY <1>1
  <2> HIDE DEF twin, mid
  <2> QED BY <1>7, <2>1 DEF Shows
<1> HIDE DEF R, Q, twin, mid, op
<1>14. KeepsUp(c, A, d, B, R)
  <2> SUFFICES ASSUME NEW x \in State(A), NEW y \in State(B), <<x, y>> \in R
               PROVE  /\ Shows(x, y)
                      /\ \E z \in State(B) : Reaches(d, B, y, z) /\ <<Exec(c, A, x), z>> \in R
    BY DEF KeepsUp
  <2>1. y = twin(x)
    BY <1>12
  <2>2. Exec(c, A, x) \in State(A) /\ twin(Exec(c, A, x)) \in State(B)
    BY <1>8, ExecTyped
  <2>3. Reaches(d, B, y, Exec(d, B, y)) /\ Reaches(d, B, y, Exec(d, B, Exec(d, B, y)))
    BY ReachesItself, ReachesOn
  <2>4. Reaches(d, B, y, twin(Exec(c, A, x)))
    BY <1>9, <1>10, <1>11, <2>1, <2>3
  <2>5. <<Exec(c, A, x), twin(Exec(c, A, x))>> \in R
    BY <1>12, <2>2
  <2> QED BY <1>13, <2>1, <2>2, <2>4, <2>5
<1>15. KeepsUp(d, B, c, A, Q)
  <2> SUFFICES ASSUME NEW y \in State(B), NEW x \in State(A), <<y, x>> \in Q
               PROVE  /\ Shows(y, x)
                      /\ \E z \in State(A) : Reaches(c, A, x, z) /\ <<Exec(d, B, y), z>> \in Q
    BY DEF KeepsUp
  <2> DEFINE x2 == Exec(c, A, x)
             y2 == Exec(d, B, y)
  <2>1. x2 \in State(A) /\ y2 \in State(B)
        /\ Reaches(c, A, x, x) /\ Reaches(c, A, x, x2)
    BY ReachesItself, ReachesOn, ExecTyped
  <2>2. y2 = twin(x2) \/ (x.at = i /\ y2 = mid(x))
    <3>1. CASE y = twin(x) /\ x.at # i
      BY <1>9, <3>1
    <3>2. CASE y = twin(x) /\ x.at = i
      BY <1>10, <3>2
    <3>3. CASE x.at = i /\ y = mid(x)
      BY <1>11, <3>3
    <3> QED BY <1>12, <3>1, <3>2, <3>3
  <2> HIDE DEF x2, y2
  <2>3. <<y2, x2>> \in Q \/ <<y2, x>> \in Q
    BY <1>12, <2>1, <2>2
  <2>4. Shows(y, x)
    BY <1>12, <1>13
  <2>5. \E z \in State(A) : Reaches(c, A, x, z) /\ <<y2, z>> \in Q
    BY <2>1, <2>3
  <2> QED BY <2>4, <2>5 DEF y2
<1>16. ASSUME NEW env \in Env
       PROVE  /\ Start(A, env) \in State(A) /\ Start(B, env) \in State(B)
              /\ Start(B, env) = twin(Start(A, env))
  <2>1. Start(A, env) \in State(A) /\ Start(B, env) \in State(B)
    BY <1>1, StartTyped
  <2>2. NextOf(B, 0) = IF NextOf(A, 0) = i THEN h ELSE NextOf(A, 0)
    BY <1>5
  <2>3. Start(B, env) = twin(Start(A, env))
    BY <1>7, <2>1, <2>2 DEF Start
  <2> QED BY <2>1, <2>3
<1>17. \A env \in Env : /\ <<Start(A, env), Start(B, env)>> \in R
                        /\ <<Start(B, env), Start(A, env)>> \in Q
  BY <1>12, <1>16
<1> QED BY <1>14, <1>15, <1>16, <1>17, Simulation DEF SameRuns

=============================================================================
