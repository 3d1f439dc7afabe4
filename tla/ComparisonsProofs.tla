------------------------- MODULE ComparisonsProofs -------------------------
(***************************************************************************)
(* The rewriting of comparisons keeps every result, for values of any      *)
(* width and blocks of any length, as long as no constant is at the end of *)
(* its range.                                                              *)
(***************************************************************************)
EXTENDS Comparisons, TLAPS

(* The ops keep their shape, and those that are still to be visited are as *)
(* they came in.                                                           *)
OpsOK ==
  /\ ops \in Seq(Op) /\ cur \in Nat
  /\ \A i \in DOMAIN ops : ops[i].id \in CompareId <=> ops[i].b # None
  /\ \A i \in DOMAIN ops : i > cur => HasNeighbour(ops[i])

IInv == OpsOK /\ ResultsKept

LEMMA BoolInvFacts ==
  ASSUME NEW id \in CompareId
  PROVE  BoolInv[id] \in CompareId
BY DEF BoolInv, CompareId

(* The comparisons one by one. *)
LEMMA CompareFacts ==
  ASSUME NEW u, NEW v
  PROVE  /\ Compares("EQ", u, v) <=> u = v
         /\ Compares("NEQ", u, v) <=> u # v
         /\ Compares("ULT", u, v) <=> u < v
         /\ Compares("ULTE", u, v) <=> u <= v
         /\ Compares("UGT", u, v) <=> u > v
         /\ Compares("UGTE", u, v) <=> u >= v
         /\ Compares("SLT", u, v) <=> Signed(u) < Signed(v)
         /\ Compares("SLTE", u, v) <=> Signed(u) <= Signed(v)
         /\ Compares("SGT", u, v) <=> Signed(u) > Signed(v)
         /\ Compares("SGTE", u, v) <=> Signed(u) >= Signed(v)
BY DEF Compares

(* The inverse comparison is true when the comparison is not. *)
LEMMA InverseCompares ==
  ASSUME NEW id \in CompareId, NEW u \in Imm, NEW v \in Imm
  PROVE  Compares(BoolInv[id], u, v) <=> ~Compares(id, u, v)
<1>1. u \in Int /\ v \in Int /\ Signed(u) \in Int /\ Signed(v) \in Int
  BY ComparisonsAssumption DEF Imm, Signed
<1>2. /\ u < v <=> ~(u >= v)
      /\ u > v <=> ~(u <= v)
      /\ Signed(u) < Signed(v) <=> ~(Signed(u) >= Signed(v))
      /\ Signed(u) > Signed(v) <=> ~(Signed(u) <= Signed(v))
  BY <1>1
<1>3. CASE id \in {"EQ", "NEQ"}
  BY <1>3, CompareFacts DEF BoolInv
<1>4. CASE id \in {"ULT", "UGTE"}
  BY <1>2, <1>4, CompareFacts DEF BoolInv
<1>5. CASE id \in {"UGT", "ULTE"}
  BY <1>2, <1>5, CompareFacts DEF BoolInv
<1>6. CASE id \in {"SLT", "SGTE"}
  BY <1>2, <1>6, CompareFacts DEF BoolInv
<1>7. CASE id \in {"SGT", "SLTE"}
  BY <1>2, <1>7, CompareFacts DEF BoolInv
<1> QED BY <1>3, <1>4, <1>5, <1>6, <1>7 DEF CompareId

(* With its operands swapped the mirror image is true when it was. *)
LEMMA MirrorCompares ==
  ASSUME NEW id \in DOMAIN Mirror, NEW u \in Imm, NEW v \in Imm
  PROVE  Mirror[id] \in CompareId /\ id \in CompareId
         /\ (Compares(Mirror[id], v, u) <=> Compares(id, u, v))
<1>1. u \in Int /\ v \in Int /\ Signed(u) \in Int /\ Signed(v) \in Int
  BY ComparisonsAssumption DEF Imm, Signed
<1>2. /\ u < v <=> v > u
      /\ u > v <=> v < u
      /\ Signed(u) < Signed(v) <=> Signed(v) > Signed(u)
      /\ Signed(u) > Signed(v) <=> Signed(v) < Signed(u)
  BY <1>1
<1>3. id \in {"EQ", "NEQ", "ULT", "UGT", "SLT", "SGT"}
  BY DEF Mirror
<1>4. Mirror[id] \in CompareId /\ id \in CompareId
  BY <1>3 DEF Mirror, CompareId
<1>5. CASE id \in {"EQ", "NEQ"}
  BY <1>4, <1>5, CompareFacts DEF Mirror
<1>6. CASE id \in {"ULT", "UGT"}
  BY <1>2, <1>4, <1>6, CompareFacts DEF Mirror
<1>7. CASE id \in {"SLT", "SGT"}
  BY <1>2, <1>4, <1>7, CompareFacts DEF Mirror
<1> QED BY <1>3, <1>5, <1>6, <1>7

(* The step to a strict order, for a constant with a neighbour. *)
LEMMA LessCompares ==
  ASSUME NEW u \in Imm, NEW c \in Imm
  PROVE  /\ c # 2 * Half - 1 =>
              (Compares("ULT", u, (c + 1) % (2 * Half)) <=> Compares("ULTE", u, c))
         /\ c # Half - 1 =>
              (Compares("SLT", u, (c + 1) % (2 * Half)) <=> Compares("SLTE", u, c))
         /\ (c + 1) % (2 * Half) \in Imm
<1>1. Half \in Nat \ {0} /\ u \in 0 .. 2 * Half - 1 /\ c \in 0 .. 2 * Half - 1
  BY ComparisonsAssumption DEF Imm
<1>2. CASE c # 2 * Half - 1
  <2>1. (c + 1) % (2 * Half) = c + 1
    BY <1>1, <1>2
  <2>2. c + 1 \in Imm /\ (u < c + 1 <=> u <= c)
    BY <1>1, <1>2 DEF Imm
  <2>3. c # Half - 1 => (Signed(u) < Signed(c + 1) <=> Signed(u) <= Signed(c))
    BY <1>1, <1>2 DEF Signed
  <2> QED BY <2>1, <2>2, <2>3, CompareFacts
<1>3. CASE c = 2 * Half - 1
  <2>1. (c + 1) % (2 * Half) = 0
    BY <1>1, <1>3
  <2>2. 0 \in Imm
    BY <1>1 DEF Imm
  <2>3. c # Half - 1 => (Signed(u) < Signed(0) <=> Signed(u) <= Signed(c))
    BY <1>1, <1>3 DEF Signed
  <2> QED BY <1>3, <2>1, <2>2, <2>3, CompareFacts
<1> QED BY <1>2, <1>3

LEMMA GreaterCompares ==
  ASSUME NEW u \in Imm, NEW c \in Imm \ {0}
  PROVE  /\ Compares("UGT", u, c - 1) <=> Compares("UGTE", u, c)
         /\ c # Half => (Compares("SGT", u, c - 1) <=> Compares("SGTE", u, c))
         /\ c - 1 \in Imm
<1>1. Half \in Nat \ {0} /\ u \in 0 .. 2 * Half - 1 /\ c \in 1 .. 2 * Half - 1
  BY ComparisonsAssumption DEF Imm
<1>2. c - 1 \in Imm /\ (u > c - 1 <=> u >= c)
  BY <1>1 DEF Imm
<1>3. c # Half => (Signed(u) > Signed(c - 1) <=> Signed(u) >= Signed(c))
  BY <1>1 DEF Signed
<1> QED BY <1>2, <1>3, CompareFacts

LEMMA ReadImm ==
  ASSUME NEW env \in Env, NEW v \in Val
  PROVE  Read(env, v) \in Imm /\ (v \in Imm => Read(env, v) = v)
BY ComparisonsAssumption DEF Env, Read, Val

(* Replacing op i by one with the same output keeps the meaning when the   *)
(* two say the same wherever the other ops hold.                           *)
LEMMA ReplaceKeepsIInv ==
  ASSUME IInv, NEW i \in DOMAIN ops, Turn(i), NEW new \in Op,
         ops' = [ops EXCEPT ![i] = new], new.out = ops[i].out,
         new.id \in CompareId <=> new.b # None,
         \A env \in Env :
           (\A j \in DOMAIN ops \ {i} :
              env[ops[j].out] = IF IsTrue(ops[j], env) THEN 1 ELSE 0)
             => (IsTrue(new, env) <=> IsTrue(ops[i], env))
  PROVE  IInv'
<1>1. ops \in Seq(Op) /\ cur \in Nat /\ i = cur + 1 /\ cur' = i /\ meaning' = meaning
  BY DEF IInv, OpsOK, Turn
<1>2. /\ ops' \in Seq(Op) /\ DOMAIN ops' = DOMAIN ops /\ ops'[i] = new
      /\ \A j \in DOMAIN ops \ {i} : ops'[j] = ops[j]
      /\ DOMAIN ops \subseteq Nat
  BY <1>1
<1>3. OpsOK'
  <2>1. \A j \in DOMAIN ops' : ops'[j].id \in CompareId <=> ops'[j].b # None
    BY <1>2 DEF IInv, OpsOK
  <2>2. \A j \in DOMAIN ops' : j > cur' => HasNeighbour(ops'[j])
    <3> SUFFICES ASSUME NEW j \in DOMAIN ops, j > i
                 PROVE  HasNeighbour(ops'[j])
      BY <1>1, <1>2
    <3>1. j # i /\ j > cur
      BY <1>1, <1>2
    <3> QED BY <1>2, <3>1 DEF IInv, OpsOK
  <2>3. \A j \in DOMAIN ops' : j > cur' => HasNeighbour(ops[j])'
    BY <2>2 DEF HasNeighbour
  <2> QED BY <1>1, <1>2, <2>1, <2>3 DEF OpsOK
<1>4. \A env \in Env : Computed(ops', env) <=> Computed(ops, env)
  <2> TAKE env \in Env
  <2> DEFINE others == \A j \in DOMAIN ops \ {i} :
               env[ops[j].out] = IF IsTrue(ops[j], env) THEN 1 ELSE 0
  <2>1. Computed(ops, env) <=>
          others /\ env[ops[i].out] = IF IsTrue(ops[i], env) THEN 1 ELSE 0
    BY DEF Computed
  <2>2. Computed(ops', env) <=>
          others /\ env[ops[i].out] = IF IsTrue(new, env) THEN 1 ELSE 0
    BY <1>2 DEF Computed
  <2> QED BY <2>1, <2>2
<1>5. ResultsKept'
  BY <1>1, <1>4 DEF IInv, ResultsKept, Computed, IsTrue
<1> QED BY <1>3, <1>5 DEF IInv

LEMMA StepIInv == IInv /\ [Next]_vars => IInv'
<1> SUFFICES ASSUME IInv, [Next]_vars PROVE IInv'
  OBVIOUS
<1>1. /\ ops \in Seq(Op) /\ cur \in Nat /\ DOMAIN ops = 1 .. Len(ops)
      /\ \A i \in DOMAIN ops : ops[i] \in Op
      /\ \A i \in DOMAIN ops : ops[i].id \in CompareId <=> ops[i].b # None
  BY DEF IInv, OpsOK
<1>2. ASSUME NEW i \in DOMAIN ops, InvertNot(i)
      PROVE  IInv'
  <2>1. PICK d \in 1 .. i - 1 :
          /\ NotOf(d, i)
          /\ ops' = [ops EXCEPT ![i].id = BoolInv[ops[d].id],
                                ![i].a = ops[d].a, ![i].b = ops[d].b]
    BY <1>2 DEF InvertNot
  <2> DEFINE new == [ops[i] EXCEPT !.id = BoolInv[ops[d].id],
                                   !.a = ops[d].a, !.b = ops[d].b]
  <2>2. d \in DOMAIN ops /\ d # i
    BY <1>1
  <2>3. /\ ops[i] \in Op /\ ops[d] \in Op /\ ops[i].id = "NOT"
        /\ ops[d].id \in CompareId /\ ops[d].out = ops[i].a /\ ops[d].b # None
    BY <1>1, <2>1, <2>2 DEF NotOf, DeclBefore
  <2>4. BoolInv[ops[d].id] \in CompareId
    BY <2>3, BoolInvFacts
  <2>5. /\ new \in Op /\ new.out = ops[i].out /\ new.id = BoolInv[ops[d].id]
        /\ new.a = ops[d].a /\ new.b = ops[d].b
    BY <2>3, <2>4 DEF Op
  <2>6. ops' = [ops EXCEPT ![i] = new]
    BY <1>1, <2>1
  <2> HIDE DEF new
  <2>7. ASSUME NEW env \in Env,
               \A j \in DOMAIN ops \ {i} :
                 env[ops[j].out] = IF IsTrue(ops[j], env) THEN 1 ELSE 0
        PROVE  IsTrue(new, env) <=> IsTrue(ops[i], env)
    <3> DEFINE u == Read(env, ops[d].a)
               v == Read(env, ops[d].b)
    <3>1. u \in Imm /\ v \in Imm
      BY <2>3, ReadImm DEF Op, Val
    <3>2. IsTrue(new, env) <=> ~Compares(ops[d].id, u, v)
      BY <2>3, <2>4, <2>5, <3>1, InverseCompares DEF IsTrue, CompareId
    <3>3. IsTrue(ops[d], env) <=> Compares(ops[d].id, u, v)
      BY <2>3 DEF IsTrue, CompareId
    <3>4. Read(env, ops[i].a) = IF IsTrue(ops[d], env) THEN 1 ELSE 0
      BY <2>2, <2>3, <2>7 DEF Read, Op
    <3>5. IsTrue(ops[i], env) <=> Read(env, ops[i].a) = 0
      BY <2>3 DEF IsTrue
    <3> QED BY <3>2, <3>3, <3>4, <3>5
  <2> QED BY <1>2, <2>3, <2>4, <2>5, <2>6, <2>7, ReplaceKeepsIInv DEF InvertNot
<1>3. ASSUME NEW i \in DOMAIN ops, SwapConstant(i)
      PROVE  IInv'
  <2> DEFINE op == ops[i]
             new == [op EXCEPT !.id = Mirror[op.id], !.a = op.b, !.b = op.a]
  <2>1. /\ Turn(i) /\ op \in Op /\ op.id \in DOMAIN Mirror /\ op.a \in Imm
        /\ ops' = [ops EXCEPT ![i] = new]
    BY <1>1, <1>3 DEF SwapConstant, ConstantFirst
  <2>2. op.id \in CompareId /\ Mirror[op.id] \in CompareId
    BY <2>1, MirrorCompares
  <2>3. op.b \in Val /\ op.a \in Val /\ op.a # None /\ op.b # None
    BY <1>1, <2>1, <2>2, ComparisonsAssumption DEF Op, Val
  <2>4. /\ new \in Op /\ new.out = op.out /\ new.id = Mirror[op.id]
        /\ new.a = op.b /\ new.b = op.a
    BY <2>1, <2>2, <2>3 DEF Op
  <2> HIDE DEF op, new
  <2>5. ASSUME NEW env \in Env
        PROVE  IsTrue(new, env) <=> IsTrue(op, env)
    BY <2>1, <2>2, <2>3, <2>4, ReadImm, MirrorCompares DEF IsTrue, CompareId
  <2> QED BY <2>1, <2>2, <2>3, <2>4, <2>5, ReplaceKeepsIInv DEF op
<1>4. ASSUME NEW i \in DOMAIN ops, MakeLess(i)
      PROVE  IInv'
  <2> DEFINE op == ops[i]
             id == IF op.id = "ULTE" THEN "ULT" ELSE "SLT"
             c == (op.b + 1) % (2 * Half)
             new == [op EXCEPT !.id = id, !.b = c]
  <2>1. /\ Turn(i) /\ op \in Op /\ op.id \in {"ULTE", "SLTE"} /\ op.b \in Imm
        /\ ops' = [ops EXCEPT ![i] = new]
    BY <1>1, <1>4 DEF MakeLess, AtMostConstant
  <2>2. HasNeighbour(op)
    BY <1>1, <2>1 DEF IInv, OpsOK, Turn
  <2>3. c \in Imm /\ c # None /\ id \in CompareId /\ op.id \in CompareId
    BY <2>1, LessCompares, ComparisonsAssumption DEF CompareId, Val
  <2> HIDE DEF id, c
  <2>4. new \in Op /\ new.out = op.out /\ new.id = id /\ new.a = op.a /\ new.b = c
    BY <2>1, <2>3 DEF Op, Val
  <2> HIDE DEF op, new
  <2>5. ASSUME NEW env \in Env
        PROVE  IsTrue(new, env) <=> IsTrue(op, env)
    <3> DEFINE u == Read(env, op.a)
    <3>1. u \in Imm /\ Read(env, op.b) = op.b /\ Read(env, c) = c
      BY <2>1, <2>3, ReadImm DEF Op, Val
    <3>2. IsTrue(op, env) <=> Compares(op.id, u, op.b)
      BY <2>1, <3>1 DEF IsTrue
    <3>3. IsTrue(new, env) <=> Compares(id, u, c)
      BY <2>3, <2>4, <3>1 DEF IsTrue, CompareId
    <3> HIDE DEF u
    <3>4. CASE op.id = "ULTE"
      <4>1. id = "ULT" /\ op.b # 2 * Half - 1
        BY <2>2, <3>4 DEF id, HasNeighbour
      <4> QED BY <2>1, <3>1, <3>2, <3>3, <3>4, <4>1, LessCompares DEF c
    <3>5. CASE op.id = "SLTE"
      <4>1. id = "SLT" /\ op.b # Half - 1
        BY <2>2, <3>5 DEF id, HasNeighbour
      <4> QED BY <2>1, <3>1, <3>2, <3>3, <3>5, <4>1, LessCompares DEF c
    <3> QED BY <2>1, <3>4, <3>5
  <2> QED BY <2>1, <2>3, <2>4, <2>5, ReplaceKeepsIInv DEF op
<1>5. ASSUME NEW i \in DOMAIN ops, MakeGreater(i)
      PROVE  IInv'
  <2> DEFINE op == ops[i]
             id == IF op.id = "UGTE" THEN "UGT" ELSE "SGT"
             c == op.b - 1
             new == [op EXCEPT !.id = id, !.b = c]
  <2>1. /\ Turn(i) /\ op \in Op /\ op.id \in {"UGTE", "SGTE"} /\ op.b \in Imm \ {0}
        /\ ops' = [ops EXCEPT ![i] = new]
    BY <1>1, <1>5 DEF MakeGreater, AtLeastConstant
  <2>2. HasNeighbour(op)
    BY <1>1, <2>1 DEF IInv, OpsOK, Turn
  <2>3. c \in Imm /\ c # None /\ id \in CompareId /\ op.id \in CompareId
    BY <2>1, GreaterCompares, ComparisonsAssumption DEF CompareId, Val
  <2> HIDE DEF id, c
  <2>4. new \in Op /\ new.out = op.out /\ new.id = id /\ new.a = op.a /\ new.b = c
    BY <2>1, <2>3 DEF Op, Val
  <2> HIDE DEF op, new
  <2>5. ASSUME NEW env \in Env
        PROVE  IsTrue(new, env) <=> IsTrue(op, env)
    <3> DEFINE u == Read(env, op.a)
    <3>1. u \in Imm /\ Read(env, op.b) = op.b /\ Read(env, c) = c
      BY <2>1, <2>3, ReadImm DEF Op, Val
    <3>2. IsTrue(op, env) <=> Compares(op.id, u, op.b)
      BY <2>1, <3>1 DEF IsTrue
    <3>3. IsTrue(new, env) <=> Compares(id, u, c)
      BY <2>3, <2>4, <3>1 DEF IsTrue, CompareId
    <3> HIDE DEF u
    <3>4. CASE op.id = "UGTE"
      BY <2>1, <3>1, <3>2, <3>3, <3>4, GreaterCompares DEF c, id
    <3>5. CASE op.id = "SGTE"
      <4>1. id = "SGT" /\ op.b # Half
        BY <2>2, <3>5 DEF id, HasNeighbour
      <4> QED BY <2>1, <3>1, <3>2, <3>3, <3>5, <4>1, GreaterCompares DEF c
    <3> QED BY <2>1, <3>4, <3>5
  <2> QED BY <2>1, <2>3, <2>4, <2>5, ReplaceKeepsIInv DEF op
<1>6. ASSUME NEW i \in DOMAIN ops, Leave(i)
      PROVE  IInv'
  <2>1. Turn(i) /\ ops' = [ops EXCEPT ![i] = ops[i]]
    BY <1>1, <1>6 DEF Leave
  <2> QED BY <1>1, <2>1, ReplaceKeepsIInv
<1>7. CASE UNCHANGED vars
  BY <1>7 DEF vars, IInv, OpsOK, ResultsKept, HasNeighbour, Computed, IsTrue
<1> QED BY <1>2, <1>3, <1>4, <1>5, <1>6, <1>7 DEF Next, Visit, Terminated

(* Values of every width, blocks of every length: the pass changes no      *)
(* result unless a constant is the greatest of its range in a <=, or the   *)
(* least in a signed >=.                                                   *)
THEOREM PassKeepsResults ==
  ASSUME \A p \in Programs : \A i \in DOMAIN p : HasNeighbour(p[i])
  PROVE  Spec => []ResultsKept
<1>1. Init => IInv
  BY ComparisonsAssumption DEF Init, IInv, OpsOK, ResultsKept
<1>2. IInv => ResultsKept
  BY DEF IInv
<1> QED BY <1>1, <1>2, StepIInv, PTL DEF Spec

=============================================================================
