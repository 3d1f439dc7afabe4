---------------------------- MODULE CodeGenProofs ----------------------------
(***************************************************************************)
(* Proofs about the x86 back end, for every function and every list of     *)
(* argument registers.  First the homes that the allocator chooses; then   *)
(* the back end as a whole: the passes before the allocator keep ops       *)
(* well-formed, the prologue keeps the calls that homes were chosen for,   *)
(* and so what holds of the homes holds to the end.  Last the instructions *)
(* that are written: single ones, then the ways to write moves, operations *)
(* and addresses, then the ops, and so the function.                       *)
(***************************************************************************)
EXTENDS CodeGen, FiniteSetTheorems, WellFoundedInduction, TLAPS

(* The numbers are well ordered: a set of them has its minimum in it.      *)
LEMMA LeastIsIn ==
  ASSUME NEW S \in SUBSET Nat, S # {}
  PROVE  Min(S) \in S /\ \A x \in S : Min(S) <= x
<1> DEFINE R == {ss \in Nat \X Nat : ss[1] < ss[2]}
<1>1. IsWellFoundedOn(R, Nat)
  BY NatLessThanWellFounded DEF OpToRel
<1>2. PICK x \in S : \A y \in S : ~ (<<y, x>> \in R)
  <2> HIDE DEF R
  <2> QED BY <1>1, WFMin
<1>3. \A y \in S : x <= y
  <2> SUFFICES ASSUME NEW y \in S PROVE x <= y
    OBVIOUS
  <2>1. <<y, x>> \in Nat \X Nat /\ ~ (<<y, x>> \in R)
    BY <1>2
  <2>2. ~ (<<y, x>>[1] < <<y, x>>[2])
    BY <2>1, Zenon
  <2> QED BY <2>2
<1> QED BY <1>3 DEF Min

(* So has a bounded one its maximum.                                       *)
LEMMA GreatestIsIn ==
  ASSUME NEW n \in Nat, NEW S \in SUBSET (0 .. n), S # {}
  PROVE  Max(S) \in S /\ \A x \in S : x <= Max(S)
<1> DEFINE T == {n - x : x \in S}
<1>1. T \in SUBSET Nat /\ T # {}
  <2>1. PICK x \in S : TRUE
    OBVIOUS
  <2>2. n - x \in T
    OBVIOUS
  <2>3. \A y \in S : n - y \in Nat
    OBVIOUS
  <2> QED BY <2>2, <2>3
<1>2. Min(T) \in T /\ \A y \in T : Min(T) <= y
  <2> HIDE DEF T
  <2> QED BY <1>1, LeastIsIn
<1>3. PICK x \in S : Min(T) = n - x
  BY <1>2
<1>4. \A y \in S : n - y \in T
  OBVIOUS
<1>5. \A y \in S : x >= y
  BY <1>2, <1>3, <1>4
<1> QED BY <1>5 DEF Max

(* The variables that are used stand in line, each at the place that is    *)
(* one more than the number of those hotter than it.                       *)
LEMMA HotFirstIsLine ==
  ASSUME fn \in Functions
  PROVE  HotFirst \in Seq(Var)
<1> DEFINE used == {v \in Var : fn.heat[v] > 0}
           above(v) == {w \in used : Hotter(w, v)}
           rank == [v \in used |-> Cardinality(above(v))]
           C == Cardinality(used)
<1>1. fn.heat \in [Var -> Nat] /\ Var \subseteq Nat /\ IsFiniteSet(Var)
  BY RegAllocAssumption, IntExecAssumption
<1>2. IsFiniteSet(used) /\ C \in Nat
  BY <1>1, FS_Subset, FS_CardinalityType
<1>3. \A v \in used : /\ IsFiniteSet(above(v)) /\ above(v) \subseteq used \ {v}
                      /\ Cardinality(above(v)) \in Nat
  <2> SUFFICES ASSUME NEW v \in used
               PROVE  /\ IsFiniteSet(above(v)) /\ above(v) \subseteq used \ {v}
                      /\ Cardinality(above(v)) \in Nat
    OBVIOUS
  <2>1. ~ Hotter(v, v)
    BY <1>1 DEF Hotter
  <2> QED BY <2>1, <1>2, FS_Subset, FS_CardinalityType
<1>4. rank \in [used -> 0 .. C - 1]
  <2> SUFFICES ASSUME NEW v \in used PROVE Cardinality(above(v)) \in 0 .. C - 1
    OBVIOUS
  <2>1. Cardinality(used \ {v}) = C - 1 /\ IsFiniteSet(used \ {v})
    BY <1>2, FS_RemoveElement
  <2>2. Cardinality(above(v)) <= C - 1
    <3>1. above(v) \in SUBSET (used \ {v})
      BY <1>3
    <3> HIDE DEF used, above, C
    <3> QED BY <2>1, <3>1, FS_Subset
  <2>3. Cardinality(above(v)) \in Nat
    BY <1>3
  <2> HIDE DEF above, C
  <2> QED BY <2>2, <2>3, <1>2
<1>5. ASSUME NEW v \in used, NEW w \in used, Hotter(v, w)
      PROVE  rank[v] < rank[w]
  <2>1. above(v) \subseteq above(w) \ {v}
    <3> SUFFICES ASSUME NEW x \in used, Hotter(x, v)
                 PROVE  Hotter(x, w) /\ x # v
      OBVIOUS
    <3>1. /\ x \in Nat /\ v \in Nat /\ w \in Nat
          /\ fn.heat[x] \in Nat /\ fn.heat[v] \in Nat /\ fn.heat[w] \in Nat
      BY <1>1
    <3> QED BY <3>1, <1>5 DEF Hotter
  <2>2. v \in above(w) /\ IsFiniteSet(above(w)) /\ IsFiniteSet(above(w) \ {v})
    BY <1>3, <1>5, FS_RemoveElement
  <2>3. Cardinality(above(w) \ {v}) = Cardinality(above(w)) - 1
    BY <2>2, FS_RemoveElement
  <2>4. Cardinality(above(v)) <= Cardinality(above(w) \ {v})
    BY <2>1, <2>2, FS_Subset
  <2>5. Cardinality(above(v)) \in Nat /\ Cardinality(above(w)) \in Nat
    BY <1>3
  <2> HIDE DEF above, used
  <2> QED BY <2>3, <2>4, <2>5
<1>6. ASSUME NEW v \in used, NEW w \in used, v # w
      PROVE  Hotter(v, w) \/ Hotter(w, v)
  BY <1>1, <1>6 DEF Hotter
<1>7. \A v, w \in used : rank[v] = rank[w] => v = w
  <2> SUFFICES ASSUME NEW v \in used, NEW w \in used, rank[v] = rank[w], v # w
               PROVE  FALSE
    OBVIOUS
  <2>1. rank[v] \in Nat /\ rank[w] \in Nat
    BY <1>3
  <2> HIDE DEF rank, used
  <2> QED BY <2>1, <1>5, <1>6
<1>8. rank \in Injection(used, 0 .. C - 1)
  <2> HIDE DEF used, rank, C
  <2> QED BY <1>4, <1>7 DEF Injection, IsInjective
<1>9. IsFiniteSet(0 .. C - 1) /\ Cardinality(0 .. C - 1) = C
  BY <1>2, FS_Interval, SMTT(60)
<1>10. rank \in Surjection(used, 0 .. C - 1)
  <2> HIDE DEF used, rank
  <2> QED BY <1>8, <1>9, FS_Injection
<1>11. ASSUME NEW n \in 1 .. C
       PROVE  (CHOOSE v \in used : Cardinality(above(v)) = n - 1) \in Var
  <2>1. n - 1 \in 0 .. C - 1
    BY <1>2
  <2>2. \E v \in used : rank[v] = n - 1
    <3> HIDE DEF used, rank, C
    <3> QED BY <2>1, <1>10 DEF Surjection
  <2>3. \E v \in used : Cardinality(above(v)) = n - 1
    BY <2>2
  <2> QED BY <2>3
<1>12. HotFirst = [n \in 1 .. C |-> CHOOSE v \in used : Cardinality(above(v)) = n - 1]
  BY DEF HotFirst
<1>13. HotFirst \in [1 .. C -> Var]
  <2> HIDE DEF used, C
  <2> QED BY <1>11, <1>12
<1> QED
  <2> HIDE DEF used, C
  <2> QED BY <1>2, <1>13

-----------------------------------------------------------------------------
(* The invariant.  A home is a register of the pool, RAX for the variable  *)
(* that is returned, the argument register of a parameter that no call     *)
(* needs and that has been dealt with, or a slot of the stack in use.      *)

Slot(size, off) == Mem(size, Ea(size, Reg(8, "RBP"), -1, Imm(8, off), NoLoc))

(* What the pool is filled with. *)
FreeRegs ==
  (IF pinned = None THEN {"R11"} ELSE {})
    \cup {ArgRegs[i] : i \in ReservedArgs + 1 .. Len(ArgRegs)}

(* The parameters in registers that were dealt with. *)
Past ==
  {k \in DOMAIN Ins \cap DOMAIN ArgRegs :
     phase # "registers" /\ (phase = "parameters" => k <= cur)}

KeptRegs(v) ==
  {ArgRegs[k] : k \in {k \in Past : k > CalledIntArgs /\ Ins[k] = v}}

HomeRegs(v) == FreeRegs \cup (IF v = pinned THEN {"RAX"} ELSE {}) \cup KeptRegs(v)

InReg(v, r) == location[v] = Reg(TypeSize[v], r)

InSlot(v, off) == location[v] = Slot(TypeSize[v], off)

Homes ==
  /\ location = [v \in Var |-> location[v]]
  /\ \A v \in Var :
       \/ location[v] = NoLoc
       \/ \E r \in HomeRegs(v) : InReg(v, r)
       \/ \E off \in TypeSize[v] .. stackOff : InSlot(v, off)

Apart ==
  \A v, u \in Var : v # u =>
    /\ \A r \in Regs : ~ (InReg(v, r) /\ InReg(u, r))
    /\ \A i, j \in 0 .. stackOff : InSlot(v, i) /\ InSlot(u, j) =>
         i <= j - TypeSize[u] \/ j <= i - TypeSize[v]

(* A parameter on the way was in its argument register, and its home is    *)
(* not the argument register of any parameter.                             *)
Passage(k) == [var |-> Ins[k], argLoc |-> Reg(TypeSize[Ins[k]], ArgRegs[k])]

OnTheWay ==
  /\ toMove \in Seq({Passage(k) : k \in Past})
  /\ \A n \in DOMAIN toMove, r \in Regs :
       InReg(toMove[n].var, r) => r \in FreeRegs \cup {"RAX"}

(* The registers in the pool are different and no home yet. *)
PoolFree ==
  /\ avail \in Seq(FreeRegs)
  /\ \A i, j \in DOMAIN avail : avail[i] = avail[j] => i = j
  /\ \A i \in DOMAIN avail, v \in Var : ~ InReg(v, avail[i])

(* Before the homes are looked for, and while, and after. *)
Early == {"fuse", "tests", "unused", "setup"}
Late == {"registers", "parameters", "stack", "prologue", "moves", "emit", "done"}

Untouched ==
  /\ location = [v \in Var |-> NoLoc]
  /\ toMove = <<>> /\ stackOff = 0 /\ pinned = None
  /\ avail = <<>> /\ hot = <<>>

Allocating ==
  /\ pinned \in Var \cup {None}
  /\ pinned # None => IsLeaf
  /\ scratch = <<IF pinned # None THEN "R11" ELSE "RAX", "R10">>
  /\ hot \in Seq(Var) /\ avail \in Seq(FreeRegs)
  /\ Homes /\ Apart
  /\ OnTheWay
  /\ phase = "registers" =>
       /\ stackOff = 0 /\ toMove = <<>> /\ PoolFree
       /\ \A v \in Var : ~ InReg(v, "RAX")
  /\ phase = "parameters" => cur \in 0 .. Len(Ins)

OpsKnown ==
  /\ fn \in Functions
  /\ ops \in Seq(Op) /\ \A k \in DOMAIN ops : WellFormed(ops[k], fn.outs)

AllocInv ==
  /\ OpsKnown
  /\ stackOff \in Nat /\ anyPlaced \in BOOLEAN /\ noRedZone \in BOOLEAN
  /\ phase \in Early \cup Late
  /\ phase \in Early => Untouched
  /\ phase \in Late => Allocating

-----------------------------------------------------------------------------
(* What the operands of instructions are. *)
LEMMA LocationFields ==
  /\ \A size, r : Reg(size, r).type = "REG" /\ Reg(size, r).width = size /\ Reg(size, r).reg = r
  /\ \A size, off : /\ Slot(size, off).type = "MEM" /\ Slot(size, off).width = size
                    /\ Slot(size, off).address.off.bits = off
  /\ NoLoc.type = "NONE"
BY DEF Reg, Slot, Mem, Ea, Imm, NoLoc

LEMMA LocationsDiffer ==
  /\ \A size, width, r, x : Reg(size, r) = Reg(width, x) => r = x
  /\ \A size, width, i, j : Slot(size, i) = Slot(width, j) => i = j
  /\ \A size, width, r, i : Reg(size, r) # Slot(width, i)
  /\ \A size, x : Reg(size, x) # NoLoc /\ Slot(size, x) # NoLoc
<1>1. \A size, width, r, x : Reg(size, r) = Reg(width, x) => Reg(size, r).reg = Reg(width, x).reg
  BY Zenon
<1>2. \A size, width, i, j : Slot(size, i) = Slot(width, j) =>
        Slot(size, i).address.off.bits = Slot(width, j).address.off.bits
  BY Zenon
<1>3. \A size, width, r, i : Reg(size, r) = Slot(width, i) => Reg(size, r).type = Slot(width, i).type
  BY Zenon
<1>4. \A size, x : /\ Reg(size, x) = NoLoc => Reg(size, x).type = NoLoc.type
                  /\ Slot(size, x) = NoLoc => Slot(size, x).type = NoLoc.type
  BY Zenon
<1> QED BY <1>1, <1>2, <1>3, <1>4, LocationFields

LEMMA LocationsEncodable ==
  ASSUME NEW size, NEW r, NEW off
  PROVE  LocEncodable(Reg(size, r)) /\ LocEncodable(Slot(size, off))
BY DEF Reg, Slot, Mem, Ea, Imm, NoLoc, LocEncodable, AddressEncodable

LEMMA ArgRegsKnown ==
  ASSUME NEW i \in DOMAIN ArgRegs
  PROVE  /\ ArgRegs[i] \in Regs
         /\ ArgRegs[i] \notin {"RAX", "R10", "R11", "RBP", "RSP"}
BY X86Assumption DEF Regs

(* The registers that calls load, and those that stay out of the pool. *)
LEMMA ArgCounts ==
  ASSUME OpsKnown
  PROVE  /\ CalledIntArgs \in 0 .. Len(ArgRegs)
         /\ \A k \in Calls : Len(ops[k].args) <= CalledIntArgs
         /\ ReservedArgs \in Nat /\ ReservedArgs >= Len(Ins) /\ ReservedArgs >= CalledIntArgs
<1> DEFINE S == {0} \cup {Len(ops[k].args) : k \in Calls}
<1>1. Len(ArgRegs) \in Nat /\ Len(Ins) \in Nat
  BY X86Assumption, RegAllocAssumption DEF OpsKnown, Ins
<1>2. ASSUME NEW k \in Calls PROVE Len(ops[k].args) \in 0 .. Len(ArgRegs)
  <2>1. ops[k] \in Op /\ Len(ops[k].args) <= Len(ArgRegs)
    BY DEF OpsKnown, Calls, WellFormed
  <2>2. ops[k].args \in Seq(Operand)
    BY <2>1 DEF Op
  <2> QED BY <1>1, <2>1, <2>2
<1>3. S \in SUBSET (0 .. Len(ArgRegs)) /\ S # {}
  BY <1>1, <1>2
<1>4. Max(S) \in S /\ \A x \in S : x <= Max(S)
  <2> HIDE DEF S
  <2> QED BY <1>1, <1>3, GreatestIsIn
<1>5. CalledIntArgs = Max(S)
  BY DEF CalledIntArgs
<1>6. CalledIntArgs \in 0 .. Len(ArgRegs) /\ \A k \in Calls : Len(ops[k].args) <= CalledIntArgs
  <2>1. \A k \in Calls : Len(ops[k].args) \in S
    OBVIOUS
  <2> HIDE DEF S
  <2> QED BY <1>3, <1>4, <1>5, <2>1
<1>7. ReservedArgs = Max({Len(Ins), CalledIntArgs})
  BY DEF ReservedArgs
<1> DEFINE T == {Len(Ins), CalledIntArgs}
<1>8. CASE Len(Ins) >= CalledIntArgs
  <2>1. Max(T) \in T /\ \A y \in T : Max(T) >= y
    <3>1. \E x \in T : \A y \in T : x >= y
      BY <1>1, <1>6, <1>8
    <3> QED BY <3>1 DEF Max
  <2> QED BY <2>1, <1>1, <1>6, <1>7
<1>9. CASE ~ (Len(Ins) >= CalledIntArgs)
  <2>1. Max(T) \in T /\ \A y \in T : Max(T) >= y
    <3>1. \E x \in T : \A y \in T : x >= y
      BY <1>1, <1>6, <1>9
    <3> QED BY <3>1 DEF Max
  <2> QED BY <2>1, <1>1, <1>6, <1>7
<1> QED BY <1>6, <1>8, <1>9

(* The pool has none of the registers that are used otherwise. *)
LEMMA FreeRegsApart ==
  ASSUME OpsKnown
  PROVE  /\ FreeRegs \subseteq Regs
         /\ FreeRegs \cap {"RAX", "R10", "RBP", "RSP"} = {}
         /\ pinned # None => "R11" \notin FreeRegs
         /\ \A i \in DOMAIN ArgRegs : i <= ReservedArgs => ArgRegs[i] \notin FreeRegs
<1>1. \A i \in ReservedArgs + 1 .. Len(ArgRegs) : i \in DOMAIN ArgRegs /\ i > ReservedArgs
  <2>1. ReservedArgs \in Nat
    BY ArgCounts
  <2>2. Len(ArgRegs) \in Nat /\ DOMAIN ArgRegs = 1 .. Len(ArgRegs)
    BY X86Assumption
  <2> QED BY <2>1, <2>2
<1>2. "R11" \in Regs
  BY DEF Regs
<1>3. \A r \in FreeRegs : \/ r = "R11" /\ pinned = None
                          \/ \E i \in DOMAIN ArgRegs : i > ReservedArgs /\ r = ArgRegs[i]
  BY <1>1 DEF FreeRegs
<1>4. \A i \in DOMAIN ArgRegs : i <= ReservedArgs => ArgRegs[i] \notin FreeRegs
  BY <1>3, ArgRegsKnown, X86Assumption, ArgCounts
<1> QED BY <1>2, <1>3, <1>4, ArgRegsKnown

(* The pool is filled with different registers. *)
LEMMA PoolFilled ==
  ASSUME OpsKnown, NEW useRax \in BOOLEAN
  PROVE  /\ Pool(useRax) \in Seq((IF useRax THEN {} ELSE {"R11"})
                                   \cup {ArgRegs[i] : i \in ReservedArgs + 1 .. Len(ArgRegs)})
         /\ \A i, j \in DOMAIN Pool(useRax) : Pool(useRax)[i] = Pool(useRax)[j] => i = j
<1> DEFINE extra == Len(ArgRegs) - ReservedArgs
           args == [n \in 1 .. extra |-> ArgRegs[Len(ArgRegs) + 1 - n]]
           first == IF useRax THEN <<>> ELSE <<"R11">>
           A == {ArgRegs[i] : i \in ReservedArgs + 1 .. Len(ArgRegs)}
           F == IF useRax THEN {} ELSE {"R11"}
<1>1. Len(ArgRegs) \in Nat /\ ReservedArgs \in Nat
  BY X86Assumption, ArgCounts
<1>2. \A n \in 1 .. extra : /\ Len(ArgRegs) + 1 - n \in ReservedArgs + 1 .. Len(ArgRegs)
                            /\ Len(ArgRegs) + 1 - n \in DOMAIN ArgRegs
  BY <1>1, X86Assumption
<1>3. PICK e \in Nat : 1 .. extra = 1 .. e
  <2>1. CASE extra >= 0
    BY <2>1, <1>1
  <2>2. CASE extra < 0
    <3>1. 1 .. extra = 1 .. 0
      BY <2>2, <1>1
    <3> QED BY <3>1
  <2> QED BY <1>1, <2>1, <2>2
<1>4. args \in [1 .. e -> A]
  BY <1>2, <1>3
<1>5. args \in Seq(A) /\ DOMAIN args = 1 .. e /\ Len(args) = e
  <2> HIDE DEF args, A, extra
  <2> QED BY <1>3, <1>4
<1>6. \A i, j \in 1 .. e : args[i] = args[j] => i = j
  BY <1>2, <1>3, X86Assumption, <1>1
<1>7. \A i \in 1 .. e : args[i] # "R11"
  BY <1>2, <1>3, ArgRegsKnown
<1>8. Pool(useRax) = first \o args
  BY DEF Pool
<1>9. CASE useRax
  <2>1. first = <<>> /\ F \cup A = A
    BY <1>9
  <2> HIDE DEF args, A, extra, first, F
  <2>2. Pool(useRax) = args
    BY <1>5, <1>8, <2>1
  <2>3. Pool(useRax) \in Seq(F \cup A)
    BY <1>5, <2>1, <2>2
  <2> QED BY <1>5, <1>6, <2>2, <2>3 DEF F, A
<1>10. CASE ~ useRax
  <2>1. first = <<"R11">> /\ F = {"R11"}
    BY <1>10
  <2> HIDE DEF args, A, extra, first, F
  <2>2. Pool(useRax) \in Seq(F \cup A)
    BY <1>5, <1>8, <2>1
  <2>3. /\ DOMAIN Pool(useRax) = 1 .. e + 1
        /\ Pool(useRax)[1] = "R11"
        /\ \A i \in 2 .. e + 1 : Pool(useRax)[i] = args[i - 1]
    BY <1>5, <1>8, <2>1
  <2>4. ASSUME NEW i \in 1 .. e + 1, NEW j \in 1 .. e + 1, Pool(useRax)[i] = Pool(useRax)[j]
        PROVE  i = j
    <3>1. CASE i = 1 /\ j = 1
      BY <3>1
    <3>2. CASE i = 1 /\ j # 1
      <4>1. j \in 2 .. e + 1 /\ j - 1 \in 1 .. e
        BY <3>2
      <4> QED BY <4>1, <3>2, <2>3, <2>4, <1>7
    <3>3. CASE i # 1 /\ j = 1
      <4>1. i \in 2 .. e + 1 /\ i - 1 \in 1 .. e
        BY <3>3
      <4> QED BY <4>1, <3>3, <2>3, <2>4, <1>7
    <3>4. CASE i # 1 /\ j # 1
      <4>1. /\ i \in 2 .. e + 1 /\ i - 1 \in 1 .. e
            /\ j \in 2 .. e + 1 /\ j - 1 \in 1 .. e
        BY <3>4
      <4>2. i - 1 = j - 1
        BY <4>1, <2>3, <2>4, <1>6
      <4> QED BY <4>2
    <3> QED BY <3>1, <3>2, <3>3, <3>4
  <2> QED BY <2>2, <2>3, <2>4 DEF F, A
<1> QED BY <1>9, <1>10

(* What goes to RAX is a variable, of a function that calls nothing. *)
LEMMA PinnedIsVar ==
  ASSUME OpsKnown
  PROVE  UseRax \in Var \cup {None} /\ (UseRax # None => IsLeaf)
<1> DEFINE k == Max(Returns)
<1> SUFFICES ASSUME IsLeaf, fn.outs > 0, Returns # {}, ops[k].args[1].kind = "VAR"
             PROVE  ops[k].args[1].n \in Var
  BY DEF UseRax
<1>1. Len(ops) \in Nat /\ Returns \in SUBSET (0 .. Len(ops))
  BY DEF OpsKnown, Returns
<1>2. k \in Returns
  BY <1>1, GreatestIsIn
<1>3. k \in DOMAIN ops /\ ops[k] \in Op /\ Len(ops[k].args) = fn.outs
  BY <1>2 DEF Returns, OpsKnown, WellFormed
<1>4. ops[k].args \in Seq(Operand) /\ fn.outs \in Nat
  BY <1>3, RegAllocAssumption DEF Op, OpsKnown
<1>5. ops[k].args[1] \in Operand
  BY <1>3, <1>4
<1> QED BY <1>5 DEF Operand

-----------------------------------------------------------------------------
(* What the actions do to homes. *)

(* The calls, and how many arguments they have, stay. *)
SameCounts ==
  /\ fn' = fn
  /\ IsLeaf' = IsLeaf
  /\ CalledIntArgs' = CalledIntArgs
  /\ ReservedArgs' = ReservedArgs

LEMMA CountsKept ==
  ASSUME OpsKnown, UNCHANGED <<fn, ops>>
  PROVE  SameCounts /\ OpsKnown'
BY DEF SameCounts, OpsKnown, IsLeaf, CalledIntArgs, ReservedArgs, Calls, Ins

(* What could be a home before can be one after. *)
MoreHomes == \A v \in Var : HomeRegs(v) \subseteq HomeRegs(v)'

LEMMA HomesGrow ==
  ASSUME SameCounts, pinned' = pinned, Past \subseteq Past'
  PROVE  MoreHomes /\ FreeRegs' = FreeRegs
<1>1. FreeRegs' = FreeRegs
  BY DEF FreeRegs, SameCounts
<1>2. \A v \in Var : KeptRegs(v) \subseteq KeptRegs(v)'
  BY DEF KeptRegs, SameCounts, Ins
<1> QED BY <1>1, <1>2 DEF MoreHomes, HomeRegs

LEMMA HomesStay ==
  ASSUME Homes, Apart, MoreHomes, UNCHANGED <<location, stackOff>>
  PROVE  Homes' /\ Apart'
<1>1. Homes'
  BY DEF Homes, MoreHomes, InReg, InSlot
<1>2. Apart'
  BY DEF Apart, InReg, InSlot
<1> QED BY <1>1, <1>2

LEMMA RegisterHome ==
  ASSUME Homes, Apart, MoreHomes, stackOff' = stackOff,
         NEW v \in Var, NEW r, r \in HomeRegs(v)',
         \A u \in Var \ {v} : location[u] # Reg(TypeSize[u], r),
         location' = [location EXCEPT ![v] = Reg(TypeSize[v], r)]
  PROVE  /\ Homes' /\ Apart'
         /\ location'[v] = Reg(TypeSize[v], r)
         /\ \A u \in Var \ {v} : location'[u] = location[u]
<1>1. location'[v] = Reg(TypeSize[v], r) /\ \A u \in Var \ {v} : location'[u] = location[u]
  BY DEF Homes
<1>2. Homes'
  <2>1. location' = [u \in Var |-> location'[u]]
    BY DEF Homes
  <2>2. ASSUME NEW u \in Var
        PROVE  \/ location'[u] = NoLoc
               \/ \E x \in HomeRegs(u)' : location'[u] = Reg(TypeSize[u], x)
               \/ \E off \in TypeSize[u] .. stackOff' : location'[u] = Slot(TypeSize[u], off)
    <3>1. CASE u = v
      BY <3>1, <1>1
    <3>2. CASE u # v
      BY <3>2, <1>1 DEF Homes, MoreHomes, InReg, InSlot
    <3> QED BY <3>1, <3>2
  <2> QED BY <2>1, <2>2 DEF Homes, InReg, InSlot
<1>3. Apart'
  <2> SUFFICES ASSUME NEW w \in Var, NEW u \in Var, w # u
               PROVE  /\ \A x \in Regs : ~ (/\ location'[w] = Reg(TypeSize[w], x)
                                            /\ location'[u] = Reg(TypeSize[u], x))
                      /\ \A i, j \in 0 .. stackOff :
                           location'[w] = Slot(TypeSize[w], i) /\ location'[u] = Slot(TypeSize[u], j) =>
                             i <= j - TypeSize[u] \/ j <= i - TypeSize[w]
    BY DEF Apart, InReg, InSlot
  <2>1. CASE w = v
    BY <2>1, <1>1, LocationsDiffer
  <2>2. CASE u = v
    BY <2>2, <1>1, LocationsDiffer
  <2>3. CASE w # v /\ u # v
    BY <2>3, <1>1 DEF Apart, InReg, InSlot
  <2> QED BY <2>1, <2>2, <2>3
<1> QED BY <1>1, <1>2, <1>3

LEMMA StackHome ==
  ASSUME Homes, Apart, MoreHomes, stackOff \in Nat,
         NEW v \in Var, OnStack(v)
  PROVE  /\ Homes' /\ Apart' /\ stackOff' \in Nat
         /\ \A x : location'[v] # Reg(TypeSize[v], x)
         /\ \A u \in Var \ {v} : location'[u] = location[u]
<1> DEFINE here == TypeSize[v] + stackOff
<1>1. /\ location'[v] = Slot(TypeSize[v], here)
      /\ \A u \in Var \ {v} : location'[u] = location[u]
  BY DEF Homes, OnStack, StackVar, Slot
<1>2. \A u \in Var : TypeSize[u] \in {1, 4, 8}
  BY IntExecAssumption
<1>3. /\ stackOff' = here /\ stackOff' \in Nat
      /\ TypeSize[v] \in Nat /\ TypeSize[v] <= here /\ stackOff < here
      /\ here - TypeSize[v] = stackOff
  BY <1>2 DEF OnStack
<1> HIDE DEF here
<1>4. ASSUME NEW u \in Var \ {v}, NEW x, location'[u] = Slot(TypeSize[u], x)
      PROVE  x \in TypeSize[u] .. stackOff
  <2>1. location[u] = Slot(TypeSize[u], x)
    BY <1>1, <1>4
  <2>2. PICK off \in TypeSize[u] .. stackOff : location[u] = Slot(TypeSize[u], off)
    BY <2>1, LocationsDiffer DEF Homes, InReg, InSlot
  <2> QED BY <2>1, <2>2, LocationsDiffer
<1>4a. \A u \in Var \ {v} : \A x :
        location'[u] = Slot(TypeSize[u], x) => x \in 0 .. stackOff /\ x <= stackOff
  <2> SUFFICES ASSUME NEW u \in Var \ {v}, NEW x, location'[u] = Slot(TypeSize[u], x)
               PROVE  x \in 0 .. stackOff /\ x <= stackOff
    OBVIOUS
  <2>1. x \in TypeSize[u] .. stackOff
    BY <1>4
  <2>2. TypeSize[u] \in {1, 4, 8}
    BY <1>2
  <2> QED BY <2>1, <2>2
<1>5. Homes'
  <2>1. location' = [u \in Var |-> location'[u]]
    BY DEF Homes, OnStack
  <2>2. ASSUME NEW u \in Var
        PROVE  \/ location'[u] = NoLoc
               \/ \E x \in HomeRegs(u)' : location'[u] = Reg(TypeSize[u], x)
               \/ \E off \in TypeSize[u] .. stackOff' : location'[u] = Slot(TypeSize[u], off)
    <3>1. CASE u = v
      <4>1. here \in TypeSize[v] .. stackOff'
        BY <1>3
      <4> QED BY <3>1, <4>1, <1>1
    <3>2. CASE u # v
      <4>1. \A off \in TypeSize[u] .. stackOff : off \in TypeSize[u] .. stackOff'
        BY <1>2, <1>3
      <4> QED BY <3>2, <4>1, <1>1 DEF Homes, MoreHomes, InReg, InSlot
    <3> QED BY <3>1, <3>2
  <2> QED BY <2>1, <2>2 DEF Homes, InReg, InSlot
<1>6. Apart'
  <2> SUFFICES ASSUME NEW w \in Var, NEW u \in Var, w # u
               PROVE  /\ \A x \in Regs : ~ (/\ location'[w] = Reg(TypeSize[w], x)
                                            /\ location'[u] = Reg(TypeSize[u], x))
                      /\ \A i, j \in 0 .. stackOff' :
                           location'[w] = Slot(TypeSize[w], i) /\ location'[u] = Slot(TypeSize[u], j) =>
                             i <= j - TypeSize[u] \/ j <= i - TypeSize[w]
    BY DEF Apart, InReg, InSlot
  <2>1. CASE w = v
    <3>1. \A i : location'[w] = Slot(TypeSize[w], i) => i - TypeSize[w] = stackOff
      BY <2>1, <1>1, <1>3, LocationsDiffer
    <3>2. \A j : location'[u] = Slot(TypeSize[u], j) => j <= stackOff
      BY <2>1, <1>4a
    <3> QED BY <3>1, <3>2, <2>1, <1>1, LocationsDiffer
  <2>2. CASE u = v
    <3>1. \A j : location'[u] = Slot(TypeSize[u], j) => j - TypeSize[u] = stackOff
      BY <2>2, <1>1, <1>3, LocationsDiffer
    <3>2. \A i : location'[w] = Slot(TypeSize[w], i) => i <= stackOff
      BY <2>2, <1>4a
    <3> QED BY <3>1, <3>2, <2>2, <1>1, LocationsDiffer
  <2>3. CASE w # v /\ u # v
    <3>1. \A i : location'[w] = Slot(TypeSize[w], i) => i \in 0 .. stackOff
      BY <2>3, <1>4a
    <3>2. \A j : location'[u] = Slot(TypeSize[u], j) => j \in 0 .. stackOff
      BY <2>3, <1>4a
    <3>3. location'[w] = location[w] /\ location'[u] = location[u]
      BY <2>3, <1>1
    <3>4. Apart => /\ \A x \in Regs : ~ (/\ location[w] = Reg(TypeSize[w], x)
                                         /\ location[u] = Reg(TypeSize[u], x))
                   /\ \A i, j \in 0 .. stackOff :
                        location[w] = Slot(TypeSize[w], i) /\ location[u] = Slot(TypeSize[u], j) =>
                          i <= j - TypeSize[u] \/ j <= i - TypeSize[w]
      BY DEF Apart, InReg, InSlot
    <3> QED BY <3>1, <3>2, <3>3, <3>4
  <2> QED BY <2>1, <2>2, <2>3
<1> QED BY <1>1, <1>3, <1>5, <1>6, LocationsDiffer

LEMMA PassagesStay ==
  ASSUME OnTheWay, fn' = fn, FreeRegs' = FreeRegs, Past \subseteq Past', toMove' = toMove,
         \A n \in DOMAIN toMove :
           \/ location'[toMove[n].var] = location[toMove[n].var]
           \/ \A r \in Regs : location'[toMove[n].var] # Reg(TypeSize[toMove[n].var], r)
  PROVE  OnTheWay'
<1>1. {Passage(k) : k \in Past} \subseteq {Passage(k)' : k \in Past'}
  BY DEF Passage, Ins
<1>2. toMove' \in Seq({Passage(k)' : k \in Past'})
  BY <1>1 DEF OnTheWay
<1>3. ASSUME NEW n \in DOMAIN toMove, NEW r \in Regs,
             location'[toMove[n].var] = Reg(TypeSize[toMove[n].var], r)
      PROVE  r \in FreeRegs \cup {"RAX"}
  BY <1>3 DEF OnTheWay, InReg
<1> QED BY <1>2, <1>3 DEF OnTheWay, InReg, Passage

LEMMA PassageAdded ==
  ASSUME OnTheWay, fn' = fn, FreeRegs' = FreeRegs, Past \subseteq Past',
         NEW k \in Past', toMove' = Append(toMove, Passage(k)),
         \A r \in Regs : location'[Ins[k]] = Reg(TypeSize[Ins[k]], r) => r \in FreeRegs \cup {"RAX"},
         \A n \in DOMAIN toMove :
           \/ location'[toMove[n].var] = location[toMove[n].var]
           \/ \A r \in Regs : location'[toMove[n].var] # Reg(TypeSize[toMove[n].var], r)
  PROVE  OnTheWay'
<1> DEFINE S == {Passage(j) : j \in Past'}
<1>1. {Passage(j) : j \in Past} \subseteq S
  OBVIOUS
<1>2. toMove \in Seq(S) /\ Passage(k) \in S
  BY <1>1 DEF OnTheWay
<1>3. Ins' = Ins
  BY DEF Ins
<1>4. Passage(k).var = Ins[k]
  BY DEF Passage
<1>5. S = {[var |-> Ins'[j], argLoc |-> Reg(TypeSize[Ins'[j]], ArgRegs[j])] : j \in Past'}
  BY <1>3 DEF Passage
<1> HIDE DEF S
<1>6. toMove' \in Seq(S)
  BY <1>2
<1>7. ASSUME NEW n \in DOMAIN toMove', NEW r \in Regs,
             location'[toMove'[n].var] = Reg(TypeSize[toMove'[n].var], r)
      PROVE  r \in FreeRegs \cup {"RAX"}
  <2>1. CASE n \in DOMAIN toMove
    <3>1. toMove'[n] = toMove[n]
      BY <2>1, <1>2
    <3> QED BY <3>1, <2>1, <1>7 DEF OnTheWay, InReg
  <2>2. CASE n \notin DOMAIN toMove
    <3>1. toMove'[n] = Passage(k)
      BY <2>2, <1>2
    <3> QED BY <3>1, <1>4, <1>7
  <2> QED BY <2>1, <2>2
<1> QED BY <1>5, <1>6, <1>7 DEF OnTheWay, InReg, Passage

(* The parameters on the way are those that were dealt with. *)
LEMMA MovedParams ==
  ASSUME OnTheWay, OpsKnown, NEW n \in DOMAIN toMove
  PROVE  \E k \in Past : /\ toMove[n] = Passage(k)
                         /\ toMove[n].var = Ins[k]
                         /\ toMove[n].argLoc = Reg(TypeSize[Ins[k]], ArgRegs[k])
<1>1. PICK k \in Past : toMove[n] = Passage(k)
  <2>1. toMove[n] \in {Passage(k) : k \in Past}
    <3> HIDE DEF Passage
    <3> QED BY DEF OnTheWay
  <2> QED BY <2>1
<1>2. Passage(k).var = Ins[k] /\ Passage(k).argLoc = Reg(TypeSize[Ins[k]], ArgRegs[k])
  BY DEF Passage
<1> QED BY <1>1, <1>2

-----------------------------------------------------------------------------
(* The actions. *)

LEMMA SetupInv ==
  ASSUME AllocInv, Setup
  PROVE  AllocInv'
<1>1. Untouched /\ OpsKnown /\ SameCounts /\ OpsKnown'
  BY CountsKept DEF AllocInv, Early, Setup, given, OpsKnown
<1>2. phase' = "registers" /\ Past' = {}
  BY DEF Setup, Past
<1>3. stackOff' = 0 /\ toMove' = <<>> /\ location' = [v \in Var |-> NoLoc]
  BY <1>1 DEF Setup, Untouched
<1>4. pinned' \in Var \cup {None} /\ (pinned' # None => IsLeaf')
  BY <1>1, PinnedIsVar DEF Setup, SameCounts
<1>5. scratch' = <<IF pinned' # None THEN "R11" ELSE "RAX", "R10">>
  BY DEF Setup
<1>6. hot' \in Seq(Var)
  BY <1>1, HotFirstIsLine DEF Setup, OpsKnown
<1>7. \A v \in Var : \A size, r : location'[v] # Reg(size, r) /\ location'[v] # Slot(size, r)
  BY <1>3, LocationsDiffer
<1>8. Homes' /\ Apart'
  BY <1>3, <1>7 DEF Homes, Apart, InReg, InSlot
<1>9. OnTheWay'
  BY <1>3 DEF OnTheWay
<1>10. avail' \in Seq(FreeRegs') /\ \A i, j \in DOMAIN avail' : avail'[i] = avail'[j] => i = j
  <2> DEFINE b == UseRax # None
  <2>1. b \in BOOLEAN /\ avail' = Pool(b) /\ (b <=> pinned' # None)
    BY DEF Setup
  <2>2. FreeRegs' = (IF b THEN {} ELSE {"R11"})
                      \cup {ArgRegs[i] : i \in ReservedArgs + 1 .. Len(ArgRegs)}
    BY <2>1, <1>1 DEF FreeRegs, SameCounts
  <2> HIDE DEF b
  <2> QED BY <2>1, <2>2, <1>1, PoolFilled
<1>11. PoolFree'
  BY <1>7, <1>10 DEF PoolFree, InReg
<1>12. Allocating'
  BY <1>2, <1>3, <1>4, <1>5, <1>6, <1>7, <1>8, <1>9, <1>10, <1>11 DEF Allocating, InReg
<1>13. anyPlaced' \in BOOLEAN /\ noRedZone' \in BOOLEAN
  BY DEF Setup, given, AllocInv
<1> QED BY <1>1, <1>2, <1>3, <1>12, <1>13 DEF AllocInv, OpsKnown, Early, Late

(* What the steps of the allocator have in common. *)
LEMMA AllocFrame ==
  ASSUME AllocInv, phase \in Late, UNCHANGED given
  PROVE  /\ OpsKnown /\ OpsKnown' /\ SameCounts /\ Allocating
         /\ noRedZone' \in BOOLEAN /\ stackOff \in Nat /\ anyPlaced \in BOOLEAN
         /\ Ins \in Seq(Var) /\ Ins' = Ins
<1>1. OpsKnown /\ fn' = fn /\ ops' = ops
  BY DEF AllocInv, OpsKnown, given
<1>2. OpsKnown' /\ SameCounts
  BY <1>1, CountsKept
<1> QED BY <1>1, <1>2, RegAllocAssumption DEF AllocInv, Ins, OpsKnown, given

LEMMA AssignRegisterInv ==
  ASSUME AllocInv, AssignRegister
  PROVE  AllocInv'
<1>1. phase = "registers" /\ phase' = phase /\ phase \in Late /\ UNCHANGED given
  BY DEF AssignRegister, Late
<1>2. /\ OpsKnown /\ OpsKnown' /\ SameCounts /\ Allocating
      /\ noRedZone' \in BOOLEAN /\ stackOff \in Nat /\ anyPlaced \in BOOLEAN
  BY <1>1, AllocFrame
<1>3. PoolFree /\ stackOff = 0 /\ toMove = <<>> /\ hot \in Seq(Var)
      /\ \A v \in Var : ~ InReg(v, "RAX")
  BY <1>1, <1>2 DEF Allocating
<1>4. UNCHANGED <<cur, scratch, pinned, toMove, stackOff, anyPlaced>>
  BY DEF AssignRegister
<1>5. Past = {} /\ Past' = {}
  BY <1>1 DEF Past
<1>6. MoreHomes /\ FreeRegs' = FreeRegs
  BY <1>2, <1>4, <1>5, HomesGrow
<1> DEFINE r == Head(avail)
<1>7. /\ avail \in Seq(FreeRegs) /\ avail # <<>> /\ avail' = Tail(avail)
      /\ r \in FreeRegs /\ 1 \in DOMAIN avail /\ avail[1] = r
      /\ avail' \in Seq(FreeRegs)
      /\ \A i \in DOMAIN avail' : i + 1 \in DOMAIN avail /\ i + 1 # 1 /\ avail'[i] = avail[i + 1]
  BY <1>3 DEF PoolFree, AssignRegister
<1>8. r # "RAX"
  BY <1>7, <1>2, FreeRegsApart
<1> HIDE DEF r
<1> DEFINE fit == {n \in DOMAIN hot : MayHaveRegister(hot[n])}
<1>9. \/ location' = location /\ hot' = <<>>
      \/ \E n \in fit : /\ n = Min(fit)
                       /\ location' = [location EXCEPT ![hot[n]] = Reg(TypeSize[hot[n]], r)]
                       /\ hot' = SubSeq(hot, n + 1, Len(hot))
  <2>1. fit \in SUBSET Nat
    BY <1>3
  <2>2. CASE fit = {}
    BY <2>2 DEF AssignRegister
  <2>3. CASE fit # {}
    <3>1. Min(fit) \in fit
      <4> HIDE DEF fit
      <4> QED BY <2>1, <2>3, LeastIsIn
    <3>2. /\ location' = [location EXCEPT ![hot[Min(fit)]] = Reg(TypeSize[hot[Min(fit)]], r)]
          /\ hot' = SubSeq(hot, Min(fit) + 1, Len(hot))
      BY <2>3 DEF AssignRegister, r
    <3> QED BY <3>1, <3>2
  <2> QED BY <2>2, <2>3
<1>10. /\ Homes' /\ Apart' /\ hot' \in Seq(Var)
       /\ \A v \in Var : \/ location'[v] = location[v]
                        \/ location'[v] = Reg(TypeSize[v], r)
  <2>1. CASE location' = location /\ hot' = <<>>
    BY <2>1, <1>2, <1>4, <1>6, HomesStay DEF Allocating
  <2>2. ASSUME NEW n \in fit,
               location' = [location EXCEPT ![hot[n]] = Reg(TypeSize[hot[n]], r)],
               hot' = SubSeq(hot, n + 1, Len(hot))
        PROVE  <1>10
    <3>1. n \in 1 .. Len(hot) /\ hot[n] \in Var
      BY <1>3
    <3>2. hot' \in Seq(Var)
      BY <3>1, <2>2, <1>3
    <3>3. PICK v \in Var : v = hot[n]
      BY <3>1
    <3>4. \A u \in Var \ {v} : location[u] # Reg(TypeSize[u], r)
      BY <1>3, <1>7 DEF PoolFree, InReg
    <3>5. /\ Homes' /\ Apart'
          /\ location'[v] = Reg(TypeSize[v], r)
          /\ \A u \in Var \ {v} : location'[u] = location[u]
      <4>1. Homes /\ Apart /\ MoreHomes /\ stackOff' = stackOff
        BY <1>2, <1>4, <1>6 DEF Allocating
      <4>2. r \in HomeRegs(v)'
        BY <1>6, <1>7 DEF HomeRegs
      <4>3. location' = [location EXCEPT ![v] = Reg(TypeSize[v], r)]
        BY <2>2, <3>3
      <4> QED BY <4>1, <4>2, <4>3, <3>4, RegisterHome
    <3> QED BY <3>2, <3>5
  <2> HIDE DEF fit
  <2> QED BY <2>1, <2>2, <1>9
<1>11. PoolFree'
  <2>1. \A i, j \in DOMAIN avail' : avail'[i] = avail'[j] => i = j
    <3> SUFFICES ASSUME NEW i \in DOMAIN avail', NEW j \in DOMAIN avail', avail'[i] = avail'[j]
                 PROVE  i = j
      OBVIOUS
    <3>1. i + 1 = j + 1
      BY <1>3, <1>7 DEF PoolFree
    <3>2. i \in Int /\ j \in Int
      BY <1>7
    <3> QED BY <3>1, <3>2
  <2>2. ASSUME NEW i \in DOMAIN avail', NEW v \in Var
        PROVE  location'[v] # Reg(TypeSize[v], avail'[i])
    <3>1. avail'[i] = avail[i + 1] /\ i + 1 \in DOMAIN avail
      BY <1>7
    <3>2. avail'[i] # r
      BY <1>3, <1>7 DEF PoolFree
    <3>3. location[v] # Reg(TypeSize[v], avail'[i])
      BY <3>1, <1>3 DEF PoolFree, InReg
    <3> QED BY <3>2, <3>3, <1>10, LocationsDiffer
  <2> QED BY <2>1, <2>2, <1>6, <1>7 DEF PoolFree, InReg
<1>12. \A v \in Var : location'[v] # Reg(TypeSize[v], "RAX")
  BY <1>3, <1>8, <1>10, LocationsDiffer DEF InReg
<1>13. OnTheWay'
  BY <1>3, <1>4 DEF OnTheWay
<1>14. Allocating'
  BY <1>1, <1>2, <1>3, <1>4, <1>6, <1>7, <1>10, <1>11, <1>12, <1>13
     DEF Allocating, InReg, SameCounts
<1> QED BY <1>1, <1>2, <1>4, <1>14 DEF AllocInv, OpsKnown, Early, Late

LEMMA PinReturnInv ==
  ASSUME AllocInv, PinReturn
  PROVE  AllocInv'
<1>1. phase = "registers" /\ phase' = "parameters" /\ phase \in Late /\ UNCHANGED given
  BY DEF PinReturn, Late
<1>2. /\ OpsKnown /\ OpsKnown' /\ SameCounts /\ Allocating
      /\ noRedZone' \in BOOLEAN /\ stackOff \in Nat /\ anyPlaced \in BOOLEAN
      /\ Ins \in Seq(Var) /\ Ins' = Ins
  BY <1>1, AllocFrame
<1>3. /\ stackOff = 0 /\ toMove = <<>> /\ Homes /\ Apart
      /\ \A v \in Var : location[v] # Reg(TypeSize[v], "RAX")
  BY <1>1, <1>2 DEF Allocating, InReg
<1>4. UNCHANGED <<scratch, pinned, avail, hot, toMove, stackOff, anyPlaced>> /\ cur' = 0
  BY DEF PinReturn
<1>5. Past = {}
  BY <1>1 DEF Past
<1>6. MoreHomes /\ FreeRegs' = FreeRegs
  BY <1>2, <1>4, <1>5, HomesGrow
<1>7. Homes' /\ Apart'
  <2>1. CASE pinned = None
    BY <2>1, <1>3, <1>4, <1>6, HomesStay DEF PinReturn
  <2>2. CASE pinned # None
    <3>1. PICK v \in Var : v = pinned
      BY <2>2, <1>2 DEF Allocating
    <3>2. location' = [location EXCEPT ![v] = Reg(TypeSize[v], "RAX")]
      BY <2>2, <3>1 DEF PinReturn
    <3>3. "RAX" \in HomeRegs(v)'
      BY <3>1, <1>4 DEF HomeRegs
    <3> QED BY <3>2, <3>3, <1>3, <1>4, <1>6, RegisterHome
  <2> QED BY <2>1, <2>2
<1>8. OnTheWay'
  BY <1>3, <1>4 DEF OnTheWay
<1>9. cur' \in 0 .. Len(Ins')
  BY <1>2, <1>4
<1>10. Allocating'
  BY <1>1, <1>2, <1>4, <1>6, <1>7, <1>8, <1>9 DEF Allocating, SameCounts
<1> QED BY <1>1, <1>2, <1>4, <1>10 DEF AllocInv, OpsKnown, Early, Late

(* What the steps for one parameter have in common. *)
LEMMA ParamFrame ==
  ASSUME AllocInv, NextParam
  PROVE  \E k \in DOMAIN Ins, v \in Var :
           /\ cur \in Nat /\ k = cur + 1 /\ v = Ins[k] /\ v = Param
           /\ InRegister => k \in DOMAIN ArgRegs /\ k \in Past' /\ Passage(k) = [var |-> v, argLoc |-> ArgHome]
           /\ k \notin Past
           /\ \A n \in DOMAIN toMove : toMove[n].var \in Var \ {v}
           /\ phase = "parameters" /\ phase' = "parameters" /\ cur' = k
           /\ cur' \in 0 .. Len(Ins')
           /\ MoreHomes /\ FreeRegs' = FreeRegs /\ Past \subseteq Past'
           /\ Homes /\ Apart /\ OnTheWay
<1>1. phase = "parameters" /\ phase' = phase /\ phase \in Late /\ UNCHANGED given
  BY DEF NextParam, Late
<1>2. /\ OpsKnown /\ SameCounts /\ Allocating
      /\ Ins \in Seq(Var) /\ Ins' = Ins
  BY <1>1, AllocFrame
<1>3. cur \in 0 .. Len(Ins) /\ cur < Len(Ins) /\ cur' = cur + 1 /\ pinned' = pinned
  BY <1>1, <1>2 DEF Allocating, NextParam
<1>4. PICK k \in DOMAIN Ins : k = cur + 1
  BY <1>2, <1>3
<1>5. PICK v \in Var : v = Ins[k]
  BY <1>2
<1>6. Past \subseteq Past' /\ k \notin Past
  BY <1>1, <1>2, <1>3, <1>4 DEF Past
<1>7. MoreHomes /\ FreeRegs' = FreeRegs
  BY <1>2, <1>3, <1>6, HomesGrow
<1>8. ASSUME NEW n \in DOMAIN toMove PROVE toMove[n].var \in Var \ {v}
  <2>1. PICK j \in Past : toMove[n].var = Ins[j]
    BY <1>2, MovedParams DEF Allocating
  <2>2. j \in DOMAIN Ins /\ j # k
    BY <2>1, <1>6 DEF Past
  <2> QED BY <2>1, <2>2, <1>2, <1>5, RegAllocAssumption DEF OpsKnown, Ins
<1>9. InRegister => k \in DOMAIN ArgRegs /\ k \in Past' /\ Passage(k) = [var |-> v, argLoc |-> ArgHome]
  <2> SUFFICES ASSUME InRegister
               PROVE  k \in DOMAIN ArgRegs /\ k \in Past' /\ Passage(k) = [var |-> v, argLoc |-> ArgHome]
    OBVIOUS
  <2>1. k \in DOMAIN ArgRegs
    BY <1>2, <1>3, <1>4, X86Assumption DEF InRegister
  <2>2. k \in Past'
    BY <2>1, <1>1, <1>2, <1>3, <1>4 DEF Past
  <2> QED BY <2>1, <2>2, <1>4, <1>5 DEF Passage, ArgHome, Param
<1>10. cur' \in 0 .. Len(Ins')
  BY <1>2, <1>3
<1> QED BY <1>1, <1>2, <1>3, <1>4, <1>5, <1>6, <1>7, <1>8, <1>9, <1>10
        DEF Allocating, Param

(* The rest of the invariant does not depend on where homes are. *)
LEMMA ParamInv ==
  ASSUME AllocInv, NextParam, cur' \in 0 .. Len(Ins'), FreeRegs' = FreeRegs,
         Homes', Apart', OnTheWay', stackOff' \in Nat, anyPlaced' \in BOOLEAN
  PROVE  AllocInv'
<1>1. phase = "parameters" /\ phase' = "parameters" /\ phase \in Late /\ UNCHANGED given
  BY DEF NextParam, Late
<1>2. OpsKnown' /\ SameCounts /\ Allocating /\ noRedZone' \in BOOLEAN
  BY <1>1, AllocFrame
<1>3. UNCHANGED <<scratch, pinned, avail, hot>>
  BY DEF NextParam
<1>4. Allocating'
  BY <1>1, <1>2, <1>3 DEF Allocating, SameCounts
<1> QED BY <1>1, <1>2, <1>4 DEF AllocInv, OpsKnown, Early, Late

LEMMA PlaceParamInv ==
  ASSUME AllocInv, PlaceParam
  PROVE  AllocInv'
<1>1. NextParam /\ InRegister /\ OnStack(Param) /\ LaterMove(ArgHome)
  BY DEF PlaceParam
<1>2. PICK k \in DOMAIN Ins, v \in Var :
        /\ v = Ins[k] /\ v = Param
        /\ k \in Past' /\ Passage(k) = [var |-> v, argLoc |-> ArgHome]
        /\ \A n \in DOMAIN toMove : toMove[n].var \in Var \ {v}
        /\ cur' \in 0 .. Len(Ins')
        /\ MoreHomes /\ FreeRegs' = FreeRegs /\ Past \subseteq Past'
        /\ Homes /\ Apart /\ OnTheWay
  BY <1>1, ParamFrame
<1>3. OnStack(v) /\ toMove' = Append(toMove, Passage(k))
  BY <1>1, <1>2 DEF LaterMove
<1>4. stackOff \in Nat /\ OpsKnown /\ fn' = fn
  BY <1>1 DEF AllocInv, OpsKnown, NextParam, given
<1>5. /\ Homes' /\ Apart' /\ stackOff' \in Nat
      /\ \A x : location'[v] # Reg(TypeSize[v], x)
      /\ \A u \in Var \ {v} : location'[u] = location[u]
  BY <1>2, <1>3, <1>4, StackHome
<1>7. OnTheWay'
  BY <1>2, <1>3, <1>4, <1>5, PassageAdded
<1>8. anyPlaced' \in BOOLEAN
  BY <1>3 DEF OnStack
<1> QED BY <1>1, <1>2, <1>5, <1>7, <1>8, ParamInv

LEMMA KeepParamInv ==
  ASSUME AllocInv, KeepParam
  PROVE  AllocInv'
<1>1. /\ NextParam /\ InRegister /\ cur >= CalledIntArgs
      /\ location' = [location EXCEPT ![Param] = ArgHome]
      /\ UNCHANGED <<toMove, stackOff, anyPlaced>>
  BY DEF KeepParam
<1>2. PICK k \in DOMAIN Ins, v \in Var :
        /\ cur \in Nat /\ k = cur + 1 /\ v = Ins[k] /\ v = Param
        /\ k \in DOMAIN ArgRegs /\ k \in Past' /\ k \notin Past
        /\ \A n \in DOMAIN toMove : toMove[n].var \in Var \ {v}
        /\ cur' \in 0 .. Len(Ins')
        /\ MoreHomes /\ FreeRegs' = FreeRegs /\ Past \subseteq Past'
        /\ Homes /\ Apart /\ OnTheWay
  BY <1>1, ParamFrame
<1>3. stackOff \in Nat /\ anyPlaced \in BOOLEAN /\ OpsKnown /\ UNCHANGED <<fn, ops>>
  BY <1>1 DEF AllocInv, OpsKnown, NextParam, given
<1> DEFINE r == ArgRegs[k]
<1>4. location' = [location EXCEPT ![v] = Reg(TypeSize[v], r)]
  BY <1>1, <1>2 DEF ArgHome
<1>5. r \in HomeRegs(v)'
  <2>1. SameCounts /\ Ins' = Ins
    BY <1>3, CountsKept DEF Ins
  <2>2. k > CalledIntArgs
    BY <1>1, <1>2, <1>3, ArgCounts, RegAllocAssumption DEF OpsKnown, Ins
  <2>3. r \in KeptRegs(v)'
    BY <2>1, <2>2, <1>2 DEF KeptRegs, SameCounts
  <2> QED BY <2>3 DEF HomeRegs
<1>6. \A u \in Var \ {v} : location[u] # Reg(TypeSize[u], r)
  <2> SUFFICES ASSUME NEW u \in Var \ {v}, location[u] = Reg(TypeSize[u], r)
               PROVE  FALSE
    OBVIOUS
  <2>1. r \in HomeRegs(u)
    BY <1>2, LocationsDiffer DEF Homes, InReg, InSlot
  <2>2. r \notin FreeRegs
    <3>1. k <= ReservedArgs
      BY <1>2, <1>3, ArgCounts, RegAllocAssumption DEF OpsKnown, Ins
    <3> QED BY <3>1, <1>2, <1>3, FreeRegsApart
  <2>3. r # "RAX"
    BY <1>2, ArgRegsKnown
  <2>4. r \in KeptRegs(u)
    BY <2>1, <2>2, <2>3 DEF HomeRegs
  <2>5. PICK j \in Past : r = ArgRegs[j]
    BY <2>4 DEF KeptRegs
  <2>6. j = k
    BY <2>5, <1>2, X86Assumption DEF Past
  <2> QED BY <2>6, <1>2
<1> HIDE DEF r
<1>7. /\ Homes' /\ Apart'
      /\ \A u \in Var \ {v} : location'[u] = location[u]
  BY <1>1, <1>2, <1>4, <1>5, <1>6, RegisterHome
<1>9. OnTheWay'
  BY <1>1, <1>2, <1>3, <1>7, PassagesStay
<1> QED BY <1>1, <1>2, <1>3, <1>7, <1>9, ParamInv

LEMMA MoveParamInv ==
  ASSUME AllocInv, MoveParam
  PROVE  AllocInv'
<1>1. /\ NextParam /\ InRegister /\ cur < CalledIntArgs /\ LaterMove(ArgHome)
      /\ UNCHANGED <<location, stackOff, anyPlaced>>
  BY DEF MoveParam
<1>2. PICK k \in DOMAIN Ins, v \in Var :
        /\ k = cur + 1 /\ v = Ins[k] /\ v = Param
        /\ k \in Past' /\ k \notin Past /\ Passage(k) = [var |-> v, argLoc |-> ArgHome]
        /\ cur' \in 0 .. Len(Ins')
        /\ MoreHomes /\ FreeRegs' = FreeRegs /\ Past \subseteq Past'
        /\ Homes /\ Apart /\ OnTheWay
  BY <1>1, ParamFrame
<1>3. stackOff \in Nat /\ anyPlaced \in BOOLEAN /\ OpsKnown /\ fn' = fn
  BY <1>1 DEF AllocInv, OpsKnown, NextParam, given
<1>4. toMove' = Append(toMove, Passage(k))
  BY <1>1, <1>2 DEF LaterMove
<1>5. Homes' /\ Apart'
  BY <1>1, <1>2, HomesStay
<1>6. ASSUME NEW r \in Regs, location'[v] = Reg(TypeSize[v], r)
      PROVE  r \in FreeRegs \cup {"RAX"}
  <2>1. r \in HomeRegs(v)
    BY <1>1, <1>2, <1>6, LocationsDiffer DEF Homes, InReg, InSlot
  <2>2. r \notin KeptRegs(v)
    <3> SUFFICES ASSUME NEW j \in Past, Ins[j] = v PROVE FALSE
      BY DEF KeptRegs
    <3>1. j \in DOMAIN Ins
      BY DEF Past
    <3>2. j = k
      BY <3>1, <1>2, <1>3, RegAllocAssumption DEF OpsKnown, Ins
    <3> QED BY <3>2, <1>2
  <2> QED BY <2>1, <2>2 DEF HomeRegs
<1>7. OnTheWay'
  BY <1>1, <1>2, <1>3, <1>4, <1>6, PassageAdded
<1> QED BY <1>1, <1>2, <1>3, <1>5, <1>7, ParamInv

LEMMA SpillParamInv ==
  ASSUME AllocInv, SpillParam
  PROVE  AllocInv'
<1>1. NextParam /\ OnStack(Param) /\ toMove' = toMove
  BY DEF SpillParam
<1>2. PICK k \in DOMAIN Ins, v \in Var :
        /\ v = Ins[k] /\ v = Param
        /\ cur' \in 0 .. Len(Ins')
        /\ MoreHomes /\ FreeRegs' = FreeRegs /\ Past \subseteq Past'
        /\ Homes /\ Apart /\ OnTheWay
        /\ \A n \in DOMAIN toMove : toMove[n].var \in Var \ {v}
  BY <1>1, ParamFrame
<1>3. stackOff \in Nat /\ OpsKnown /\ fn' = fn /\ OnStack(v)
  BY <1>1, <1>2 DEF AllocInv, OpsKnown, NextParam, given
<1>4. /\ Homes' /\ Apart' /\ stackOff' \in Nat
      /\ \A u \in Var \ {v} : location'[u] = location[u]
  BY <1>2, <1>3, StackHome
<1>6. OnTheWay'
  BY <1>1, <1>2, <1>3, <1>4, PassagesStay
<1>7. anyPlaced' \in BOOLEAN
  BY <1>3 DEF OnStack
<1> QED BY <1>1, <1>2, <1>4, <1>6, <1>7, ParamInv

(* From the parameters on, phases go by and homes stay. *)
LEMMA PhaseInv ==
  ASSUME AllocInv, phase \in Late, phase # "registers",
         phase = "parameters" => phase' = phase \/ cur = Len(Ins),
         phase' \in Late \ {"registers", "parameters"},
         OpsKnown', SameCounts, UNCHANGED <<noRedZone, allocation>>
  PROVE  AllocInv'
<1>1. Allocating /\ OpsKnown /\ noRedZone \in BOOLEAN /\ stackOff \in Nat /\ anyPlaced \in BOOLEAN
  BY DEF AllocInv, OpsKnown
<1>2. UNCHANGED <<scratch, pinned, avail, hot, location, toMove, stackOff, anyPlaced>>
  BY DEF allocation
<1>3. Ins \in Seq(Var) /\ Ins' = Ins
  BY <1>1, RegAllocAssumption DEF OpsKnown, Ins, SameCounts
<1>4. Past \subseteq Past'
  BY <1>1, <1>3 DEF Past, Allocating
<1>5. MoreHomes /\ FreeRegs' = FreeRegs
  BY <1>2, <1>4, HomesGrow
<1>6. Homes' /\ Apart'
  BY <1>1, <1>2, <1>5, HomesStay DEF Allocating
<1>7. OnTheWay'
  BY <1>1, <1>2, <1>4, <1>5, PassagesStay DEF Allocating, SameCounts
<1>8. Allocating'
  BY <1>1, <1>2, <1>5, <1>6, <1>7 DEF Allocating, SameCounts
<1> QED BY <1>1, <1>2, <1>8 DEF AllocInv, OpsKnown, Early, Late

LEMMA StutterInv ==
  ASSUME AllocInv, phase \in Late, OpsKnown', SameCounts,
         UNCHANGED <<phase, cur, noRedZone, allocation>>
  PROVE  AllocInv'
<1>1. Allocating /\ OpsKnown /\ noRedZone \in BOOLEAN /\ stackOff \in Nat /\ anyPlaced \in BOOLEAN
  BY DEF AllocInv, OpsKnown
<1>2. UNCHANGED <<scratch, pinned, avail, hot, location, toMove, stackOff, anyPlaced>>
  BY DEF allocation
<1>3. Ins' = Ins /\ Past' = Past
  BY DEF SameCounts, Ins, Past
<1>4. MoreHomes /\ FreeRegs' = FreeRegs
  BY <1>2, <1>3, HomesGrow
<1>5. Homes' /\ Apart'
  BY <1>1, <1>2, <1>4, HomesStay DEF Allocating
<1>6. OnTheWay'
  BY <1>1, <1>2, <1>3, <1>4, PassagesStay DEF Allocating, SameCounts
<1>7. phase = "registers" => PoolFree' /\ \A v \in Var : location'[v] # Reg(TypeSize[v], "RAX")
  BY <1>1, <1>2, <1>4 DEF Allocating, PoolFree, InReg
<1>8. Allocating'
  BY <1>1, <1>2, <1>3, <1>4, <1>5, <1>6, <1>7 DEF Allocating, SameCounts, InReg
<1> QED BY <1>1, <1>2, <1>8 DEF AllocInv, OpsKnown, Early, Late

LEMMA ParamsEndInv ==
  ASSUME AllocInv, ParamsEnd
  PROVE  AllocInv'
<1>1. /\ phase = "parameters" /\ phase' = "stack" /\ phase \in Late
      /\ cur = Len(Ins) /\ UNCHANGED <<given, allocation>>
  BY DEF ParamsEnd, Late
<1>2. OpsKnown' /\ SameCounts /\ UNCHANGED noRedZone
  BY <1>1, AllocFrame DEF given
<1> QED BY <1>1, <1>2, PhaseInv DEF Late

LEMMA SpillingEndsInv ==
  ASSUME AllocInv, SpillingEnds
  PROVE  AllocInv'
<1>1. /\ phase = "stack" /\ phase' = "prologue" /\ phase \in Late
      /\ UNCHANGED <<given, allocation>>
  BY DEF SpillingEnds, Late
<1>2. OpsKnown' /\ SameCounts /\ UNCHANGED noRedZone
  BY <1>1, AllocFrame DEF given
<1> QED BY <1>1, <1>2, PhaseInv DEF Late

LEMMA SpillInv ==
  ASSUME AllocInv, Spill
  PROVE  AllocInv'
<1>1. /\ phase = "stack" /\ phase' = phase /\ phase \in Late /\ UNCHANGED given
      /\ UNCHANGED <<scratch, pinned, avail, hot, toMove>>
      /\ Homeless # {} /\ OnStack(Min(Homeless))
  BY DEF Spill, Late
<1>2. /\ OpsKnown /\ OpsKnown' /\ SameCounts /\ Allocating
      /\ noRedZone' \in BOOLEAN /\ stackOff \in Nat /\ Ins' = Ins
  BY <1>1, AllocFrame
<1>3. Past' = Past
  BY <1>1, <1>2 DEF Past
<1>4. MoreHomes /\ FreeRegs' = FreeRegs
  BY <1>1, <1>2, <1>3, HomesGrow
<1>5. Homeless \in SUBSET Nat
  BY IntExecAssumption DEF Homeless
<1>6. PICK v \in Var : v = Min(Homeless)
  BY <1>1, <1>5, LeastIsIn DEF Homeless
<1>7. /\ Homes' /\ Apart' /\ stackOff' \in Nat
      /\ \A x : location'[v] # Reg(TypeSize[v], x)
      /\ \A u \in Var \ {v} : location'[u] = location[u]
  BY <1>1, <1>2, <1>4, <1>6, StackHome DEF Allocating
<1>8. OnTheWay'
  <2>1. \A n \in DOMAIN toMove : toMove[n].var \in Var
    <3>1. \A n \in DOMAIN toMove : \E j \in Past : toMove[n].var = Ins[j]
      BY <1>2, MovedParams DEF Allocating
    <3> QED BY <3>1, <1>2, RegAllocAssumption DEF Past, Ins, OpsKnown
  <2>2. \A n \in DOMAIN toMove :
          \/ location'[toMove[n].var] = location[toMove[n].var]
          \/ \A r \in Regs : location'[toMove[n].var] # Reg(TypeSize[toMove[n].var], r)
    BY <2>1, <1>7
  <2> QED BY <2>2, <1>1, <1>2, <1>3, <1>4, PassagesStay DEF Allocating, SameCounts
<1>9. anyPlaced' \in BOOLEAN
  BY <1>1 DEF OnStack
<1>10. Allocating'
  BY <1>1, <1>2, <1>4, <1>7, <1>8 DEF Allocating, SameCounts
<1> QED BY <1>1, <1>2, <1>7, <1>9, <1>10 DEF AllocInv, OpsKnown, Early, Late

(* Looking for homes keeps the invariant. *)
LEMMA AllocStepInv ==
  ASSUME AllocInv, AllocStep
  PROVE  AllocInv'
BY SetupInv, AssignRegisterInv, PinReturnInv, PlaceParamInv, KeepParamInv, MoveParamInv,
   SpillParamInv, ParamsEndInv, SpillInv, SpillingEndsInv DEF AllocStep

-----------------------------------------------------------------------------
(* What the invariant says about homes once all of them are found. *)

LEMMA AllocatedHomes ==
  ASSUME AllocInv, Allocated
  PROVE  OpsKnown /\ Allocating /\ phase # "registers" /\ stackOff \in Nat
BY DEF AllocInv, Allocated, Late, OpsKnown

(* A home in a register is one of its owner only, and nothing else.        *)
LEMMA RegisterHomes ==
  ASSUME OpsKnown, Homes, NEW v \in Var, location[v].type = "REG"
  PROVE  /\ InReg(v, location[v].reg)
         /\ location[v].reg \in HomeRegs(v)
         /\ location[v].reg \in Regs
<1>1. PICK r \in HomeRegs(v) : InReg(v, r)
  BY LocationFields DEF Homes, InSlot
<1>2. location[v].reg = r
  BY <1>1, LocationFields DEF InReg
<1>3. r \in Regs
  <2>1. "RAX" \in Regs
    BY DEF Regs
  <2>2. KeptRegs(v) \subseteq Regs
    BY ArgRegsKnown DEF KeptRegs, Past
  <2> QED BY <2>1, <2>2, FreeRegsApart DEF HomeRegs
<1> QED BY <1>1, <1>2, <1>3

(* Bytes of the stack that a home takes are in use. *)
LEMMA SlotHomes ==
  ASSUME Homes, stackOff \in Nat, NEW v \in Var
  PROVE  \/ StackBytes(v) = {}
         \/ \E off \in TypeSize[v] .. stackOff :
              InSlot(v, off) /\ StackBytes(v) = off - TypeSize[v] + 1 .. off
<1>1. CASE location[v].type # "MEM"
  BY <1>1 DEF StackBytes
<1>2. CASE location[v].type = "MEM"
  <2>1. PICK off \in TypeSize[v] .. stackOff : InSlot(v, off)
    BY <1>2, LocationFields DEF Homes, InReg
  <2>2. location[v].address.off.bits = off
    BY <2>1, LocationFields DEF InSlot
  <2> QED BY <1>2, <2>1, <2>2 DEF StackBytes
<1> QED BY <1>1, <1>2

LEMMA HomesDistinctFromInv == AllocInv => HomesDistinct
<1> SUFFICES ASSUME AllocInv, Allocated, NEW v \in Var
             PROVE  /\ location[v].type = "REG" =>
                         /\ location[v].reg \notin {scratch[1], scratch[2], "RBP", "RSP"}
                         /\ \A u \in Var \ {v} :
                              location[u].type = "REG" => location[u].reg # location[v].reg
                    /\ \A u \in Var \ {v} : StackBytes(v) \cap StackBytes(u) = {}
  BY DEF HomesDistinct
<1>1. OpsKnown /\ Allocating /\ Homes /\ Apart /\ stackOff \in Nat
  BY AllocatedHomes DEF Allocating
<1>2. scratch[1] = (IF pinned # None THEN "R11" ELSE "RAX") /\ scratch[2] = "R10"
  BY <1>1 DEF Allocating
<1>3. ASSUME location[v].type = "REG"
      PROVE  location[v].reg \notin {scratch[1], scratch[2], "RBP", "RSP"}
  <2>1. location[v].reg \in HomeRegs(v)
    BY <1>1, <1>3, RegisterHomes
  <2>2. KeptRegs(v) \cap {"RAX", "R10", "R11", "RBP", "RSP"} = {}
    BY ArgRegsKnown DEF KeptRegs, Past
  <2>3. v # None
    BY IntExecAssumption
  <2>4. CASE location[v].reg \in FreeRegs
    BY <2>4, <1>1, <1>2, FreeRegsApart
  <2>5. CASE location[v].reg = "RAX" /\ v = pinned
    BY <2>3, <2>5, <1>2
  <2>6. CASE location[v].reg \in KeptRegs(v)
    BY <2>2, <2>6, <1>2
  <2> QED BY <2>1, <2>4, <2>5, <2>6 DEF HomeRegs
<1>4. ASSUME location[v].type = "REG", NEW u \in Var \ {v}, location[u].type = "REG"
      PROVE  location[u].reg # location[v].reg
  <2>1. /\ InReg(v, location[v].reg) /\ location[v].reg \in Regs
        /\ InReg(u, location[u].reg)
    BY <1>1, <1>4, RegisterHomes
  <2> QED BY <2>1, <1>1 DEF Apart
<1>5. ASSUME NEW u \in Var \ {v}
      PROVE  StackBytes(v) \cap StackBytes(u) = {}
  <2>1. TypeSize[v] \in Nat /\ TypeSize[u] \in Nat
    BY IntExecAssumption
  <2>2. CASE StackBytes(v) = {} \/ StackBytes(u) = {}
    BY <2>2
  <2>3. ASSUME NEW i \in TypeSize[v] .. stackOff, InSlot(v, i),
               StackBytes(v) = i - TypeSize[v] + 1 .. i,
               NEW j \in TypeSize[u] .. stackOff, InSlot(u, j),
               StackBytes(u) = j - TypeSize[u] + 1 .. j
        PROVE  StackBytes(v) \cap StackBytes(u) = {}
    <3>1. i \in 0 .. stackOff /\ j \in 0 .. stackOff
      BY <2>1, <1>1
    <3>2. i <= j - TypeSize[u] \/ j <= i - TypeSize[v]
      BY <3>1, <2>3, <1>1 DEF Apart
    <3> QED BY <3>1, <3>2, <2>1, <2>3
  <2> QED BY <2>2, <2>3, <1>1, SlotHomes
<1> QED BY <1>3, <1>4, <1>5

LEMMA MovesDoNotCollideFromInv == AllocInv => MovesDoNotCollide
<1> SUFFICES ASSUME AllocInv, Allocated PROVE MovesDoNotCollide
  BY DEF MovesDoNotCollide
<1>1. OpsKnown /\ Allocating /\ Homes /\ OnTheWay /\ phase # "registers"
  BY AllocatedHomes DEF Allocating
<1>2. ASSUME NEW m \in DOMAIN toMove, NEW n \in DOMAIN toMove, m < n,
             location[toMove[m].var].type = "REG",
             location[toMove[m].var].reg = toMove[n].argLoc.reg
      PROVE  FALSE
  <2>1. PICK j \in Past : toMove[m].var = Ins[j]
    BY <1>1, MovedParams
  <2>2. PICK k \in Past : toMove[n].argLoc = Reg(TypeSize[Ins[k]], ArgRegs[k])
    BY <1>1, MovedParams
  <2>3. Ins[j] \in Var
    BY <1>1, RegAllocAssumption DEF Past, Ins, OpsKnown
  <2>4. /\ InReg(Ins[j], location[Ins[j]].reg)
        /\ location[Ins[j]].reg \in Regs
    BY <2>1, <2>3, <1>1, <1>2, RegisterHomes
  <2>5. location[Ins[j]].reg \in FreeRegs \cup {"RAX"}
    BY <2>1, <2>4, <1>1 DEF OnTheWay
  <2>6. location[Ins[j]].reg = ArgRegs[k]
    BY <2>1, <2>2, <1>2, LocationFields
  <2>7. k \in DOMAIN ArgRegs /\ k <= ReservedArgs
    BY <1>1, ArgCounts, RegAllocAssumption DEF Past, Ins, OpsKnown
  <2> QED BY <2>5, <2>6, <2>7, <1>1, FreeRegsApart, ArgRegsKnown
<1>3. ASSUME NEW k \in Calls, NEW m \in DOMAIN ops[k].args, NEW n \in DOMAIN ops[k].args,
             m < n, ops[k].args[n].kind = "VAR",
             location[ops[k].args[n].n].type = "REG",
             location[ops[k].args[n].n].reg = ArgRegs[m]
      PROVE  FALSE
  <2> DEFINE v == ops[k].args[n].n
  <2>1. ops[k].args \in Seq(Operand) /\ Len(ops[k].args) <= CalledIntArgs
    <3>1. ops[k] \in Op
      BY <1>1 DEF Calls, OpsKnown
    <3>2. ops[k].args \in Seq(Operand)
      BY <3>1 DEF Op
    <3> QED BY <3>2, <1>1, ArgCounts
  <2>2. v \in Var
    BY <2>1, <1>3 DEF Operand
  <2>3. CalledIntArgs \in 0 .. Len(ArgRegs) /\ Len(ArgRegs) \in Nat
    BY <1>1, ArgCounts, X86Assumption
  <2>4. m \in DOMAIN ArgRegs /\ m <= CalledIntArgs
    BY <2>1, <2>3, X86Assumption
  <2>5. pinned = None
    BY <1>1, <1>3 DEF Allocating, IsLeaf
  <2> HIDE DEF v
  <2>6. location[v].reg \in HomeRegs(v) /\ location[v].reg = ArgRegs[m]
    BY <2>2, <1>1, <1>3, RegisterHomes DEF v
  <2>7. v # pinned
    BY <2>2, <2>5, IntExecAssumption
  <2>8. ArgRegs[m] \notin FreeRegs
    <3>1. m <= ReservedArgs
      BY <2>3, <2>4, <1>1, ArgCounts
    <3> QED BY <3>1, <2>4, <1>1, FreeRegsApart
  <2>9. ArgRegs[m] \notin KeptRegs(v)
    <3> SUFFICES ASSUME NEW i \in Past, i > CalledIntArgs, ArgRegs[m] = ArgRegs[i]
                 PROVE  FALSE
      BY DEF KeptRegs
    <3>1. i = m
      BY <2>4, X86Assumption DEF Past
    <3> QED BY <3>1, <2>3, <2>4
  <2> QED BY <2>6, <2>7, <2>8, <2>9 DEF HomeRegs
<1> QED BY <1>2, <1>3 DEF MovesDoNotCollide

(* A leaf of a target without red zone is excepted: see Reserved. *)
LEMMA SlotsOwnedFromInv == AllocInv => ((noRedZone /\ IsLeaf) \/ SlotsOwned)
<1> SUFFICES ASSUME AllocInv, Allocated, ~ (noRedZone /\ IsLeaf),
                    NEW v \in Var, NEW b \in StackBytes(v)
             PROVE  b <= Reserved + (IF IsLeaf /\ ~noRedZone THEN RedZone ELSE 0)
  BY DEF SlotsOwned
<1>1. Homes /\ stackOff \in Nat
  BY AllocatedHomes DEF Allocating
<1>2. TypeSize[v] \in {1, 4, 8} /\ RedZone \in Nat
  BY IntExecAssumption, RegAllocAssumption
<1>3. b \in Int /\ b <= stackOff /\ stackOff > 0
  <2>1. PICK off \in TypeSize[v] .. stackOff : StackBytes(v) = off - TypeSize[v] + 1 .. off
    BY <1>1, SlotHomes
  <2> QED BY <2>1, <1>1, <1>2
<1>4. noRedZone \in BOOLEAN
  BY DEF AllocInv
<1>5. CASE NeedProlog
  BY <1>1, <1>2, <1>3, <1>5 DEF Reserved
<1>6. CASE ~ NeedProlog
  BY <1>1, <1>2, <1>3, <1>4, <1>6 DEF Reserved, NeedProlog
<1> QED BY <1>5, <1>6

-----------------------------------------------------------------------------
(* The back end. *)

(* Sequences. *)
LEMMA TailStays ==
  ASSUME NEW S, NEW s \in Seq(S), s # <<>>
  PROVE  Tail(s) \in Seq(S)
OBVIOUS

(* Changing an op. *)
LEMMA MadeOp ==
  \A id \in OpId, out \in Var \cup {None}, args \in Seq(Operand), label \in {None} \cup Nat,
     cc \in ConditionCodes \cup {""} :
    /\ MakeOp(id, out, args, label, cc) \in Op
    /\ MakeOp(id, out, args, label, cc).id = id
BY ZenonT(60) DEF MakeOp, Op

LEMMA OnFlagsWellFormed ==
  ASSUME NEW op, NEW outs, WellFormed(op, outs), op.id \in Conditional,
         NEW cc \in ConditionCodes \cup {""}
  PROVE  WellFormed(OnFlags(op, cc), outs)
<1>1. op \in Op /\ op.args # <<>>
  BY DEF WellFormed, Conditional
<1>2. Tail(op.args) \in Seq(Operand) /\ op.out \in Var \cup {None} /\ op.label \in {None} \cup Nat
  <2>1. op.args \in Seq(Operand) /\ op.out \in Var \cup {None} /\ op.label \in {None} \cup Nat
    BY <1>1 DEF Op
  <2>2. Tail(op.args) \in Seq(Operand)
    BY <2>1, <1>1, TailStays
  <2> QED BY <2>1, <2>2
<1> DEFINE id == IF op.id = "CMOV" THEN "X86_CMOV" ELSE "X86_JMPCC"
<1>3. id \in OpId /\ id \notin {"CMOV", "COND", "RETURN", "CALL", "TAILCALL"}
  BY DEF OpId
<1>4. OnFlags(op, cc) = MakeOp(id, op.out, Tail(op.args), op.label, cc)
  BY DEF OnFlags
<1> HIDE DEF id
<1>5. OnFlags(op, cc) \in Op /\ OnFlags(op, cc).id = id
  <2>1. /\ MakeOp(id, op.out, Tail(op.args), op.label, cc) \in Op
        /\ MakeOp(id, op.out, Tail(op.args), op.label, cc).id = id
    BY <1>2, <1>3 DEF MakeOp, Op
  <2> QED BY <2>1, <1>4, Zenon
<1> QED BY <1>3, <1>5 DEF WellFormed

(* A sequence of well-formed ops stays one when one is put in or taken     *)
(* out.                                                                    *)
LEMMA InsertAtStays ==
  ASSUME NEW S, NEW s \in Seq(S), NEW i \in 1 .. Len(s) + 1, NEW e \in S
  PROVE  InsertAt(s, i, e) \in Seq(S)
<1>1. SubSeq(s, 1, i - 1) \in Seq(S) /\ SubSeq(s, i, Len(s)) \in Seq(S) /\ <<e>> \in Seq(S)
  OBVIOUS
<1> QED BY <1>1 DEF InsertAt

LEMMA RemoveAtStays ==
  ASSUME NEW S, NEW s \in Seq(S), NEW i \in 1 .. Len(s)
  PROVE  RemoveAt(s, i) \in Seq(S)
<1>1. SubSeq(s, 1, i - 1) \in Seq(S) /\ SubSeq(s, i + 1, Len(s)) \in Seq(S)
  OBVIOUS
<1> QED BY <1>1 DEF RemoveAt

GoodOps(outs) == {op \in Op : WellFormed(op, outs)}

LEMMA GoodSequence ==
  /\ OpsKnown <=> fn \in Functions /\ ops \in Seq(GoodOps(fn.outs))
  /\ OpsKnown' <=> fn' \in Functions /\ ops' \in Seq(GoodOps(fn'.outs))
<1>1. \A s, outs : s \in Seq(GoodOps(outs)) <=>
                     s \in Seq(Op) /\ \A k \in DOMAIN s : WellFormed(s[k], outs)
  <2> SUFFICES ASSUME NEW s, NEW outs
               PROVE  s \in Seq(GoodOps(outs)) <=>
                        s \in Seq(Op) /\ \A k \in DOMAIN s : WellFormed(s[k], outs)
    OBVIOUS
  <2>1. GoodOps(outs) \subseteq Op /\ \A op : op \in GoodOps(outs) <=> op \in Op /\ WellFormed(op, outs)
    BY DEF GoodOps
  <2>2. ASSUME s \in Seq(GoodOps(outs))
        PROVE  s \in Seq(Op) /\ \A k \in DOMAIN s : WellFormed(s[k], outs)
    BY <2>1, <2>2
  <2>3. ASSUME s \in Seq(Op), \A k \in DOMAIN s : WellFormed(s[k], outs)
        PROVE  s \in Seq(GoodOps(outs))
    <3>1. s \in [1 .. Len(s) -> GoodOps(outs)] /\ Len(s) \in Nat
      BY <2>1, <2>3
    <3> QED BY <3>1
  <2> QED BY <2>2, <2>3
<1> QED BY <1>1 DEF OpsKnown

LEMMA ConditionCodeKnown ==
  ASSUME NEW id \in Compares
  PROVE  ConditionCode(id) \in ConditionCodes
BY DEF Compares, ConditionCode, ConditionCodes

LEMMA FuseKeepsOps ==
  ASSUME OpsKnown, Fuse
  PROVE  OpsKnown'
<1> DEFINE S == NextOf(Compares)
           k == Min(S)
           cc == ConditionCode(ops[k].id)
           on == [j \in DOMAIN ops |->
                    CASE j = k -> [ops[k] EXCEPT !.id = "X86_CMP", !.out = None]
                      [] j # k -> IF j \in Fused(k) THEN OnFlags(ops[j], cc) ELSE ops[j]]
           set == MakeOp("X86_SETCC", ops[k].out, <<>>, None, cc)
           G == GoodOps(fn.outs)
<1>1. ops \in Seq(Op) /\ \A j \in DOMAIN ops : ops[j] \in Op /\ WellFormed(ops[j], fn.outs)
  <2>1. \A op : WellFormed(op, fn.outs) => op \in Op
    BY DEF WellFormed
  <2> QED BY <2>1 DEF OpsKnown
<1>2. S \in SUBSET Nat /\ S # {}
  <2>1. DOMAIN ops = 1 .. Len(ops)
    BY <1>1
  <2>2. S \in SUBSET Nat
    BY <2>1 DEF NextOf
  <2>3. S # {}
    BY DEF Fuse
  <2> QED BY <2>2, <2>3
<1>3. k \in S
  <2> HIDE DEF S
  <2> QED BY <1>2, LeastIsIn
<1>4. k \in DOMAIN ops /\ ops[k].id \in Compares
  BY <1>3 DEF NextOf
<1>5. cc \in ConditionCodes
  BY <1>4, ConditionCodeKnown
<1> HIDE DEF k, cc
<1>6. ASSUME NEW j \in DOMAIN ops PROVE on[j] \in G
  <2>1. CASE j = k
    <3>1. ops[k] \in Op
      BY <1>1, <1>4
    <3>2. on[j] = [ops[k] EXCEPT !.id = "X86_CMP", !.out = None]
      BY <2>1
    <3>3. on[j] \in Op /\ on[j].id = "X86_CMP"
      BY <3>1, <3>2, ZenonT(60) DEF Op, OpId
    <3> QED BY <3>3 DEF WellFormed, GoodOps
  <2>2. CASE j # k /\ j \in Fused(k)
    <3>1. WellFormed(OnFlags(ops[j], cc), fn.outs)
      BY <2>2, <1>1, <1>5, OnFlagsWellFormed DEF Fused
    <3> QED BY <2>2, <3>1 DEF WellFormed, GoodOps
  <2>3. CASE j # k /\ j \notin Fused(k)
    BY <2>3, <1>1 DEF GoodOps
  <2> QED BY <2>1, <2>2, <2>3
<1>7. on \in Seq(G) /\ Len(on) = Len(ops) /\ DOMAIN on = DOMAIN ops
  <2>1. DOMAIN on = 1 .. Len(ops) /\ Len(ops) \in Nat
    BY <1>1
  <2>2. on \in [1 .. Len(ops) -> G]
    <3> HIDE DEF G
    <3> QED BY <1>6, <2>1
  <2> HIDE DEF on, G
  <2> QED BY <2>1, <2>2, <1>1
<1>8. set \in G
  <2>1. ops[k].out \in Var \cup {None}
    BY <1>1, <1>4 DEF Op
  <2>2. "X86_SETCC" \in OpId /\ <<>> \in Seq(Operand)
    BY DEF OpId
  <2>3. set \in Op /\ set.id = "X86_SETCC"
    <3>1. cc \in ConditionCodes \cup {""} /\ None \in {None} \cup Nat
      BY <1>5
    <3> QED BY <3>1, <2>1, <2>2, MadeOp, Zenon
  <2> QED BY <2>3 DEF GoodOps, WellFormed
<1>9. ops' = InsertAt(on, k + 1, set) /\ fn' = fn
  BY DEF Fuse, k, cc
<1>10. ops' \in Seq(G)
  <2>1. k + 1 \in 1 .. Len(on) + 1
    BY <1>1, <1>4, <1>7
  <2> HIDE DEF on, set, G
  <2> QED BY <2>1, <1>7, <1>8, <1>9, InsertAtStays
<1> QED BY <1>9, <1>10, GoodSequence DEF OpsKnown

LEMMA TestVariableKeepsOps ==
  ASSUME OpsKnown, TestVariable
  PROVE  OpsKnown'
<1> DEFINE S == NextOf(Conditional)
           k == Min(S)
           cc == TextOf(ops[k].args[1].n)
           on == [ops EXCEPT ![k] = OnFlags(@, TextOf(@.args[1].n))]
           cmp == MakeOp("X86_CMP", None, <<ops[k].args[1], I(0)>>, None, "")
           G == GoodOps(fn.outs)
<1>1. ops \in Seq(Op) /\ \A j \in DOMAIN ops : ops[j] \in Op /\ WellFormed(ops[j], fn.outs)
  <2>1. \A op : WellFormed(op, fn.outs) => op \in Op
    BY DEF WellFormed
  <2> QED BY <2>1 DEF OpsKnown
<1>2. S \in SUBSET Nat /\ S # {}
  <2>1. DOMAIN ops = 1 .. Len(ops)
    BY <1>1
  <2>2. S \in SUBSET Nat
    BY <2>1 DEF NextOf
  <2>3. S # {}
    BY DEF TestVariable
  <2> QED BY <2>2, <2>3
<1>3. k \in S
  <2> HIDE DEF S
  <2> QED BY <1>2, LeastIsIn
<1>4. k \in DOMAIN ops /\ ops[k].id \in Conditional
  BY <1>3 DEF NextOf
<1>5. cc \in ConditionCodes \cup {""}
  BY DEF TextOf, ConditionCodes
<1>6. ops' = InsertAt(on, k, cmp) /\ fn' = fn
  BY DEF TestVariable
<1> HIDE DEF k
<1>7. OnFlags(ops[k], cc) \in G
  BY <1>1, <1>4, <1>5, OnFlagsWellFormed DEF GoodOps, WellFormed
<1>8. on = [ops EXCEPT ![k] = OnFlags(ops[k], cc)]
  BY <1>4
<1>9. on \in Seq(G) /\ Len(on) = Len(ops)
  <2>1. ops \in Seq(G)
    BY GoodSequence
  <2> HIDE DEF G, on, cc
  <2> QED BY <2>1, <1>4, <1>7, <1>8
<1>10. cmp \in G
  <2>1. ops[k].args \in Seq(Operand) /\ ops[k].args # <<>>
    BY <1>1, <1>4 DEF WellFormed, Op, Conditional
  <2>2. ops[k].args[1] \in Operand /\ I(0) \in Operand
    BY <2>1 DEF Operand, I
  <2>3. <<ops[k].args[1], I(0)>> \in Seq(Operand) /\ "X86_CMP" \in OpId
    BY <2>2 DEF OpId
  <2>4. cmp \in Op /\ cmp.id = "X86_CMP"
    <3>1. /\ "" \in ConditionCodes \cup {""} /\ None \in {None} \cup Nat
          /\ None \in Var \cup {None}
      OBVIOUS
    <3> QED BY <3>1, <2>3, MadeOp, Zenon
  <2> QED BY <2>4 DEF GoodOps, WellFormed
<1>11. ops' \in Seq(G)
  <2>1. k \in 1 .. Len(on) + 1
    BY <1>1, <1>4, <1>9
  <2> HIDE DEF on, cmp, G
  <2> QED BY <2>1, <1>6, <1>9, <1>10, InsertAtStays
<1> QED BY <1>6, <1>11, GoodSequence DEF OpsKnown

LEMMA RemoveUnusedKeepsOps ==
  ASSUME OpsKnown, RemoveUnused
  PROVE  OpsKnown'
<1>1. ops \in Seq(Op)
  BY DEF OpsKnown
<1>2. UnusedOps \in SUBSET Nat /\ UnusedOps # {}
  BY <1>1 DEF UnusedOps, RemoveUnused
<1>3. Min(UnusedOps) \in UnusedOps
  BY <1>2, LeastIsIn
<1>4. Min(UnusedOps) \in 1 .. Len(ops)
  BY <1>1, <1>3 DEF UnusedOps
<1>5. ops \in Seq(GoodOps(fn.outs))
  BY GoodSequence
<1>6. ops' = RemoveAt(ops, Min(UnusedOps)) /\ fn' = fn
  BY DEF RemoveUnused
<1>7. ops' \in Seq(GoodOps(fn.outs))
  BY <1>4, <1>5, <1>6, RemoveAtStays
<1> QED BY <1>6, <1>7, GoodSequence DEF OpsKnown

-----------------------------------------------------------------------------
(* The actions. *)

(* Nothing has a home while ops are still rewritten. *)
LEMMA EarlyInv ==
  ASSUME AllocInv, phase \in Early, phase' \in Early, OpsKnown', UNCHANGED <<noRedZone, allocation>>
  PROVE  AllocInv'
<1>1. Untouched /\ stackOff \in Nat /\ anyPlaced \in BOOLEAN /\ noRedZone \in BOOLEAN
  BY DEF AllocInv
<1>2. /\ location' = location /\ toMove' = toMove /\ stackOff' = stackOff /\ pinned' = pinned
      /\ avail' = avail /\ hot' = hot /\ anyPlaced' = anyPlaced /\ noRedZone' = noRedZone
  BY DEF allocation
<1>3. Untouched'
  BY <1>1, <1>2 DEF Untouched
<1> QED BY <1>1, <1>2, <1>3 DEF AllocInv, Early, Late

LEMMA RewriteInv ==
  ASSUME AllocInv, Fuse \/ TestVariable \/ RemoveUnused \/ NextPhase
  PROVE  AllocInv'
<1>1. OpsKnown
  BY DEF AllocInv, OpsKnown
<1>2. phase \in Early /\ phase' \in Early /\ UNCHANGED <<noRedZone, allocation>>
  BY DEF Early, Fuse, TestVariable, RemoveUnused, NextPhase, given
<1>3. OpsKnown'
  <2>1. CASE NextPhase
    BY <2>1, <1>1, CountsKept DEF NextPhase, given
  <2> QED BY <2>1, <1>1, FuseKeepsOps, TestVariableKeepsOps, RemoveUnusedKeepsOps
<1> QED BY <1>2, <1>3, EarlyInv

(* A tail call is still a call, with the same arguments. *)
LEMMA PrologueKeepsCounts ==
  ASSUME OpsKnown, Prologue
  PROVE  OpsKnown' /\ SameCounts
<1>1. /\ fn' = fn
      /\ ops' = [k \in DOMAIN ops |->
                  IF k \in TailCalls THEN [ops[k] EXCEPT !.id = "TAILCALL"] ELSE ops[k]]
  BY DEF Prologue
<1>2. ops \in Seq(Op) /\ DOMAIN ops' = DOMAIN ops
  BY <1>1 DEF OpsKnown
<1>3. ASSUME NEW k \in DOMAIN ops
      PROVE  /\ WellFormed(ops'[k], fn.outs)
             /\ ops'[k].args = ops[k].args
             /\ ops'[k].id \in {"CALL", "TAILCALL"} <=> ops[k].id \in {"CALL", "TAILCALL"}
  <2>1. WellFormed(ops[k], fn.outs) /\ ops[k] \in Op
    BY DEF OpsKnown, WellFormed
  <2>2. CASE k \notin TailCalls
    BY <2>1, <2>2, <1>1
  <2>3. CASE k \in TailCalls
    <3>1. ops[k].id \in {"CALL", "TAILCALL"}
      BY <2>3 DEF TailCalls, Calls
    <3>2. ops'[k] = [ops[k] EXCEPT !.id = "TAILCALL"]
      BY <2>3, <1>1
    <3>3. ops'[k] \in Op /\ ops'[k].id = "TAILCALL" /\ ops'[k].args = ops[k].args
      BY <2>1, <3>2 DEF Op, OpId
    <3> QED BY <2>1, <3>1, <3>3 DEF WellFormed
  <2> QED BY <2>2, <2>3
<1>4. OpsKnown'
  <2>1. \A k \in DOMAIN ops : ops'[k] \in Op
    BY <1>3 DEF WellFormed
  <2>2. ops' \in Seq(Op)
    <3>1. DOMAIN ops = 1 .. Len(ops) /\ Len(ops) \in Nat
      BY <1>2
    <3>2. ops' = [k \in 1 .. Len(ops) |-> ops'[k]]
      BY <1>1, <3>1
    <3>3. ops' \in [1 .. Len(ops) -> Op]
      BY <2>1, <3>1, <3>2
    <3> QED BY <3>1, <3>3
  <2> QED BY <1>1, <1>2, <1>3, <2>2 DEF OpsKnown
<1>5. Calls' = Calls
  BY <1>2, <1>3 DEF Calls
<1>6. {Len(ops'[k].args) : k \in Calls} = {Len(ops[k].args) : k \in Calls}
  BY <1>3 DEF Calls
<1>7. CalledIntArgs' = CalledIntArgs
  BY <1>5, <1>6 DEF CalledIntArgs
<1>8. IsLeaf' = IsLeaf /\ ReservedArgs' = ReservedArgs
  BY <1>1, <1>5, <1>7 DEF IsLeaf, ReservedArgs, Ins
<1> QED BY <1>1, <1>4, <1>7, <1>8 DEF SameCounts

LEMMA WriteInv ==
  ASSUME AllocInv, Prologue \/ MoveParams \/ EmitOp \/ EmitEnds
  PROVE  AllocInv'
<1>1. /\ phase \in {"prologue", "moves", "emit"} /\ phase' \in {"moves", "emit", "done"}
      /\ UNCHANGED <<noRedZone, allocation>>
  BY DEF Prologue, MoveParams, EmitOp, EmitEnds, given
<1>2. OpsKnown
  BY DEF AllocInv, OpsKnown
<1>3. OpsKnown' /\ SameCounts
  <2>1. CASE Prologue
    BY <2>1, <1>2, PrologueKeepsCounts
  <2>2. CASE MoveParams \/ EmitOp \/ EmitEnds
    BY <2>2, <1>2, CountsKept DEF MoveParams, EmitOp, EmitEnds, given
  <2> QED BY <2>1, <2>2
<1> QED BY <1>1, <1>3, PhaseInv DEF Late

LEMMA InitAllocInv == Init => AllocInv
<1> SUFFICES ASSUME Init PROVE AllocInv
  OBVIOUS
<1>1. /\ fn \in Functions /\ ops = fn.ops /\ noRedZone \in NoRedZone /\ phase = "fuse"
      /\ Untouched /\ anyPlaced = FALSE
  BY DEF Init, AllocInit, Untouched
<1>2. ops \in Seq(Op) /\ \A k \in DOMAIN ops : WellFormed(ops[k], fn.outs)
  BY <1>1, RegAllocAssumption
<1>3. noRedZone \in BOOLEAN /\ stackOff \in Nat
  BY <1>1, RegAllocAssumption DEF Untouched
<1> QED BY <1>1, <1>2, <1>3 DEF AllocInv, OpsKnown, Early, Late

LEMMA NextAllocInv == AllocInv /\ [Next]_vars => AllocInv'
<1> SUFFICES ASSUME AllocInv, [Next]_vars PROVE AllocInv'
  OBVIOUS
<1>1. CASE Fuse \/ TestVariable \/ RemoveUnused \/ NextPhase
  BY <1>1, RewriteInv
<1>2. CASE AllocStep
  BY <1>2, AllocStepInv
<1>3. CASE Prologue \/ MoveParams \/ EmitOp \/ EmitEnds
  BY <1>3, WriteInv
<1>4. CASE UNCHANGED vars
  <2>1. UNCHANGED <<fn, ops, phase, cur, noRedZone, allocation>>
    BY <1>4 DEF vars, allocVars, given
  <2>2. OpsKnown /\ phase \in Early \cup Late
    BY DEF AllocInv, OpsKnown
  <2>3. OpsKnown' /\ SameCounts
    BY <2>1, <2>2, CountsKept
  <2>4. CASE phase \in Early
    BY <2>1, <2>3, <2>4, EarlyInv
  <2>5. CASE phase \in Late
    BY <2>1, <2>3, <2>5, StutterInv
  <2> QED BY <2>2, <2>4, <2>5
<1> QED BY <1>1, <1>2, <1>3, <1>4 DEF Next, Done

(* What the invariant says of the types. *)
LEMMA TypeOKFromInv == AllocInv => TypeOK
<1> SUFFICES ASSUME AllocInv PROVE TypeOK
  OBVIOUS
<1>1. OpsKnown /\ stackOff \in Nat /\ anyPlaced \in BOOLEAN /\ phase \in Early \cup Late
  BY DEF AllocInv, OpsKnown
<1>2. \A k \in DOMAIN ops : ops[k].out \in Var \cup {None}
  <2> SUFFICES ASSUME NEW k \in DOMAIN ops PROVE ops[k].out \in Var \cup {None}
    OBVIOUS
  <2>1. ops[k] \in Op
    BY <1>1 DEF OpsKnown
  <2> QED BY <2>1 DEF Op
<1>3. CASE phase \in Early
  <2>1. Untouched
    BY <1>3 DEF AllocInv
  <2>2. ToSet(hot) = {} /\ ToSet(avail) = {} /\ DOMAIN toMove = {}
    BY <2>1 DEF Untouched, ToSet
  <2>3. \A v \in Var : location[v] = NoLoc
    BY <2>1 DEF Untouched
  <2> QED BY <1>1, <1>2, <2>2, <2>3 DEF TypeOK, Early, Late
<1>4. CASE phase \in Late
  <2>1. Allocating
    BY <1>4 DEF AllocInv
  <2>2. ToSet(hot) \subseteq Var /\ ToSet(avail) \subseteq Regs
    BY <2>1, <1>1, FreeRegsApart DEF Allocating, ToSet
  <2>3. \A n \in DOMAIN toMove : toMove[n].var \in ToSet(Ins)
    <3>1. \A n \in DOMAIN toMove : \E k \in Past : toMove[n].var = Ins[k]
      BY <2>1, <1>1, MovedParams DEF Allocating
    <3> QED BY <3>1 DEF Past, ToSet
  <2>4. ASSUME NEW v \in Var
        PROVE  \/ location[v] = NoLoc
               \/ /\ location[v].type \in {"REG", "MEM"} /\ LocEncodable(location[v])
                  /\ location[v].width = TypeSize[v]
    <3>1. \/ location[v] = NoLoc
          \/ \E r : location[v] = Reg(TypeSize[v], r)
          \/ \E off : location[v] = Slot(TypeSize[v], off)
      BY <2>1 DEF Allocating, Homes, InReg, InSlot
    <3> QED BY <3>1, LocationFields, LocationsEncodable
  <2> QED BY <1>1, <1>2, <2>2, <2>3, <2>4 DEF TypeOK, Early, Late
<1> QED BY <1>1, <1>3, <1>4

LEMMA AllocInvAlways == Spec => []AllocInv
BY InitAllocInv, NextAllocInv, PTL DEF Spec

-----------------------------------------------------------------------------
(* Operands by their kinds.                                                *)
Width == {1, 4, 8}
RegOp == [type : {"REG"}, width : Width, reg : Regs]
ImmOp == [type : {"IMM"}, width : Width, bits : Nat]
Part == RegOp \cup ImmOp \cup {NoLoc}
EaOp == [type : {"EA"}, width : Width, base : RegOp \cup ImmOp, sign : {1, -1},
         off : Part, mul : Part]
Address == {l \in RegOp \cup ImmOp \cup EaOp : AddressEncodable(l)}
MemOp == [type : {"MEM"}, width : Width, address : Address]
Place == RegOp \cup MemOp
Source == RegOp \cup ImmOp \cup MemOp

(* Instructions of which each is one of the processor.                     *)
Written(s) == \E S : s \in Seq(S) /\ \A i \in S : Encodable(i)

LEMMA WrittenBy ==
  ASSUME NEW S, NEW s \in Seq(S), \A i \in S : Encodable(i)
  PROVE  Written(s)
BY DEF Written

LEMMA WrittenNone == Written(<<>>)
<1> DEFINE S == {}
<1>1. <<>> \in Seq(S)
  OBVIOUS
<1>2. \A i \in S : Encodable(i)
  OBVIOUS
<1> HIDE DEF S
<1> QED BY <1>1, <1>2, WrittenBy

LEMMA WrittenOne ==
  ASSUME NEW i, Encodable(i)
  PROVE  Written(<<i>>)
<1> DEFINE S == {i}
<1>1. <<i>> \in Seq(S)
  OBVIOUS
<1>2. \A j \in S : Encodable(j)
  OBVIOUS
<1> HIDE DEF S
<1> QED BY <1>1, <1>2, WrittenBy

LEMMA WrittenBoth ==
  ASSUME NEW s, NEW t, Written(s), Written(t)
  PROVE  Written(s \o t)
<1>1. PICK S : s \in Seq(S) /\ \A i \in S : Encodable(i)
  BY DEF Written
<1>2. PICK T : t \in Seq(T) /\ \A i \in T : Encodable(i)
  BY DEF Written
<1>3. s \in Seq(S \cup T) /\ t \in Seq(S \cup T) /\ \A i \in S \cup T : Encodable(i)
  BY <1>1, <1>2
<1>4. s \o t \in Seq(S \cup T)
  BY <1>3
<1> QED BY <1>3, <1>4 DEF Written

LEMMA WrittenAll ==
  ASSUME NEW s, Written(s)
  PROVE  \A k \in DOMAIN s : Encodable(s[k])
<1>1. PICK S : s \in Seq(S) /\ \A i \in S : Encodable(i)
  BY DEF Written
<1> QED BY <1>1

LEMMA Kinds ==
  /\ \A l \in RegOp : l.type = "REG" /\ l.width \in Width /\ LocEncodable(l)
  /\ \A l \in ImmOp : l.type = "IMM" /\ l.width \in Width /\ LocEncodable(l)
  /\ \A l \in MemOp : l.type = "MEM" /\ l.width \in Width /\ LocEncodable(l)
  /\ \A l \in EaOp : l.type = "EA" /\ l.width \in Width
<1>1. \A l \in RegOp : l.type = "REG" /\ l.width \in Width
  BY DEF RegOp
<1>2. \A l \in ImmOp : l.type = "IMM" /\ l.width \in Width
  BY DEF ImmOp
<1>3. \A l \in MemOp : l.type = "MEM" /\ l.width \in Width /\ l.address \in Address
  BY DEF MemOp
<1>4. \A l \in EaOp : l.type = "EA" /\ l.width \in Width
  BY DEF EaOp
<1> QED BY <1>1, <1>2, <1>3, <1>4 DEF LocEncodable, Address

LEMMA KindsOf ==
  ASSUME NEW l \in Source
  PROVE  /\ l.type \in {"REG", "IMM", "MEM"} /\ l.width \in Width /\ LocEncodable(l)
         /\ l.type = "REG" <=> l \in RegOp
         /\ l.type = "IMM" <=> l \in ImmOp
         /\ l.type = "MEM" <=> l \in MemOp
BY Kinds DEF Source

LEMMA Resized ==
  ASSUME NEW l \in Source, NEW w \in Width
  PROVE  /\ [l EXCEPT !.width = w] \in Source
         /\ [l EXCEPT !.width = w].type = l.type
         /\ [l EXCEPT !.width = w].width = w
<1>1. CASE l \in RegOp
  BY <1>1 DEF RegOp, Source
<1>2. CASE l \in ImmOp
  BY <1>2 DEF ImmOp, Source
<1>3. CASE l \in MemOp
  BY <1>3 DEF MemOp, Source
<1> QED BY <1>1, <1>2, <1>3 DEF Source

LEMMA Made ==
  /\ \A w \in Width, r \in Regs : /\ Reg(w, r) \in RegOp /\ Reg(w, r).type = "REG"
                                  /\ Reg(w, r).width = w
  /\ \A w \in Width, n \in Nat : /\ Imm(w, n) \in ImmOp /\ Imm(w, n).type = "IMM"
                                 /\ Imm(w, n).width = w
  /\ \A w \in Width, a \in Address : /\ Mem(w, a) \in MemOp /\ Mem(w, a).type = "MEM"
                                     /\ Mem(w, a).width = w
BY DEF Reg, Imm, Mem, RegOp, ImmOp, MemOp

-----------------------------------------------------------------------------
(* Single instructions.                                                    *)
LEMMA Plain ==
  ASSUME NEW op, NEW dst, NEW src
  PROVE  /\ Instr(op, dst, src).op = op /\ Instr(op, dst, src).dst = dst
         /\ Instr(op, dst, src).src = src
BY DEF Instr

LEMMA TwoEncodable ==
  ASSUME NEW op \in TwoOperand \cup {"mov", "cmp"}, NEW dst \in Place, NEW src \in Source,
         ~(dst.type = "MEM" /\ src.type = "MEM"),
         src.type # "IMM" => dst.width = src.width,
         op = "imul" => dst.type = "REG"
  PROVE  Written(<<Instr(op, dst, src)>>)
<1>1. dst \in Source /\ dst.type \in {"REG", "MEM"}
  BY Kinds DEF Place, Source
<1>2. LocEncodable(dst) /\ LocEncodable(src)
  BY <1>1, KindsOf
<1>3. op \notin {"assert", "j", "cmov", "set", "movsx", "movzx", "lea", "not", "shl", "shr", "sar",
                 "div", "idiv"}
  BY DEF TwoOperand
<1>4. Encodable(Instr(op, dst, src))
  BY <1>1, <1>2, <1>3, Plain DEF Encodable
<1> QED BY <1>4, WrittenOne

LEMMA ExtensionEncodable ==
  ASSUME NEW op \in {"movsx", "movzx"}, NEW dst \in RegOp, NEW src \in Place
  PROVE  Written(<<Instr(op, dst, src)>>)
<1>1. dst.type = "REG" /\ LocEncodable(src) /\ src.type # "IMM"
  BY Kinds DEF Place
<1>2. Encodable(Instr(op, dst, src))
  BY <1>1, Plain DEF Encodable, TwoOperand
<1> QED BY <1>2, WrittenOne

LEMMA LeaEncodable ==
  ASSUME NEW dst \in RegOp, dst.width # 1, NEW src \in EaOp, AddressEncodable(src)
  PROVE  Written(<<Instr("lea", dst, src)>>)
<1>1. dst.type = "REG" /\ src.type = "EA"
  BY Kinds
<1>2. Encodable(Instr("lea", dst, src))
  BY <1>1, Plain DEF Encodable, TwoOperand
<1> QED BY <1>2, WrittenOne

(* Those that only the destination can be wrong for.                       *)
LEMMA OneEncodable ==
  ASSUME NEW op \in {"not", "shl", "shr", "sar"}, NEW dst \in Place
  PROVE  Written(<<Instr(op, dst, NoLoc)>>)
<1>1. dst.type \in {"REG", "MEM"} /\ LocEncodable(dst)
  BY Kinds DEF Place
<1>2. Encodable(Instr(op, dst, NoLoc))
  BY <1>1, Plain DEF Encodable, TwoOperand
<1> QED BY <1>2, WrittenOne

LEMMA DivEncodable ==
  ASSUME NEW op \in {"div", "idiv"}, NEW dst, NEW src \in Place
  PROVE  Written(<<Instr(op, dst, src)>>)
<1>1. src.type \in {"REG", "MEM"} /\ LocEncodable(src)
  BY Kinds DEF Place
<1>2. Encodable(Instr(op, dst, src))
  BY <1>1, Plain DEF Encodable, TwoOperand
<1> QED BY <1>2, WrittenOne

LEMMA FreeEncodable ==
  ASSUME NEW op \in {"cqo", "call", "jmp", "ret", "push", "pop", "reserve", "label"},
         NEW dst, NEW src
  PROVE  Written(<<Instr(op, dst, src)>>)
<1>1. Encodable(Instr(op, dst, src))
  BY Plain DEF Encodable, TwoOperand
<1> QED BY <1>1, WrittenOne

LEMMA SetEncodable ==
  ASSUME NEW cc \in ConditionCodes, NEW dst \in Place
  PROVE  Written(<<CondInstr("set", cc, dst, NoLoc)>>)
<1>1. dst.type \in {"REG", "MEM"} /\ LocEncodable(dst)
  BY Kinds DEF Place
<1>2. Encodable(CondInstr("set", cc, dst, NoLoc))
  BY <1>1 DEF Encodable, TwoOperand, CondInstr
<1> QED BY <1>2, WrittenOne

LEMMA CmovEncodable ==
  ASSUME NEW cc \in ConditionCodes, NEW dst \in RegOp, NEW src \in Place
  PROVE  Written(<<CondInstr("cmov", cc, dst, src)>>)
<1>1. dst.type = "REG" /\ src.type \in {"REG", "MEM"} /\ LocEncodable(src)
  BY Kinds DEF Place
<1>2. Encodable(CondInstr("cmov", cc, dst, src))
  BY <1>1 DEF Encodable, TwoOperand, CondInstr
<1> QED BY <1>2, WrittenOne

LEMMA JumpEncodable ==
  ASSUME NEW cc \in ConditionCodes \cup {"mp"}, NEW dst, NEW src
  PROVE  Written(<<CondInstr("j", cc, dst, src)>>)
<1>1. Encodable(CondInstr("j", cc, dst, src))
  BY DEF Encodable, TwoOperand, CondInstr
<1> QED BY <1>1, WrittenOne

-----------------------------------------------------------------------------
(* Moves.                                                                  *)
LEMMA KindsOfPlace ==
  ASSUME NEW l \in Place
  PROVE  /\ l \in Source /\ l.type \in {"REG", "MEM"} /\ l.width \in Width
         /\ l.type = "REG" <=> l \in RegOp
         /\ l.type = "MEM" <=> l \in MemOp
BY Kinds DEF Place, Source

LEMMA ResizedPlace ==
  ASSUME NEW l \in Place, NEW w \in Width
  PROVE  /\ [l EXCEPT !.width = w] \in Place
         /\ [l EXCEPT !.width = w].type = l.type
         /\ [l EXCEPT !.width = w].width = w
<1>1. CASE l \in RegOp
  BY <1>1 DEF RegOp, Place
<1>2. CASE l \in MemOp
  BY <1>2 DEF MemOp, Place
<1> QED BY <1>1, <1>2 DEF Place

LEMMA SimpleMoveWritten ==
  ASSUME NEW src \in Source, NEW dst \in Place, ~(src.type = "MEM" /\ dst.type = "MEM"),
         NEW signExt \in BOOLEAN, Reaches(src, dst, signExt)
  PROVE  Written(SimpleMove(src, dst, signExt))
<1> DEFINE w == IF src.width > dst.width THEN dst.width ELSE src.width
           s == [src EXCEPT !.width = w]
<1>1. src.width \in Width /\ dst.width \in Width /\ w \in Width
  BY KindsOf, KindsOfPlace
<1>2. s \in Source /\ s.type = src.type /\ s.width = w
  BY <1>1, Resized
<1>3. SimpleMove(src, dst, signExt) =
        CASE s.width = dst.width -> <<Instr("mov", dst, s)>>
          [] s.width # dst.width /\ signExt -> <<Instr("movsx", dst, s)>>
          [] s.width = 4 /\ dst.width = 8 /\ ~signExt ->
               <<Instr("mov", [dst EXCEPT !.width = 4], s)>>
          [] OTHER -> <<Instr("movzx", dst, s)>>
  BY DEF SimpleMove
<1> HIDE DEF s
<1>4. CASE s.width = dst.width
  <2>1. Written(<<Instr("mov", dst, s)>>)
    BY <1>2, <1>4, TwoEncodable
  <2> QED BY <1>3, <1>4, <2>1
<1>5. CASE s.width = 4 /\ dst.width = 8 /\ ~signExt
  <2> DEFINE d == [dst EXCEPT !.width = 4]
  <2>1. d \in Place /\ d.type = dst.type /\ d.width = 4
    BY ResizedPlace DEF Width
  <2> HIDE DEF d
  <2>2. Written(<<Instr("mov", d, s)>>)
    BY <1>2, <1>5, <2>1, TwoEncodable
  <2> QED BY <1>3, <1>5, <2>2 DEF d
<1>6. CASE s.width # dst.width /\ ~(s.width = 4 /\ dst.width = 8 /\ ~signExt)
  <2>1. src.width < dst.width /\ dst.type = "REG" /\ src.type # "IMM"
    BY <1>1, <1>2, <1>6 DEF Reaches, Width
  <2>2. dst \in RegOp /\ s \in Place
    BY <1>2, <2>1, KindsOf, KindsOfPlace DEF Place
  <2>3. Written(<<Instr("movsx", dst, s)>>) /\ Written(<<Instr("movzx", dst, s)>>)
    BY <2>2, ExtensionEncodable
  <2> QED BY <1>3, <1>6, <2>3
<1> QED BY <1>4, <1>5, <1>6

LEMMA ZeroWritten ==
  ASSUME NEW dst \in Place
  PROVE  Written(Zero(dst))
<1>1. dst.width \in Width /\ dst.type \in {"REG", "MEM"}
  BY KindsOfPlace
<1>2. CASE dst.type = "REG"
  <2> DEFINE w == IF dst.width = 8 THEN 4 ELSE dst.width
             r == [dst EXCEPT !.width = w]
  <2>1. r \in Place /\ r.type = "REG"
    BY <1>1, <1>2, ResizedPlace DEF Width
  <2>2. Zero(dst) = <<Instr("xor", r, r)>>
    BY <1>2 DEF Zero
  <2> HIDE DEF r
  <2>3. r \in Source
    BY <2>1, KindsOfPlace
  <2> QED BY <2>1, <2>2, <2>3, TwoEncodable DEF TwoOperand
<1>3. CASE dst.type = "MEM"
  <2> DEFINE z == Imm(dst.width, 0)
  <2>1. z \in Source /\ z.type = "IMM"
    BY <1>1, Made DEF Source
  <2>2. Zero(dst) = <<Instr("mov", dst, z)>>
    BY <1>3 DEF Zero
  <2> HIDE DEF z
  <2> QED BY <2>1, <2>2, TwoEncodable
<1> QED BY <1>1, <1>2, <1>3

(* A sequence of scratch registers, and the first of them.                 *)
LEMMA FirstFree ==
  ASSUME NEW free \in Seq(Regs), free # <<>>, NEW w \in Width
  PROVE  /\ Reg(w, Head(free)) \in RegOp /\ Reg(w, Head(free)) \in Place
         /\ Reg(w, Head(free)) \in Source
         /\ Reg(w, Head(free)).type = "REG" /\ Reg(w, Head(free)).width = w
         /\ Tail(free) \in Seq(Regs) /\ (Len(free) >= 2 => Tail(free) # <<>>)
<1>1. Head(free) \in Regs /\ Tail(free) \in Seq(Regs)
  OBVIOUS
<1>2. Len(Tail(free)) = Len(free) - 1 /\ Len(free) \in Nat
  OBVIOUS
<1>3. Len(<<>>) = 0
  OBVIOUS
<1>4. Tail(free) = <<>> => Len(Tail(free)) = 0
  BY <1>3
<1>5. Len(free) >= 2 => Len(Tail(free)) # 0
  BY <1>2
<1>6. Len(free) >= 2 => Tail(free) # <<>>
  BY <1>4, <1>5, Zenon
<1> QED BY <1>1, <1>6, Made DEF Place, Source

Movable(src, dst, signExt) ==
  \/ src = Invalid
  \/ src \in EaOp /\ AddressEncodable(src) /\ dst \in Place /\ dst.width # 1
  \/ src \in Source /\ dst \in Place /\ Reaches(src, dst, signExt)

LEMMA LeaWritten ==
  ASSUME NEW free \in Seq(Regs), NEW src \in EaOp, AddressEncodable(src), NEW dst \in Place,
         dst.width # 1, dst.type = "MEM" => free # <<>>
  PROVE  Written(Lea(free, src, dst))
<1>1. dst.width \in Width /\ dst.type \in {"REG", "MEM"}
  BY KindsOfPlace
<1>2. CASE dst.type = "REG"
  <2>1. Lea(free, src, dst) = <<Instr("lea", dst, src)>>
    BY <1>2 DEF Lea
  <2> QED BY <1>2, <2>1, KindsOfPlace, LeaEncodable
<1>3. CASE dst.type = "MEM"
  <2> DEFINE s == Reg(dst.width, Head(free))
  <2>1. /\ s \in RegOp /\ s \in Source /\ s.type = "REG" /\ s.width = dst.width
    BY <1>1, <1>3, FirstFree
  <2>2. Lea(free, src, dst) = <<Instr("lea", s, src)>> \o SimpleMove(s, dst, FALSE)
    BY <1>3 DEF Lea, WithScratch
  <2> HIDE DEF s
  <2>3. Written(<<Instr("lea", s, src)>>)
    BY <2>1, LeaEncodable
  <2>4. Reaches(s, dst, FALSE)
    BY <1>1, <2>1 DEF Reaches, InPlace, Given, Width
  <2>5. Written(SimpleMove(s, dst, FALSE))
    BY <2>1, <2>4, SimpleMoveWritten
  <2> QED BY <2>2, <2>3, <2>5, WrittenBoth
<1> QED BY <1>1, <1>2, <1>3

LEMMA MoveWritten ==
  ASSUME NEW free \in Seq(Regs), NEW src, NEW dst, NEW signExt \in BOOLEAN,
         Movable(src, dst, signExt),
         dst.type = "MEM" /\ src.type \in {"MEM", "EA"} => free # <<>>
  PROVE  Written(Move(free, src, dst, signExt))
<1>1. CASE src = Invalid
  <2>1. src.type = "INVALID"
    BY <1>1 DEF Invalid
  <2>2. Move(free, src, dst, signExt) = <<>>
    BY <2>1 DEF Move
  <2> QED BY <2>2, WrittenNone
<1>2. CASE src \in EaOp /\ AddressEncodable(src) /\ dst \in Place /\ dst.width # 1
  <2>1. src.type = "EA" /\ dst.type \in {"REG", "MEM"}
    BY <1>2, Kinds, KindsOfPlace
  <2>2. ~Equal(src, dst)
    BY <2>1 DEF Equal
  <2>3. Move(free, src, dst, signExt) = Lea(free, src, dst)
    BY <2>1, <2>2 DEF Move
  <2> QED BY <1>2, <2>1, <2>3, LeaWritten
<1>3. CASE src \in Source /\ dst \in Place /\ Reaches(src, dst, signExt)
  <2>1. /\ src.type \in {"REG", "IMM", "MEM"} /\ dst.type \in {"REG", "MEM"}
        /\ src.width \in Width /\ dst.width \in Width
    BY <1>3, KindsOf, KindsOfPlace
  <2>2. CASE src.type = "IMM" /\ src.bits = 0
    <3>1. ~Equal(src, dst)
      BY <2>1, <2>2 DEF Equal
    <3>2. Move(free, src, dst, signExt) = Zero(dst)
      BY <2>2, <3>1 DEF Move
    <3> QED BY <1>3, <3>2, ZeroWritten
  <2>3. CASE Equal(src, dst)
    <3>1. src.type # "IMM"
      BY <2>1, <2>3 DEF Equal
    <3>2. Move(free, src, dst, signExt) = <<>>
      BY <2>1, <2>3, <3>1 DEF Move
    <3> QED BY <3>2, WrittenNone
  <2>4. CASE src.type = "MEM" /\ dst.type = "MEM" /\ ~Equal(src, dst)
    <3> DEFINE s == Reg(src.width, Head(free))
    <3>1. s \in Place /\ s \in Source /\ s.type = "REG" /\ s.width = src.width
      BY <2>1, <2>4, FirstFree
    <3>2. Move(free, src, dst, signExt) = SimpleMove(src, s, signExt) \o SimpleMove(s, dst, signExt)
      BY <2>4 DEF Move, WithScratch
    <3> HIDE DEF s
    <3>3. Reaches(src, s, signExt) /\ Reaches(s, dst, signExt)
      BY <1>3, <2>1, <2>4, <3>1 DEF Reaches, InPlace, Given, Width
    <3>4. Written(SimpleMove(src, s, signExt)) /\ Written(SimpleMove(s, dst, signExt))
      BY <1>3, <3>1, <3>3, SimpleMoveWritten
    <3> QED BY <3>2, <3>4, WrittenBoth
  <2>5. CASE /\ ~(src.type = "IMM" /\ src.bits = 0) /\ ~Equal(src, dst)
             /\ ~(src.type = "MEM" /\ dst.type = "MEM")
    <3>1. Move(free, src, dst, signExt) = SimpleMove(src, dst, signExt)
      BY <2>1, <2>5 DEF Move
    <3> QED BY <1>3, <2>5, <3>1, SimpleMoveWritten
  <2> QED BY <2>2, <2>3, <2>4, <2>5
<1> QED BY <1>1, <1>2, <1>3 DEF Movable

(* The usual case: nothing gets wider.                                     *)
LEMMA NarrowMoveWritten ==
  ASSUME NEW free \in Seq(Regs), NEW src \in Source, NEW dst \in Place, src.width >= dst.width,
         NEW signExt \in BOOLEAN, dst.type = "MEM" /\ src.type = "MEM" => free # <<>>
  PROVE  Written(Move(free, src, dst, signExt))
<1>1. Given(src) /\ InPlace(dst)
  BY KindsOf, KindsOfPlace DEF Given, InPlace
<1>2. Movable(src, dst, signExt) /\ src.type # "EA"
  BY <1>1 DEF Movable, Reaches, Given
<1> QED BY <1>2, MoveWritten

-----------------------------------------------------------------------------
(* Arithmetic.                                                             *)
LEMMA PrimitiveWritten ==
  ASSUME NEW free \in Seq(Regs), free # <<>>, NEW l \in MemOp
  PROVE  Written(SimpleMove(l, Reg(l.width, Head(free)), FALSE))
<1> DEFINE s == Reg(l.width, Head(free))
<1>1. l.width \in Width /\ l \in Source /\ l.type = "MEM"
  BY Kinds DEF Source
<1>2. s \in Place /\ s.type = "REG" /\ s.width = l.width
  BY <1>1, FirstFree
<1> HIDE DEF s
<1>3. Reaches(l, s, FALSE)
  BY <1>1, <1>2 DEF Reaches, Given, InPlace, Width
<1>4. Written(SimpleMove(l, s, FALSE))
  BY <1>1, <1>2, <1>3, SimpleMoveWritten
<1> QED BY <1>4 DEF s

LEMMA OntoWritten ==
  ASSUME NEW free \in Seq(Regs), NEW x \in Source, NEW o \in Place, x.width = o.width,
         o.type = "MEM" /\ x.type = "MEM" => free # <<>>,
         NEW op \in TwoOperand, op = "imul" => o.type = "REG"
  PROVE  Written(IF o.type = "MEM"
                 THEN AsPrimitive(free, x, LAMBDA y, rest : <<Instr(op, o, y)>>)
                 ELSE <<Instr(op, o, x)>>)
<1>1. o.type \in {"REG", "MEM"} /\ x.width \in Width
  BY KindsOf, KindsOfPlace
<1>2. CASE o.type = "MEM" /\ x.type = "MEM"
  <2> DEFINE s == Reg(x.width, Head(free))
  <2>1. AsPrimitive(free, x, LAMBDA y, rest : <<Instr(op, o, y)>>) =
          SimpleMove(x, s, FALSE) \o <<Instr(op, o, s)>>
    BY <1>2 DEF AsPrimitive, WithScratch
  <2>2. Written(SimpleMove(x, s, FALSE))
    BY <1>2, KindsOf, PrimitiveWritten
  <2>3. s \in Source /\ s.type = "REG" /\ s.width = x.width
    BY <1>1, <1>2, FirstFree
  <2> HIDE DEF s
  <2>4. Written(<<Instr(op, o, s)>>)
    BY <2>3, TwoEncodable
  <2> QED BY <1>2, <2>1, <2>2, <2>4, WrittenBoth
<1>3. CASE ~(o.type = "MEM" /\ x.type = "MEM")
  <2>1. Written(<<Instr(op, o, x)>>)
    BY <1>3, TwoEncodable
  <2>2. o.type = "MEM" => AsPrimitive(free, x, LAMBDA y, rest : <<Instr(op, o, y)>>)
                          = <<Instr(op, o, x)>>
    BY <1>3 DEF AsPrimitive
  <2> QED BY <2>1, <2>2
<1> QED BY <1>2, <1>3

LEMMA BinaryIntoWritten ==
  ASSUME NEW free \in Seq(Regs), NEW a \in Source, NEW b \in Source, NEW o \in Place,
         a.width = o.width, b.width = o.width, ~(a.type = "MEM" /\ b.type = "MEM"),
         o.type = "MEM" \/ b = o => free # <<>>,
         NEW op \in TwoOperand, op = "imul" => o.type = "REG"
  PROVE  Written(BinaryInto(free, a, b, o, op))
<1>1. o \in Source /\ o.type \in {"REG", "MEM"} /\ o.width \in Width /\ o.width <= o.width
  BY KindsOfPlace DEF Width
<1>2. CASE a = o
  <2>1. BinaryInto(free, a, b, o, op) = <<Instr(op, o, b)>>
    BY <1>2 DEF BinaryInto
  <2> QED BY <1>2, <2>1, TwoEncodable
<1>3. CASE a # o /\ b = o
  <2> DEFINE s == Reg(o.width, Head(free))
  <2>1. /\ s \in Place /\ s \in Source /\ s.type = "REG" /\ s.width = o.width
        /\ Tail(free) \in Seq(Regs)
    BY <1>1, <1>3, FirstFree
  <2>2. BinaryInto(free, a, b, o, op) =
          Move(Tail(free), a, s, FALSE) \o <<Instr(op, s, b)>> \o Move(Tail(free), s, o, FALSE)
    BY <1>3 DEF BinaryInto, WithScratch
  <2> HIDE DEF s
  <2>3. Written(Move(Tail(free), a, s, FALSE))
    BY <1>1, <2>1, NarrowMoveWritten
  <2>4. Written(<<Instr(op, s, b)>>)
    BY <2>1, TwoEncodable
  <2>5. Written(Move(Tail(free), s, o, FALSE))
    BY <1>1, <2>1, NarrowMoveWritten
  <2> QED BY <2>2, <2>3, <2>4, <2>5, WrittenBoth
<1>4. CASE a # o /\ b # o
  <2> DEFINE onto == IF o.type = "MEM"
                     THEN AsPrimitive(free, b, LAMBDA y, rest : <<Instr(op, o, y)>>)
                     ELSE <<Instr(op, o, b)>>
  <2>1. BinaryInto(free, a, b, o, op) = Move(free, a, o, FALSE) \o onto
    BY <1>4 DEF BinaryInto
  <2>2. Written(onto)
    BY OntoWritten
  <2> HIDE DEF onto
  <2>3. Written(Move(free, a, o, FALSE))
    BY <1>1, NarrowMoveWritten
  <2> QED BY <2>1, <2>2, <2>3, WrittenBoth
<1> QED BY <1>2, <1>3, <1>4

(* An operand that is not too short is made as wide as the result. *)
Fitted(x, w) == IF x.width = w THEN x ELSE [x EXCEPT !.width = w]

LEMMA FittedIs ==
  ASSUME NEW x \in Source, NEW w \in Width
  PROVE  /\ Fitted(x, w) \in Source /\ Fitted(x, w).type = x.type /\ Fitted(x, w).width = w
BY Resized DEF Fitted

Sized(free, w, x, y, o, op) ==
  AsSize(free, w, x, LAMBDA u, f1 :
    AsSize(f1, w, y, LAMBDA v, f2 : BinaryInto(f2, u, v, o, op)))

LEMMA SizedIs ==
  ASSUME NEW free, NEW x \in Source, NEW y \in Source, NEW w \in Width,
         x.width >= w, y.width >= w, NEW o, NEW op
  PROVE  Sized(free, w, x, y, o, op) = BinaryInto(free, Fitted(x, w), Fitted(y, w), o, op)
<1>1. x.width \in Width /\ y.width \in Width
  BY KindsOf
<1>2. (x.width = w \/ x.width > w) /\ (y.width = w \/ y.width > w)
  BY <1>1 DEF Width
<1> QED BY <1>2 DEF Sized, AsSize, Fitted

LEMMA BinaryWritten ==
  ASSUME NEW free \in Seq(Regs), free # <<>>, NEW a \in Source, NEW b \in Source,
         a.type = "MEM" /\ b.type = "MEM" => Len(free) >= 2,
         NEW o \in Place, NEW op \in TwoOperand, Computes(a, b, o, op)
  PROVE  Written(Binary(free, a, b, o, op))
<1> DEFINE w == o.width
<1>1. w \in Width /\ a.width >= w /\ b.width >= w /\ (op = "imul" => o.type = "REG")
  BY KindsOfPlace DEF Computes
<1>2. CASE a.type = "MEM" /\ b.type = "MEM"
  <2> DEFINE s == Reg(b.width, Head(free))
  <2>0. b.width \in Width
    BY KindsOf
  <2>1. /\ s \in Source /\ s.type = "REG" /\ s.width = b.width
        /\ Tail(free) \in Seq(Regs) /\ Tail(free) # <<>>
    BY <1>2, <2>0, FirstFree
  <2>2. Binary(free, a, b, o, op) =
          SimpleMove(b, s, FALSE) \o Sized(Tail(free), w, a, s, o, op)
    BY <1>2 DEF Binary, AsPrimitive, WithScratch, Sized, AsSize
  <2>3. Written(SimpleMove(b, s, FALSE))
    BY <1>2, KindsOf, PrimitiveWritten
  <2> HIDE DEF s, w
  <2>4. s.width >= w
    BY <1>1, <2>1
  <2>5. Sized(Tail(free), w, a, s, o, op) = BinaryInto(Tail(free), Fitted(a, w), Fitted(s, w), o, op)
    BY <1>1, <2>1, <2>4, SizedIs
  <2>6. Written(BinaryInto(Tail(free), Fitted(a, w), Fitted(s, w), o, op))
    BY <1>1, <2>1, FittedIs, BinaryIntoWritten DEF w
  <2> QED BY <2>2, <2>3, <2>5, <2>6, WrittenBoth
<1>3. CASE ~(a.type = "MEM" /\ b.type = "MEM")
  <2>1. Binary(free, a, b, o, op) = Sized(free, w, a, b, o, op)
    BY <1>3 DEF Binary, Sized, AsSize
  <2> HIDE DEF w
  <2>2. Binary(free, a, b, o, op) = BinaryInto(free, Fitted(a, w), Fitted(b, w), o, op)
    BY <1>1, <2>1, SizedIs
  <2>3. Written(BinaryInto(free, Fitted(a, w), Fitted(b, w), o, op))
    BY <1>1, <1>3, FittedIs, BinaryIntoWritten DEF w
  <2> QED BY <2>2, <2>3
<1> QED BY <1>2, <1>3

(* Two scratch registers or more are not in use. *)
Scratches == {free \in Seq(Regs) : Len(free) >= 2}

LEMMA TwoFree ==
  ASSUME NEW free \in Scratches
  PROVE  /\ free \in Seq(Regs) /\ free # <<>> /\ Len(free) >= 2
         /\ Tail(free) \in Seq(Regs) /\ Tail(free) # <<>>
<1>1. free \in Seq(Regs) /\ Len(free) >= 2
  BY DEF Scratches
<1>2. Len(<<>>) = 0
  OBVIOUS
<1>3. free # <<>>
  BY <1>1, <1>2
<1>4. 8 \in Width
  BY DEF Width
<1> QED BY <1>1, <1>3, <1>4, FirstFree

LEMMA GivenIs ==
  ASSUME NEW l \in Source
  PROVE  /\ Given(l)
         /\ InPlace(l) <=> l \in Place
         /\ InPlace(l) <=> l.type # "IMM"
BY KindsOf DEF Given, InPlace, Place

LEMMA SumAddress ==
  ASSUME NEW a \in RegOp, NEW b \in RegOp \cup ImmOp, NEW sign \in {1, -1},
         b \in RegOp => sign = 1, NEW w \in Width
  PROVE  /\ Ea(w, a, sign, b, NoLoc) \in EaOp
         /\ AddressEncodable(Ea(w, a, sign, b, NoLoc))
<1>1. a.type = "REG" /\ b.type \in {"REG", "IMM"} /\ (b.type = "REG" => b \in RegOp)
  BY Kinds
<1>2. NoLoc.type = "NONE"
  BY DEF NoLoc
<1>3. Ea(w, a, sign, b, NoLoc) \in EaOp
  BY DEF Ea, EaOp, Part
<1>4. AddressEncodable(Ea(w, a, sign, b, NoLoc))
  BY <1>1, <1>2 DEF Ea, AddressEncodable
<1> QED BY <1>3, <1>4

LEMMA AddSubWritten ==
  ASSUME NEW free \in Scratches, NEW a \in Source, NEW b \in Source, NEW o \in Place,
         NEW id \in {"ADD", "SUB"},
         IF ~Equal(o, a) /\ a.type = "REG" /\ (id = "ADD" \/ b.type # "REG")
         THEN b.type \in {"REG", "IMM"} /\ o.width # 1
         ELSE Computes(a, b, o, "add")
  PROVE  Written(AddSub(free, a, b, o, id))
<1>1. CASE ~Equal(o, a) /\ a.type = "REG" /\ (id = "ADD" \/ b.type # "REG")
  <2> DEFINE sign == IF id = "ADD" THEN 1 ELSE -1
             ea == Ea(o.width, a, sign, b, NoLoc)
  <2>1. AddSub(free, a, b, o, id) = Move(free, ea, o, FALSE)
    BY <1>1 DEF AddSub
  <2>2. a \in RegOp /\ b \in RegOp \cup ImmOp /\ o.width \in Width /\ sign \in {1, -1}
    BY <1>1, KindsOf, KindsOfPlace
  <2>3. b \in RegOp => sign = 1
    BY <1>1, Kinds
  <2> HIDE DEF sign
  <2>4. ea \in EaOp /\ AddressEncodable(ea)
    BY <2>2, <2>3, SumAddress
  <2> HIDE DEF ea
  <2>5. Movable(ea, o, FALSE)
    BY <1>1, <2>4 DEF Movable
  <2> QED BY <2>1, <2>5, TwoFree, MoveWritten
<1>2. CASE ~(~Equal(o, a) /\ a.type = "REG" /\ (id = "ADD" \/ b.type # "REG"))
  <2> DEFINE op == IF id = "ADD" THEN "add" ELSE "sub"
  <2>1. AddSub(free, a, b, o, id) = Binary(free, a, b, o, op)
    BY <1>2 DEF AddSub
  <2>2. op \in TwoOperand /\ Computes(a, b, o, op)
    BY <1>2 DEF Computes, TwoOperand
  <2> HIDE DEF op
  <2> QED BY <2>1, <2>2, TwoFree, BinaryWritten
<1> QED BY <1>1, <1>2

LEMMA UnaryWritten ==
  ASSUME NEW free \in Scratches, NEW v \in Source, NEW o \in Place, v.width >= o.width
  PROVE  Written(Unary(free, v, o, "not"))
<1>1. /\ v.width \in Width /\ o.width \in Width /\ o.type \in {"REG", "MEM"} /\ o \in Source
      /\ v.width <= v.width
  BY KindsOf, KindsOfPlace DEF Width
<1>2. Written(<<Instr("not", o, NoLoc)>>)
  BY OneEncodable
<1>3. CASE v = o
  <2>1. Unary(free, v, o, "not") = <<Instr("not", o, NoLoc)>>
    BY <1>3 DEF Unary
  <2> QED BY <1>2, <2>1
<1>4. CASE v # o /\ o.type = "MEM"
  <2> DEFINE s == Reg(v.width, Head(free))
  <2>1. s \in Place /\ s \in Source /\ s.width = v.width /\ s.type = "REG"
    BY <1>1, FirstFree, TwoFree
  <2>2. Unary(free, v, o, "not") =
          Move(Tail(free), v, s, FALSE) \o <<Instr("not", s, NoLoc)>> \o Move(Tail(free), s, o, FALSE)
    BY <1>4, TwoFree DEF Unary, WithScratch
  <2> HIDE DEF s
  <2>3. Written(Move(Tail(free), v, s, FALSE))
    BY <1>1, <2>1, TwoFree, NarrowMoveWritten
  <2>4. Written(Move(Tail(free), s, o, FALSE))
    BY <1>1, <2>1, TwoFree, NarrowMoveWritten
  <2>5. Written(<<Instr("not", s, NoLoc)>>)
    BY <2>1, OneEncodable
  <2> QED BY <2>2, <2>3, <2>4, <2>5, WrittenBoth
<1>5. CASE v # o /\ o.type # "MEM"
  <2>1. Unary(free, v, o, "not") = Move(free, v, o, FALSE) \o <<Instr("not", o, NoLoc)>>
    BY <1>5 DEF Unary
  <2>2. Written(Move(free, v, o, FALSE))
    BY TwoFree, NarrowMoveWritten
  <2> QED BY <1>2, <2>1, <2>2, WrittenBoth
<1> QED BY <1>3, <1>4, <1>5

LEMMA SpecialRegisters ==
  \A w \in Width, r \in {"RAX", "RDX", "RCX", "RBP", "RSP"} :
    /\ Reg(w, r) \in Place /\ Reg(w, r) \in Source
    /\ Reg(w, r).width = w /\ Reg(w, r).type = "REG"
<1>1. {"RAX", "RDX", "RCX", "RBP", "RSP"} \subseteq Regs
  BY DEF Regs
<1> QED BY <1>1, Made DEF Place, Source

LEMMA ModDivWritten ==
  ASSUME NEW free \in Scratches, NEW a \in Source, NEW b \in Place, NEW o \in Place,
         NEW sign \in BOOLEAN, NEW mod \in BOOLEAN, sign => a.width \in {4, 8}
  PROVE  Written(ModDiv(free, o, a, b, sign, mod))
<1> DEFINE one == Move(free, a, Reg(a.width, "RAX"), FALSE)
           two == CASE ~sign -> <<>>
                    [] sign /\ a.width \in {4, 8} ->
                         <<Instr("cqo", Reg(a.width, "RDX"), Reg(a.width, "RAX"))>>
                    [] OTHER -> Assertion
           three == <<Instr(IF sign THEN "idiv" ELSE "div", NoLoc, b)>>
           four == IF mod THEN Move(free, Reg(o.width, "RDX"), o, FALSE) ELSE <<>>
<1>0. a.width \in Width /\ o.width \in Width /\ a.width <= a.width /\ o.width <= o.width
  BY KindsOf, KindsOfPlace DEF Width
<1>1. Written(one)
  <2> DEFINE r == Reg(a.width, "RAX")
  <2>1. r \in Place /\ r.width = a.width /\ r.type = "REG"
    BY <1>0, SpecialRegisters
  <2> HIDE DEF r
  <2>2. Written(Move(free, a, r, FALSE))
    BY <1>0, <2>1, TwoFree, NarrowMoveWritten
  <2> QED BY <2>2 DEF r
<1>2. Written(two)
  <2>1. CASE sign
    <3>1. two = <<Instr("cqo", Reg(a.width, "RDX"), Reg(a.width, "RAX"))>>
      BY <2>1
    <3> QED BY <3>1, FreeEncodable
  <2>2. CASE ~sign
    BY <2>2, WrittenNone
  <2> QED BY <2>1, <2>2
<1>3. Written(three)
  BY DivEncodable
<1>4. Written(four)
  <2>1. CASE mod
    <3> DEFINE r == Reg(o.width, "RDX")
    <3>1. r \in Source /\ r.width = o.width /\ r.type = "REG"
      BY <1>0, SpecialRegisters
    <3> HIDE DEF r
    <3>2. Written(Move(free, r, o, FALSE))
      BY <1>0, <3>1, TwoFree, NarrowMoveWritten
    <3> QED BY <2>1, <3>2 DEF r
  <2>2. CASE ~mod
    BY <2>2, WrittenNone
  <2> QED BY <2>1, <2>2
<1>5. ModDiv(free, o, a, b, sign, mod) = one \o two \o three \o four
  BY DEF ModDiv
<1> HIDE DEF one, two, three, four
<1> QED BY <1>1, <1>2, <1>3, <1>4, <1>5, WrittenBoth

LEMMA ShiftWritten ==
  ASSUME NEW free \in Scratches, NEW a \in Place, NEW b \in Source, NEW op \in {"shl", "shr", "sar"}
  PROVE  Written(Shift(free, a, b, op))
<1> DEFINE r == Reg(1, "RCX")
<1>1. r \in Place /\ r.width = 1 /\ r.type = "REG" /\ b.width \in Width
  BY SpecialRegisters, KindsOf DEF Width
<1>2. Shift(free, a, b, op) = Move(free, b, r, FALSE) \o <<Instr(op, a, NoLoc)>>
  BY DEF Shift
<1> HIDE DEF r
<1>3. b.width >= r.width
  BY <1>1 DEF Width
<1>4. Written(Move(free, b, r, FALSE))
  BY <1>1, <1>3, TwoFree, NarrowMoveWritten
<1>5. Written(<<Instr(op, a, NoLoc)>>)
  BY OneEncodable
<1> QED BY <1>2, <1>4, <1>5, WrittenBoth

-----------------------------------------------------------------------------
(* Comparisons and what depends on them.                                   *)
Against(x, y, f) ==
  IF y.type = "IMM" /\ y.bits = 0 THEN <<Instr("cmp", x, Imm(x.width, 0))>>
  ELSE AsPrimitive(f, y, LAMBDA v, rest : <<Instr("cmp", x, v)>>)

LEMMA AgainstWritten ==
  ASSUME NEW f \in Seq(Regs), NEW x \in Place, NEW y \in Source, y.width = x.width,
         y.type = "MEM" => f # <<>>
  PROVE  Written(Against(x, y, f))
<1>1. /\ x.width \in Width /\ x.type \in {"REG", "MEM"}
      /\ y.type \in {"REG", "IMM", "MEM"}
  BY KindsOf, KindsOfPlace
<1>2. CASE y.type = "IMM" /\ y.bits = 0
  <2> DEFINE z == Imm(x.width, 0)
  <2>1. z \in Source /\ z.type = "IMM"
    BY <1>1, Made DEF Source
  <2>2. Against(x, y, f) = <<Instr("cmp", x, z)>>
    BY <1>2 DEF Against
  <2> HIDE DEF z
  <2> QED BY <2>1, <2>2, TwoEncodable
<1>3. CASE y.type = "MEM"
  <2> DEFINE s == Reg(y.width, Head(f))
  <2>1. s \in Source /\ s.type = "REG" /\ s.width = y.width
    BY <1>1, <1>3, FirstFree
  <2>2. Against(x, y, f) = SimpleMove(y, s, FALSE) \o <<Instr("cmp", x, s)>>
    BY <1>3 DEF Against, AsPrimitive, WithScratch
  <2>3. Written(SimpleMove(y, s, FALSE))
    BY <1>3, KindsOf, PrimitiveWritten
  <2> HIDE DEF s
  <2>4. Written(<<Instr("cmp", x, s)>>)
    BY <2>1, TwoEncodable
  <2> QED BY <2>2, <2>3, <2>4, WrittenBoth
<1>4. CASE y.type # "MEM" /\ ~(y.type = "IMM" /\ y.bits = 0)
  <2>1. Against(x, y, f) = <<Instr("cmp", x, y)>>
    BY <1>4 DEF Against, AsPrimitive
  <2> QED BY <1>4, <2>1, TwoEncodable
<1> QED BY <1>2, <1>3, <1>4

Compared2(a, y, f) ==
  IF a.type = "IMM"
  THEN WithScratch(f, a.width, LAMBDA s, rest : Move(rest, a, s, FALSE) \o Against(s, y, rest))
  ELSE Against(a, y, f)

LEMMA Compared2Written ==
  ASSUME NEW f \in Seq(Regs), f # <<>>, NEW a \in Source, NEW y \in Source, y.width = a.width,
         y.type = "MEM" => Len(f) >= 2
  PROVE  Written(Compared2(a, y, f))
<1>1. a.width \in Width /\ a.width <= a.width
  BY KindsOf DEF Width
<1>2. CASE a.type = "IMM"
  <2> DEFINE s == Reg(a.width, Head(f))
  <2>1. /\ s \in Place /\ s.type = "REG" /\ s.width = a.width /\ Tail(f) \in Seq(Regs)
        /\ (y.type = "MEM" => Tail(f) # <<>>)
    BY <1>1, FirstFree
  <2>2. Compared2(a, y, f) = Move(Tail(f), a, s, FALSE) \o Against(s, y, Tail(f))
    BY <1>2 DEF Compared2, WithScratch
  <2> HIDE DEF s
  <2>3. Written(Move(Tail(f), a, s, FALSE))
    BY <1>1, <2>1, NarrowMoveWritten
  <2>4. Written(Against(s, y, Tail(f)))
    BY <2>1, AgainstWritten
  <2> QED BY <2>2, <2>3, <2>4, WrittenBoth
<1>3. CASE a.type # "IMM"
  <2>1. a \in Place
    BY <1>3, KindsOf DEF Place
  <2>2. Compared2(a, y, f) = Against(a, y, f)
    BY <1>3 DEF Compared2
  <2> QED BY <2>1, <2>2, AgainstWritten
<1> QED BY <1>2, <1>3

LEMMA CmpWritten ==
  ASSUME NEW free \in Scratches, NEW a \in Source, NEW b \in Source
  PROVE  Written(Cmp(free, a, b))
<1> DEFINE w == a.width
<1>1. w \in Width /\ b.width \in Width /\ b.type \in {"REG", "IMM", "MEM"}
  BY KindsOf
<1>2. CASE b.width = w \/ b.type \in {"MEM", "IMM"} \/ b.width > w
  <2>1. Cmp(free, a, b) = Compared2(a, Fitted(b, w), free)
    <3>1. CASE b.width = w
      BY <3>1 DEF Cmp, AsSize, Compared2, Against, Fitted, WithScratch, AsPrimitive
    <3>2. CASE b.width # w
      <4> DEFINE y == [b EXCEPT !.width = w]
      <4>1. Cmp(free, a, b) = Compared2(a, y, free)
        BY <1>2, <3>2 DEF Cmp, AsSize, Compared2, Against, WithScratch, AsPrimitive
      <4> QED BY <3>2, <4>1 DEF Fitted
    <3> QED BY <3>1, <3>2
  <2>2. Fitted(b, w) \in Source /\ Fitted(b, w).width = w
    BY <1>1, FittedIs
  <2> QED BY <2>1, <2>2, TwoFree, Compared2Written
<1>3. CASE ~(b.width = w \/ b.type \in {"MEM", "IMM"} \/ b.width > w)
  <2> DEFINE s == Reg(w, Head(free))
  <2>1. s \in Source /\ s.type = "REG" /\ s.width = w
    BY <1>1, TwoFree, FirstFree
  <2>2. Cmp(free, a, b) = SimpleMove(s, b, FALSE) \o Compared2(a, s, Tail(free))
    BY <1>3, TwoFree DEF Cmp, AsSize, Compared2, Against, WithScratch
  <2> HIDE DEF s
  <2>3. b \in Place /\ s.width >= b.width
    BY <1>1, <1>3, <2>1, KindsOf DEF Place, Width
  <2>4. Reaches(s, b, FALSE)
    BY <2>1, <2>3, KindsOfPlace DEF Reaches, Given, InPlace
  <2>5. Written(SimpleMove(s, b, FALSE))
    BY <2>1, <2>3, <2>4, SimpleMoveWritten
  <2>6. Written(Compared2(a, s, Tail(free)))
    BY <2>1, TwoFree, Compared2Written
  <2> QED BY <2>2, <2>5, <2>6, WrittenBoth
<1> QED BY <1>2, <1>3

LEMMA StoreCondWritten ==
  ASSUME NEW free \in Scratches, NEW o \in Place, NEW cc \in ConditionCodes,
         o.width = 1 \/ o.type = "REG"
  PROVE  Written(StoreCond(free, o, cc))
<1>1. CASE o.width = 1
  <2>1. StoreCond(free, o, cc) = <<CondInstr("set", cc, o, NoLoc)>>
    BY <1>1 DEF StoreCond
  <2> QED BY <2>1, SetEncodable
<1>2. CASE o.width # 1
  <2> DEFINE s == Reg(1, Head(free))
  <2>1. s \in Place /\ s \in Source /\ s.type = "REG"
    BY TwoFree, FirstFree DEF Width
  <2>2. StoreCond(free, o, cc) = <<CondInstr("set", cc, s, NoLoc)>> \o Move(Tail(free), s, o, FALSE)
    BY <1>2, TwoFree DEF StoreCond, WithScratch
  <2> HIDE DEF s
  <2>3. Movable(s, o, FALSE)
    BY <1>2, <2>1, GivenIs, KindsOfPlace DEF Movable, Reaches
  <2>4. Written(Move(Tail(free), s, o, FALSE))
    BY <1>2, <2>1, <2>3, TwoFree, MoveWritten
  <2>5. Written(<<CondInstr("set", cc, s, NoLoc)>>)
    BY <2>1, SetEncodable
  <2> QED BY <2>2, <2>4, <2>5, WrittenBoth
<1> QED BY <1>1, <1>2

LEMMA CondMoveWritten ==
  ASSUME NEW src \in Place, NEW o \in RegOp, src.width = o.width, NEW cc \in ConditionCodes
  PROVE  Written(CondMove(src, o, cc))
<1>1. src.type # "INVALID"
  BY KindsOfPlace
<1>2. CondMove(src, o, cc) = <<CondInstr("cmov", cc, o, src)>>
  BY <1>1 DEF CondMove
<1> QED BY <1>2, CmovEncodable

-----------------------------------------------------------------------------
(* Memory.                                                                 *)
LEMMA Pointed ==
  ASSUME NEW p \in RegOp \cup ImmOp, NEW w \in Width
  PROVE  /\ Mem(w, p) \in MemOp /\ Mem(w, p) \in Place /\ Mem(w, p) \in Source
         /\ Mem(w, p).type = "MEM" /\ Mem(w, p).width = w
<1>1. p.type \in {"REG", "IMM"}
  BY Kinds
<1>2. p \in Address
  BY <1>1 DEF Address, AddressEncodable
<1> QED BY <1>2, Made DEF Place, Source

LEMMA FetchedWritten ==
  ASSUME NEW f \in Seq(Regs), f # <<>>, NEW p \in RegOp \cup ImmOp, NEW o \in Place
  PROVE  Written(Move(f, Mem(o.width, p), o, FALSE))
<1> DEFINE l == Mem(o.width, p)
<1>1. o.width \in Width /\ o.width <= o.width
  BY KindsOfPlace DEF Width
<1>2. l \in Source /\ l.width = o.width
  BY <1>1, Pointed
<1> HIDE DEF l
<1>3. Written(Move(f, l, o, FALSE))
  BY <1>1, <1>2, NarrowMoveWritten
<1> QED BY <1>3 DEF l

LEMMA PutWritten ==
  ASSUME NEW f \in Seq(Regs), f # <<>>, NEW p \in RegOp \cup ImmOp, NEW val \in Source \cup {Invalid}
  PROVE  Written(Move(f, val, Mem(val.width, p), FALSE))
<1>1. CASE val = Invalid
  BY <1>1, MoveWritten DEF Movable
<1>2. CASE val \in Source
  <2> DEFINE l == Mem(val.width, p)
  <2>1. val.width \in Width /\ val.width <= val.width
    BY <1>2, KindsOf DEF Width
  <2>2. l \in Place /\ l.width = val.width
    BY <2>1, Pointed
  <2> HIDE DEF l
  <2>3. Written(Move(f, val, l, FALSE))
    BY <1>2, <2>1, <2>2, NarrowMoveWritten
  <2> QED BY <2>3 DEF l
<1> QED BY <1>1, <1>2

LEMMA LoadWritten ==
  ASSUME NEW free \in Scratches, NEW addr \in Source, NEW o \in Place
  PROVE  Written(Load(free, addr, o))
<1>1. CASE addr.type = "MEM"
  <2> DEFINE s == Reg(addr.width, Head(free))
  <2>1. s \in RegOp
    BY KindsOf, TwoFree, FirstFree
  <2>2. Load(free, addr, o) = SimpleMove(addr, s, FALSE) \o Move(Tail(free), Mem(o.width, s), o, FALSE)
    BY <1>1, TwoFree DEF Load, AsPrimitive, WithScratch
  <2>3. Written(SimpleMove(addr, s, FALSE))
    BY <1>1, KindsOf, TwoFree, PrimitiveWritten
  <2> HIDE DEF s
  <2>4. Written(Move(Tail(free), Mem(o.width, s), o, FALSE))
    BY <2>1, TwoFree, FetchedWritten
  <2> QED BY <2>2, <2>3, <2>4, WrittenBoth
<1>2. CASE addr.type # "MEM"
  <2>1. addr \in RegOp \cup ImmOp
    BY <1>2, KindsOf
  <2>2. Load(free, addr, o) = Move(free, Mem(o.width, addr), o, FALSE)
    BY <1>2 DEF Load, AsPrimitive
  <2> QED BY <2>1, <2>2, TwoFree, FetchedWritten
<1> QED BY <1>1, <1>2

LEMMA StoreWritten ==
  ASSUME NEW free \in Scratches, NEW addr \in Source, NEW val \in Source \cup {Invalid}
  PROVE  Written(Store(free, addr, val))
<1>1. CASE addr.type = "MEM"
  <2> DEFINE s == Reg(addr.width, Head(free))
  <2>1. s \in RegOp
    BY KindsOf, TwoFree, FirstFree
  <2>2. Store(free, addr, val) =
          SimpleMove(addr, s, FALSE) \o Move(Tail(free), val, Mem(val.width, s), FALSE)
    BY <1>1, TwoFree DEF Store, AsPrimitive, WithScratch
  <2>3. Written(SimpleMove(addr, s, FALSE))
    BY <1>1, KindsOf, TwoFree, PrimitiveWritten
  <2> HIDE DEF s
  <2>4. Written(Move(Tail(free), val, Mem(val.width, s), FALSE))
    BY <2>1, TwoFree, PutWritten
  <2> QED BY <2>2, <2>3, <2>4, WrittenBoth
<1>2. CASE addr.type # "MEM"
  <2>1. addr \in RegOp \cup ImmOp
    BY <1>2, KindsOf
  <2>2. Store(free, addr, val) = Move(free, val, Mem(val.width, addr), FALSE)
    BY <1>2 DEF Store, AsPrimitive
  <2> QED BY <2>1, <2>2, TwoFree, PutWritten
<1> QED BY <1>1, <1>2

-----------------------------------------------------------------------------
(* Addresses of three parts.  What is done with one: it is the source of a *)
(* move, or it is where to load from or store to.                          *)
EaBody(kind, l, ea, rest) ==
  CASE kind = "ea" -> Move(rest, ea, l, FALSE)
    [] kind = "load" -> Move(rest, Mem(l.width, ea), l, FALSE)
    [] kind = "store" -> Move(rest, l, Mem(l.width, ea), FALSE)

EaUse(kind, l) ==
  \/ kind = "ea" /\ l \in Place /\ l.width # 1
  \/ kind = "load" /\ l \in Place
  \/ kind = "store" /\ l \in Source \cup {Invalid}

LEMMA EaBodyWritten ==
  ASSUME NEW kind, NEW l, EaUse(kind, l), NEW ea \in EaOp, AddressEncodable(ea),
         NEW f \in Seq(Regs), f # <<>>
  PROVE  Written(EaBody(kind, l, ea, f))
<1>1. CASE kind = "ea"
  <2>1. l \in Place /\ l.width # 1
    BY <1>1 DEF EaUse
  <2>2. Movable(ea, l, FALSE)
    BY <2>1 DEF Movable
  <2>3. EaBody(kind, l, ea, f) = Move(f, ea, l, FALSE)
    BY <1>1 DEF EaBody
  <2> QED BY <2>2, <2>3, MoveWritten
<1> ea \in Address
  BY DEF Address
<1>2. \A w \in Width : /\ Mem(w, ea) \in Place /\ Mem(w, ea) \in Source /\ Mem(w, ea).width = w
  BY Made DEF Place, Source
<1>3. CASE kind = "load"
  <2> DEFINE m == Mem(l.width, ea)
  <2>1. l \in Place /\ l.width \in Width /\ l.width <= l.width
    BY <1>3, KindsOfPlace DEF EaUse, Width
  <2>2. m \in Source /\ m.width = l.width
    BY <1>2, <2>1
  <2>3. EaBody(kind, l, ea, f) = Move(f, m, l, FALSE)
    BY <1>3 DEF EaBody
  <2> HIDE DEF m
  <2> QED BY <2>1, <2>2, <2>3, NarrowMoveWritten
<1>4. CASE kind = "store"
  <2> DEFINE m == Mem(l.width, ea)
  <2>1. EaBody(kind, l, ea, f) = Move(f, l, m, FALSE)
    BY <1>4 DEF EaBody
  <2>2. CASE l = Invalid
    <3> HIDE DEF m
    <3> QED BY <2>1, <2>2, MoveWritten DEF Movable
  <2>3. CASE l \in Source
    <3>1. l.width \in Width /\ l.width <= l.width
      BY <2>3, KindsOf DEF Width
    <3>2. m \in Place /\ m.width = l.width
      BY <1>2, <3>1
    <3> HIDE DEF m
    <3> QED BY <2>1, <2>3, <3>1, <3>2, NarrowMoveWritten
  <2> QED BY <1>4, <2>2, <2>3 DEF EaUse
<1> QED BY <1>1, <1>3, <1>4 DEF EaUse

LEMMA ScaledAddress ==
  ASSUME NEW x \in RegOp \cup ImmOp, NEW y \in Part, NEW z \in Part,
         y.type = "REG" => z = NoLoc \/ Scale(z),
         z.type = "REG" => Scale(y)
  PROVE  Ea(8, x, 1, y, z) \in EaOp /\ AddressEncodable(Ea(8, x, 1, y, z))
<1>1. /\ x.type \in {"REG", "IMM"} /\ y.type \in {"REG", "IMM", "NONE"}
      /\ z.type \in {"REG", "IMM", "NONE"}
  BY Kinds DEF Part, NoLoc
<1>2. Ea(8, x, 1, y, z) \in EaOp
  BY DEF Ea, EaOp, Width
<1>3. NoLoc.type = "NONE"
  BY DEF NoLoc
<1>4. AddressEncodable(Ea(8, x, 1, y, z))
  BY <1>1, <1>3 DEF Ea, AddressEncodable, Scale
<1> QED BY <1>2, <1>4

AtEa(free, base, idx, elsize, kind, l) ==
  WithEa(free, base, idx, elsize, LAMBDA ea, rest : EaBody(kind, l, ea, rest))

LEMMA AtEaPlain ==
  ASSUME NEW free, NEW base, NEW idx, NEW elsize, NEW kind, NEW l,
         base.type # "MEM", idx.type # "MEM", elsize.type # "MEM",
         Written(EaBody(kind, l, Ea(8, base, 1, idx, elsize), free))
  PROVE  Written(AtEa(free, base, idx, elsize, kind, l))
<1>1. AtEa(free, base, idx, elsize, kind, l) = EaBody(kind, l, Ea(8, base, 1, idx, elsize), free)
  BY DEF AtEa, WithEa, AsPrimitive
<1> QED BY <1>1

LEMMA AtEaBase ==
  ASSUME NEW free, free # <<>>, NEW base, NEW idx, NEW elsize, NEW kind, NEW l,
         base.type = "MEM", idx.type # "MEM", elsize.type # "MEM",
         Written(SimpleMove(base, Reg(base.width, Head(free)), FALSE)),
         Written(EaBody(kind, l, Ea(8, Reg(base.width, Head(free)), 1, idx, elsize), Tail(free)))
  PROVE  Written(AtEa(free, base, idx, elsize, kind, l))
<1>1. AtEa(free, base, idx, elsize, kind, l) =
        SimpleMove(base, Reg(base.width, Head(free)), FALSE) \o
        EaBody(kind, l, Ea(8, Reg(base.width, Head(free)), 1, idx, elsize), Tail(free))
  BY DEF AtEa, WithEa, AsPrimitive, WithScratch
<1> QED BY <1>1, WrittenBoth

LEMMA AtEaIdx ==
  ASSUME NEW free, free # <<>>, NEW base, NEW idx, NEW elsize, NEW kind, NEW l,
         base.type # "MEM", idx.type = "MEM", elsize.type # "MEM",
         Written(SimpleMove(idx, Reg(idx.width, Head(free)), FALSE)),
         Written(EaBody(kind, l, Ea(8, base, 1, Reg(idx.width, Head(free)), elsize), Tail(free)))
  PROVE  Written(AtEa(free, base, idx, elsize, kind, l))
<1>1. AtEa(free, base, idx, elsize, kind, l) =
        SimpleMove(idx, Reg(idx.width, Head(free)), FALSE) \o
        EaBody(kind, l, Ea(8, base, 1, Reg(idx.width, Head(free)), elsize), Tail(free))
  BY DEF AtEa, WithEa, AsPrimitive, WithScratch
<1> QED BY <1>1, WrittenBoth

LEMMA AtEaElsize ==
  ASSUME NEW free, free # <<>>, NEW base, NEW idx, NEW elsize, NEW kind, NEW l,
         base.type # "MEM", idx.type # "MEM", elsize.type = "MEM",
         Written(SimpleMove(elsize, Reg(elsize.width, Head(free)), FALSE)),
         Written(EaBody(kind, l, Ea(8, base, 1, idx, Reg(elsize.width, Head(free))), Tail(free)))
  PROVE  Written(AtEa(free, base, idx, elsize, kind, l))
<1>1. AtEa(free, base, idx, elsize, kind, l) =
        SimpleMove(elsize, Reg(elsize.width, Head(free)), FALSE) \o
        EaBody(kind, l, Ea(8, base, 1, idx, Reg(elsize.width, Head(free))), Tail(free))
  BY DEF AtEa, WithEa, AsPrimitive, WithScratch
<1> QED BY <1>1, WrittenBoth

LEMMA OneInMemory ==
  ASSUME NEW x, NEW y, NEW z, \A m, n \in InMemory(<<x, y, z>>) : m = n
  PROVE  /\ ~(x.type = "MEM" /\ y.type = "MEM") /\ ~(x.type = "MEM" /\ z.type = "MEM")
         /\ ~(y.type = "MEM" /\ z.type = "MEM")
<1> DEFINE s == <<x, y, z>>
<1>1. s[1] = x /\ s[2] = y /\ s[3] = z /\ DOMAIN s = {1, 2, 3}
  OBVIOUS
<1> HIDE DEF s
<1> QED BY <1>1 DEF InMemory, s

LEMMA AtEaWritten ==
  ASSUME NEW free \in Scratches, NEW base \in Source, NEW idx \in Source \cup {NoLoc},
         NEW elsize \in Source \cup {NoLoc}, Addresses(base, idx, elsize),
         NEW kind, NEW l, EaUse(kind, l)
  PROVE  Written(AtEa(free, base, idx, elsize, kind, l))
<1>1. /\ ~(base.type = "MEM" /\ idx.type = "MEM") /\ ~(base.type = "MEM" /\ elsize.type = "MEM")
      /\ ~(idx.type = "MEM" /\ elsize.type = "MEM")
  BY OneInMemory DEF Addresses
<1>12. free # <<>> /\ Tail(free) \in Seq(Regs) /\ Tail(free) # <<>> /\ free \in Seq(Regs)
  BY TwoFree
<1>2. NoLoc.type = "NONE" /\ ~InPlace(NoLoc)
  BY DEF NoLoc, InPlace
<1>3. /\ InPlace(idx) => elsize = NoLoc \/ Scale(elsize)
      /\ InPlace(elsize) => Scale(idx)
  BY DEF Addresses
<1>4. \A x \in Source : x.type # "MEM" => x \in RegOp \cup ImmOp
  BY KindsOf
<1>5. /\ idx.type # "MEM" => idx \in Part
      /\ elsize.type # "MEM" => elsize \in Part
  BY <1>4 DEF Part
<1>13. /\ idx.type = "REG" => elsize = NoLoc \/ Scale(elsize)
       /\ idx.type = "MEM" => elsize = NoLoc \/ Scale(elsize)
       /\ elsize.type = "REG" => Scale(idx)
       /\ elsize.type = "MEM" => Scale(idx)
  BY <1>3 DEF InPlace
<1>6. \A x : x.type = "MEM" => ~Scale(x) /\ x # NoLoc
  BY <1>2 DEF Scale
<1>7. \A x \in Source \cup {NoLoc} : x.type = "MEM" =>
        /\ Written(SimpleMove(x, Reg(x.width, Head(free)), FALSE))
        /\ Reg(x.width, Head(free)) \in RegOp /\ Reg(x.width, Head(free)).type = "REG"
  BY <1>2, KindsOf, TwoFree, PrimitiveWritten, FirstFree
<1>8. CASE base.type # "MEM" /\ idx.type # "MEM" /\ elsize.type # "MEM"
  <2> DEFINE ea == Ea(8, base, 1, idx, elsize)
  <2>1. ea \in EaOp /\ AddressEncodable(ea)
    <3>1. base \in RegOp \cup ImmOp
      BY <1>4, <1>8
    <3>2. idx \in Part /\ elsize \in Part
      BY <1>5, <1>8
    <3>3. /\ idx.type = "REG" => elsize = NoLoc \/ Scale(elsize)
          /\ elsize.type = "REG" => Scale(idx)
      BY <1>13
    <3> QED BY <3>1, <3>2, <3>3, ScaledAddress
  <2>2. Written(EaBody(kind, l, ea, free))
    <3> HIDE DEF ea
    <3> QED BY <2>1, TwoFree, EaBodyWritten
  <2> QED BY <1>8, <2>2, AtEaPlain
<1>9. CASE base.type = "MEM"
  <2> DEFINE s == Reg(base.width, Head(free))
             ea == Ea(8, s, 1, idx, elsize)
  <2>4. idx.type # "MEM" /\ elsize.type # "MEM"
    BY <1>1, <1>9
  <2>1. s \in RegOp /\ s.type = "REG" /\ Written(SimpleMove(base, s, FALSE))
    BY <1>7, <1>9
  <2>2. ea \in EaOp /\ AddressEncodable(ea)
    <3> HIDE DEF s
    <3>1. idx \in Part /\ elsize \in Part
      BY <2>4, <1>5
    <3>2. /\ idx.type = "REG" => elsize = NoLoc \/ Scale(elsize)
          /\ elsize.type = "REG" => Scale(idx)
      BY <1>13
    <3> QED BY <2>1, <3>1, <3>2, ScaledAddress
  <2>3. Written(EaBody(kind, l, ea, Tail(free)))
    <3> HIDE DEF ea
    <3> QED BY <2>2, TwoFree, EaBodyWritten
  <2> QED BY <1>12, <1>9, <2>4, <2>1, <2>3, AtEaBase
<1>10. CASE idx.type = "MEM"
  <2> DEFINE s == Reg(idx.width, Head(free))
             ea == Ea(8, base, 1, s, elsize)
  <2>4. base.type # "MEM" /\ elsize.type # "MEM"
    BY <1>1, <1>10
  <2>1. s \in RegOp /\ s.type = "REG" /\ Written(SimpleMove(idx, s, FALSE))
    BY <1>7, <1>10
  <2>2. ea \in EaOp /\ AddressEncodable(ea)
    <3> HIDE DEF s
    <3>1. elsize = NoLoc \/ Scale(elsize)
      BY <1>13, <1>10
    <3>2. s \in Part /\ elsize \in Part /\ base \in RegOp \cup ImmOp
      BY <2>4, <1>4, <1>5, <2>1 DEF Part
    <3>3. elsize.type # "REG"
      BY <1>2, <3>1 DEF Scale
    <3> QED BY <2>1, <3>1, <3>2, <3>3, ScaledAddress
  <2>3. Written(EaBody(kind, l, ea, Tail(free)))
    <3> HIDE DEF ea
    <3> QED BY <2>2, TwoFree, EaBodyWritten
  <2> QED BY <1>12, <1>10, <2>4, <2>1, <2>3, AtEaIdx
<1>11. CASE elsize.type = "MEM"
  <2> DEFINE s == Reg(elsize.width, Head(free))
             ea == Ea(8, base, 1, idx, s)
  <2>4. base.type # "MEM" /\ idx.type # "MEM"
    BY <1>1, <1>11
  <2>1. s \in RegOp /\ s.type = "REG" /\ Written(SimpleMove(elsize, s, FALSE))
    BY <1>7, <1>11
  <2>2. ea \in EaOp /\ AddressEncodable(ea)
    <3> HIDE DEF s
    <3>1. Scale(idx)
      BY <1>13, <1>11
    <3>2. s \in Part /\ idx \in Part /\ base \in RegOp \cup ImmOp
      BY <2>4, <1>4, <1>5, <2>1 DEF Part
    <3>3. idx.type # "REG"
      BY <3>1 DEF Scale
    <3> QED BY <2>1, <3>1, <3>2, <3>3, ScaledAddress
  <2>3. Written(EaBody(kind, l, ea, Tail(free)))
    <3> HIDE DEF ea
    <3> QED BY <2>2, TwoFree, EaBodyWritten
  <2> QED BY <1>12, <1>11, <2>4, <2>1, <2>3, AtEaElsize
<1> QED BY <1>8, <1>9, <1>10, <1>11

-----------------------------------------------------------------------------
(* When instruction selection makes one address of the three parts. *)
OneAddress(base, idx, elsize) ==
  /\ \A m, n \in InMemory(<<base, idx, elsize>>) : m = n
  /\ OneFactor(idx, elsize)

LEMMA OneNotImm ==
  ASSUME NEW y, NEW z
  PROVE  OneFactor(y, z) <=> (y.type \in {"IMM", "NONE"} \/ z.type \in {"IMM", "NONE"})
<1> DEFINE s == <<y, z>>
<1>1. s[1] = y /\ s[2] = z /\ DOMAIN s = {1, 2}
  OBVIOUS
<1> HIDE DEF s
<1> QED BY <1>1 DEF OneFactor, NotImm, s

LEMMA AddressIsOne ==
  ASSUME NEW base \in Source, NEW idx \in Source \cup {NoLoc}, NEW elsize \in Source \cup {NoLoc},
         Addresses(base, idx, elsize)
  PROVE  OneAddress(base, idx, elsize)
<1>1. idx.type \in {"REG", "IMM", "MEM", "NONE"}
  BY KindsOf DEF NoLoc
<1>2. NoLoc.type = "NONE"
  BY DEF NoLoc
<1>3. CASE idx.type \in {"IMM", "NONE"}
  BY <1>3, OneNotImm DEF Addresses, OneAddress
<1>4. CASE idx.type \in {"REG", "MEM"}
  <2>1. elsize = NoLoc \/ Scale(elsize)
    BY <1>4 DEF Addresses, InPlace
  <2>2. elsize.type \in {"IMM", "NONE"}
    BY <1>2, <2>1 DEF Scale
  <2> QED BY <2>2, OneNotImm DEF Addresses, OneAddress
<1> QED BY <1>1, <1>3, <1>4

(* An address that is moved to o. *)
EaMoved(free, base, idx, elsize, o) ==
  WithEa(free, base, idx, elsize, LAMBDA ea, rest : Move(rest, ea, o, FALSE))

LEMMA EaUsesWritten ==
  ASSUME NEW free \in Scratches, NEW base \in Source, NEW idx \in Source \cup {NoLoc},
         NEW elsize \in Source \cup {NoLoc}, Addresses(base, idx, elsize)
  PROVE  /\ \A o \in Place : Written(LoadEa(free, base, idx, elsize, o))
         /\ \A val \in Source \cup {Invalid} : Written(StoreEa(free, base, idx, elsize, val))
         /\ \A o \in Place : o.width # 1 => Written(EaMoved(free, base, idx, elsize, o))
<1>0. OneFactor(idx, elsize)
  BY AddressIsOne DEF OneAddress
<1>1. \A o : LoadEa(free, base, idx, elsize, o) = AtEa(free, base, idx, elsize, "load", o)
  <2> TAKE o
  <2>1. \A ea, rest : EaBody("load", o, ea, rest) = Move(rest, Mem(o.width, ea), o, FALSE)
    BY DEF EaBody
  <2> QED BY <1>0, <2>1, Zenon DEF LoadEa, AtEa, WithEa, AsPrimitive, WithScratch
<1>2. \A val : StoreEa(free, base, idx, elsize, val) = AtEa(free, base, idx, elsize, "store", val)
  <2> TAKE val
  <2>1. \A ea, rest : EaBody("store", val, ea, rest) = Move(rest, val, Mem(val.width, ea), FALSE)
    BY DEF EaBody
  <2> QED BY <1>0, <2>1, Zenon DEF StoreEa, AtEa, WithEa, AsPrimitive, WithScratch
<1>3. \A o : EaMoved(free, base, idx, elsize, o) = AtEa(free, base, idx, elsize, "ea", o)
  <2> TAKE o
  <2>1. \A ea, rest : EaBody("ea", o, ea, rest) = Move(rest, ea, o, FALSE)
    BY DEF EaBody
  <2> QED BY <2>1, Zenon DEF EaMoved, AtEa, WithEa, AsPrimitive, WithScratch
<1>4. \A o \in Place : EaUse("load", o) /\ (o.width # 1 => EaUse("ea", o))
  BY DEF EaUse
<1>5. \A val \in Source \cup {Invalid} : EaUse("store", val)
  BY DEF EaUse
<1>6. \A kind, l : EaUse(kind, l) => Written(AtEa(free, base, idx, elsize, kind, l))
  BY AtEaWritten
<1> QED BY <1>1, <1>2, <1>3, <1>4, <1>5, <1>6

-----------------------------------------------------------------------------
(* Sums of three parts. *)
LEMMA OneIsAddress ==
  ASSUME NEW base \in Source, NEW idx \in Source \cup {NoLoc}, NEW elsize \in Source \cup {NoLoc},
         NEW o \in Place, Adds(base, idx, elsize, o), OneAddress(base, idx, elsize)
  PROVE  Addresses(base, idx, elsize)
<1>1. CASE elsize = NoLoc /\ Computes(base, idx, o, "add")
  <2>1. Given(base) /\ Given(idx)
    BY <1>1 DEF Computes
  <2>2. ~InPlace(elsize)
    BY <1>1 DEF InPlace, NoLoc
  <2> QED BY <1>1, <2>1, <2>2 DEF Addresses, OneAddress
<1>2. ~(InPlace(idx) /\ InPlace(elsize))
  <2>1. idx.type \in {"IMM", "NONE"} \/ elsize.type \in {"IMM", "NONE"}
    BY OneNotImm DEF OneAddress
  <2> QED BY <2>1 DEF InPlace
<1>3. ~(base.type = "MEM" /\ "MEM" \in {idx.type, elsize.type})
  <2>1. ~(base.type = "MEM" /\ idx.type = "MEM") /\ ~(base.type = "MEM" /\ elsize.type = "MEM")
    BY OneInMemory DEF OneAddress
  <2> QED BY <2>1
<1> QED BY <1>1, <1>2, <1>3 DEF Adds

LEMMA EaIntoIs ==
  ASSUME NEW free, free # <<>>, NEW base, NEW idx, NEW elsize, NEW o
  PROVE  /\ OneAddress(base, idx, elsize) =>
              EaInto(free, base, idx, elsize, o) = EaMoved(free, base, idx, elsize, o)
         /\ ~OneAddress(base, idx, elsize) /\ elsize = NoLoc =>
              EaInto(free, base, idx, elsize, o) = Binary(free, base, idx, o, "add")
         /\ ~OneAddress(base, idx, elsize) /\ elsize # NoLoc =>
              EaInto(free, base, idx, elsize, o) =
                Binary(Tail(free), idx, elsize, Reg(o.width, Head(free)), "imul") \o
                Binary(Tail(free), base, Reg(o.width, Head(free)), o, "add")
<1>1. OneAddress(base, idx, elsize) =>
        EaInto(free, base, idx, elsize, o) = EaMoved(free, base, idx, elsize, o)
  BY DEF EaInto, EaMoved, OneAddress, WithEa, AsPrimitive, WithScratch
<1>2. ~OneAddress(base, idx, elsize) /\ elsize = NoLoc =>
        EaInto(free, base, idx, elsize, o) = Binary(free, base, idx, o, "add")
  BY DEF EaInto, OneAddress, WithEa, AsPrimitive, WithScratch
<1>3. ~OneAddress(base, idx, elsize) /\ elsize # NoLoc =>
        EaInto(free, base, idx, elsize, o) =
          Binary(Tail(free), idx, elsize, Reg(o.width, Head(free)), "imul") \o
          Binary(Tail(free), base, Reg(o.width, Head(free)), o, "add")
  BY DEF EaInto, SumInto, OneAddress, WithEa, AsPrimitive, WithScratch
<1> QED BY <1>1, <1>2, <1>3

LEMMA EaIntoWritten ==
  ASSUME NEW free \in Scratches, NEW base \in Source, NEW idx \in Source \cup {NoLoc},
         NEW elsize \in Source \cup {NoLoc}, NEW o \in Place, o.width # 1,
         Adds(base, idx, elsize, o)
  PROVE  Written(EaInto(free, base, idx, elsize, o))
<1>1. free # <<>> /\ free \in Seq(Regs) /\ Tail(free) # <<>> /\ Tail(free) \in Seq(Regs)
  BY TwoFree
<1>2. CASE OneAddress(base, idx, elsize)
  <2>1. Addresses(base, idx, elsize)
    BY <1>2, OneIsAddress
  <2>2. Written(EaMoved(free, base, idx, elsize, o))
    BY <2>1, EaUsesWritten
  <2>3. EaInto(free, base, idx, elsize, o) = EaMoved(free, base, idx, elsize, o)
    BY <1>1, <1>2, EaIntoIs
  <2> QED BY <2>2, <2>3
<1>3. CASE ~OneAddress(base, idx, elsize) /\ elsize = NoLoc
  <2>1. Computes(base, idx, o, "add")
    <3>1. ~Given(NoLoc)
      BY DEF Given, NoLoc
    <3>2. ~Addresses(base, idx, elsize)
      BY <1>3, AddressIsOne
    <3> QED BY <1>3, <3>1, <3>2 DEF Adds, Computes
  <2>2. idx \in Source
    <3>1. idx # NoLoc
      BY <2>1 DEF Computes, Given, NoLoc
    <3> QED BY <3>1
  <2>3. Written(Binary(free, base, idx, o, "add"))
    BY <2>1, <2>2, TwoFree, BinaryWritten DEF TwoOperand
  <2>4. EaInto(free, base, idx, elsize, o) = Binary(free, base, idx, o, "add")
    BY <1>1, <1>3, EaIntoIs
  <2> QED BY <2>3, <2>4
<1>4. CASE ~OneAddress(base, idx, elsize) /\ elsize # NoLoc
  <2> DEFINE s == Reg(o.width, Head(free))
             t == Reg(o.width, "RAX")
  <2>1. s \in Place /\ s \in Source /\ s.type = "REG" /\ s.width = o.width
    BY <1>1, FirstFree, KindsOfPlace
  <2>2. t.type = "REG" /\ t.width = o.width
    BY DEF Reg
  <2>3. EaInto(free, base, idx, elsize, o) =
          Binary(Tail(free), idx, elsize, s, "imul") \o Binary(Tail(free), base, s, o, "add")
    BY <1>1, <1>4, EaIntoIs
  <2>4. /\ Given(base) /\ base.width >= o.width /\ Computes(idx, elsize, t, "imul")
        /\ ~(idx.type = "MEM" /\ elsize.type = "MEM")
    <3>1. ~Addresses(base, idx, elsize)
      BY <1>4, AddressIsOne
    <3> QED BY <1>4, <3>1 DEF Adds
  <2> HIDE DEF s, t
  <2>5. Computes(idx, elsize, s, "imul") /\ Computes(base, s, o, "add")
    <3>1. o.type \in {"REG", "MEM"} /\ o.width \in Nat
      BY KindsOfPlace DEF Width
    <3> QED BY <2>1, <2>2, <2>4, <3>1 DEF Computes, Given, InPlace
  <2>6. idx \in Source /\ elsize \in Source
    <3>1. idx # NoLoc
      BY <2>4 DEF Computes, Given, NoLoc
    <3> QED BY <1>4, <3>1
  <2>7. Written(Binary(Tail(free), idx, elsize, s, "imul"))
    BY <1>1, <2>1, <2>4, <2>5, <2>6, BinaryWritten DEF TwoOperand
  <2>8. Written(Binary(Tail(free), base, s, o, "add"))
    BY <1>1, <2>1, <2>5, BinaryWritten DEF TwoOperand
  <2> QED BY <2>3, <2>7, <2>8, WrittenBoth
<1> QED BY <1>2, <1>3, <1>4

-----------------------------------------------------------------------------
(* Instructions for one thing after the other.                             *)
LEMMA CountingUp ==
  ASSUME NEW N \in Nat, NEW S, 0 \in S, \A n \in 1 .. N : n - 1 \in S => n \in S
  PROVE  \A n \in 0 .. N : n \in S
<1> DEFINE Bad == {m \in 0 .. N : m \notin S}
           R == {ss \in Nat \X Nat : ss[1] < ss[2]}
<1>1. SUFFICES ASSUME Bad # {} PROVE FALSE
  OBVIOUS
<1>2. PICK m \in Bad : \A k \in Bad : ~ (<<k, m>> \in R)
  <2>1. IsWellFoundedOn(R, Nat)
    BY NatLessThanWellFounded DEF OpToRel
  <2>2. Bad \subseteq Nat
    OBVIOUS
  <2> HIDE DEF R, Bad
  <2> QED BY <1>1, <2>1, <2>2, WFMin
<1>3. m \in 1 .. N /\ m - 1 \in 0 .. N /\ <<m - 1, m>> \in R
  OBVIOUS
<1>4. m - 1 \in S
  <2> HIDE DEF R
  <2> QED BY <1>2, <1>3
<1> QED BY <1>3, <1>4

(* A step that only looks at what has a lower rank has a fixed point.      *)
Descends(D, S, N, rank, step) ==
  /\ N \in Nat /\ rank \in [D -> 0 .. N] /\ step \in [D \X [D -> S] -> S]
  /\ \A c \in D : \A f, g \in [D -> S] :
       (\A d \in D : rank[d] < rank[c] => f[d] = g[d]) => step[<<c, f>>] = step[<<c, g>>]

FixedPoint(D, S, step, h) == h \in [D -> S] /\ \A c \in D : h[c] = step[<<c, h>>]

LEMMA RecursionExists ==
  ASSUME NEW D, NEW S, S # {}, NEW N, NEW rank, NEW step,
         Descends(D, S, N, rank, step)
  PROVE  \E h : FixedPoint(D, S, step, h)
<1> USE DEF Descends
<1> DEFINE start == CHOOSE e : e \in S
<1> DEFINE Upto(n, h) == \A c \in D : rank[c] < n => h[c] = step[<<c, h>>]
           Good == {n \in 0 .. N + 1 : \E h \in [D -> S] : Upto(n, h)}
<1>1. 0 \in Good
  <2> DEFINE g == [d \in D |-> start]
  <2>1. g \in [D -> S] /\ 0 \in 0 .. N + 1
    <3>1. start \in S
      OBVIOUS
    <3> HIDE DEF start
    <3> QED BY <3>1
  <2>2. \A c \in D : ~ (rank[c] < 0)
    OBVIOUS
  <2> HIDE DEF g
  <2>3. Upto(0, g)
    BY <2>2
  <2> QED BY <2>1, <2>3
<1>2. ASSUME NEW n \in 1 .. N + 1, n - 1 \in Good
      PROVE  n \in Good
  <2>1. PICK h \in [D -> S] : Upto(n - 1, h)
    BY <1>2
  <2> DEFINE g == [c \in D |-> step[<<c, h>>]]
  <2>2. g \in [D -> S]
    OBVIOUS
  <2>3. ASSUME NEW c \in D, rank[c] < n
        PROVE  g[c] = step[<<c, g>>]
    <3>1. \A d \in D : rank[d] < rank[c] => h[d] = g[d]
      <4> SUFFICES ASSUME NEW d \in D, rank[d] < rank[c]
                   PROVE  h[d] = g[d]
        OBVIOUS
      <4>1. rank[d] < n - 1
        <5>1. rank[d] \in Nat /\ rank[c] \in Nat /\ n \in Nat
          OBVIOUS
        <5> QED BY <5>1, <2>3
      <4>2. h[d] = step[<<d, h>>]
        BY <2>1, <4>1
      <4> QED BY <4>2
    <3>2. step[<<c, h>>] = step[<<c, g>>]
      <4> HIDE DEF g
      <4> QED BY <2>2, <3>1
    <3> QED BY <3>2
  <2> HIDE DEF g
  <2> QED BY <2>2, <2>3
<1>3. N + 1 \in Good
  <2>1. \A n \in 0 .. N + 1 : n \in Good
    <3> HIDE DEF Good
    <3> QED BY <1>1, <1>2, CountingUp
  <2> HIDE DEF Good
  <2> QED BY <2>1
<1>4. PICK h \in [D -> S] : Upto(N + 1, h)
  BY <1>3
<1>5. \A c \in D : rank[c] < N + 1
  OBVIOUS
<1>6. FixedPoint(D, S, step, h)
  BY <1>4, <1>5 DEF FixedPoint
<1> QED BY <1>6

LEMMA Flattened ==
  ASSUME NEW X, NEW ss \in Seq(Seq(X))
  PROVE  FlattenSeq(ss) \in Seq(X)
<1>1. CASE Len(ss) = 0
  BY <1>1 DEF FlattenSeq
<1>2. CASE Len(ss) # 0
  <2> DEFINE N == Len(ss)
             e(f, i) == IF i = 1 THEN ss[i] ELSE f[i - 1] \o ss[i]
             body(f) == [i \in 1 .. N |-> e(f, i)]
             flatten == CHOOSE f : f = body(f)
             D == 1 .. N
             S == Seq(X)
             rank == [i \in D |-> i]
             step == [cf \in D \X [D -> S] |-> e(cf[2], cf[1])]
  <2>1. N \in Nat \ {0} /\ DOMAIN ss = D /\ \A i \in D : ss[i] \in S
    BY <1>2
  <2>2. rank \in [D -> 0 .. N] /\ <<>> \in S
    BY <2>1
  <2>3. ASSUME NEW i \in D, NEW f \in [D -> S]
        PROVE  e(f, i) \in S
    <3>1. CASE i = 1
      BY <2>1, <3>1
    <3>2. CASE i # 1
      <4>1. i - 1 \in D
        BY <2>1, <3>2
      <4>2. f[i - 1] \in S /\ ss[i] \in S
        BY <2>1, <4>1
      <4>3. f[i - 1] \o ss[i] \in S
        BY <4>2
      <4> QED BY <3>2, <4>3
    <3> QED BY <3>1, <3>2
  <2>4. step \in [D \X [D -> S] -> S]
    <3> HIDE DEF e, D, S
    <3> QED BY <2>3
  <2>5. \A i \in D : \A f \in [D -> S] : step[<<i, f>>] = e(f, i)
    <3> HIDE DEF e, D, S
    <3> QED OBVIOUS
  <2>6. ASSUME NEW i \in D, NEW f \in [D -> S], NEW g \in [D -> S],
               \A d \in D : rank[d] < rank[i] => f[d] = g[d]
        PROVE  step[<<i, f>>] = step[<<i, g>>]
    <3>1. e(f, i) = e(g, i)
      <4>1. CASE i = 1
        BY <4>1
      <4>2. CASE i # 1
        <5>1. i - 1 \in D /\ rank[i - 1] < rank[i]
          BY <2>1, <4>2
        <5>2. f[i - 1] = g[i - 1]
          <6> HIDE DEF rank, D
          <6> QED BY <2>6, <5>1
        <5> QED BY <4>2, <5>2
      <4> QED BY <4>1, <4>2
    <3> HIDE DEF step, e, D, S
    <3> QED BY <2>5, <3>1
  <2>7. PICK h \in [D -> S] : \A i \in D : h[i] = step[<<i, h>>]
    <3>1. N \in Nat
      BY <2>1
    <3>2. \A i \in D : \A f, g \in [D -> S] :
            (\A d \in D : rank[d] < rank[i] => f[d] = g[d]) => step[<<i, f>>] = step[<<i, g>>]
      <4> HIDE DEF rank, step, D, S, N
      <4> QED BY <2>6
    <3> HIDE DEF rank, step, D, S, N
    <3>3. Descends(D, S, N, rank, step)
      BY <2>2, <2>4, <3>1, <3>2 DEF Descends
    <3>4. S # {}
      BY <2>2
    <3>5. \E h : FixedPoint(D, S, step, h)
      BY <3>3, <3>4, RecursionExists
    <3> QED BY <3>5 DEF FixedPoint
  <2>8. h = body(h)
    <3>1. h = [i \in D |-> h[i]]
      OBVIOUS
    <3>2. \A i \in D : h[i] = e(h, i)
      <4> HIDE DEF step, e, D, S
      <4> QED BY <2>5, <2>7
    <3>3. body(h) = [i \in D |-> e(h, i)]
      OBVIOUS
    <3> HIDE DEF body, e, D
    <3> QED BY <3>1, <3>2, <3>3
  <2>9. flatten = body(flatten)
    <3>1. flatten = CHOOSE f : f = body(f)
      OBVIOUS
    <3> HIDE DEF body, flatten
    <3> QED BY <2>8, <3>1
  <2>10. \A i \in D : flatten[i] = e(flatten, i)
    <3> HIDE DEF flatten, e
    <3> QED BY <2>9
  <2> DEFINE Fine == {n \in 0 .. N : n # 0 => flatten[n] \in S}
  <2>11. \A i \in 0 .. N : i # 0 => flatten[i] \in S
    <3>1. ASSUME NEW n \in 1 .. N, n - 1 \in Fine
          PROVE  n \in Fine
      <4>1. flatten[n] = e(flatten, n) /\ ss[n] \in S
        <5> HIDE DEF flatten, e, S
        <5> QED BY <2>1, <2>10
      <4> HIDE DEF flatten
      <4>2. CASE n = 1
        BY <4>1, <4>2
      <4>3. CASE n # 1
        <5>1. n - 1 \in 0 .. N /\ n - 1 # 0
          BY <2>1, <4>3
        <5>2. flatten[n - 1] \in S
          BY <3>1, <5>1
        <5>3. flatten[n - 1] \o ss[n] \in S
          BY <4>1, <5>2
        <5>4. flatten[n] = flatten[n - 1] \o ss[n] /\ n \in 0 .. N
          <6> HIDE DEF S
          <6> QED BY <2>1, <4>1, <4>3
        <5>5. flatten[n] \in S
          <6> HIDE DEF S
          <6> QED BY <5>3, <5>4
        <5> QED BY <5>4, <5>5
      <4> QED BY <4>2, <4>3
    <3>2. 0 \in Fine
      BY <2>1
    <3>3. \A n \in 0 .. N : n \in Fine
      <4>1. N \in Nat
        BY <2>1
      <4> HIDE DEF Fine, N
      <4> QED BY <3>1, <3>2, <4>1, CountingUp
    <3> HIDE DEF flatten, S
    <3> QED BY <3>3
  <2>12. FlattenSeq(ss) = flatten[N]
    BY <1>2 DEF FlattenSeq
  <2>13. flatten[N] \in S
    <3>1. N \in 0 .. N /\ N # 0
      BY <2>1
    <3> HIDE DEF flatten, N
    <3> QED BY <2>11, <3>1
  <2> HIDE DEF flatten
  <2> QED BY <2>12, <2>13
<1> QED BY <1>1, <1>2

LEMMA WrittenFlat ==
  ASSUME NEW N \in Nat, NEW m, m = [n \in 1 .. N |-> m[n]], \A n \in 1 .. N : Written(m[n])
  PROVE  Written(FlattenSeq(m))
<1> DEFINE X == UNION {{m[n][k] : k \in DOMAIN m[n]} : n \in 1 .. N}
<1>1. ASSUME NEW n \in 1 .. N PROVE m[n] \in Seq(X)
  <2>1. PICK S : m[n] \in Seq(S)
    BY DEF Written
  <2>2. \A k \in DOMAIN m[n] : m[n][k] \in X
    OBVIOUS
  <2> HIDE DEF X
  <2> QED BY <2>1, <2>2
<1>2. \A i \in X : Encodable(i)
  <2> SUFFICES ASSUME NEW n \in 1 .. N, NEW k \in DOMAIN m[n] PROVE Encodable(m[n][k])
    OBVIOUS
  <2> QED BY WrittenAll
<1>3. m \in Seq(Seq(X))
  <2> HIDE DEF X
  <2>1. m \in [1 .. N -> Seq(X)]
    BY <1>1
  <2> QED BY <2>1
<1> HIDE DEF X
<1>4. FlattenSeq(m) \in Seq(X)
  BY <1>3, Flattened
<1> QED BY <1>2, <1>4, WrittenBy

LEMMA ArgLoadsWritten ==
  ASSUME NEW free \in Scratches, NEW N \in 0 .. Len(ArgRegs), NEW args,
         args = [n \in 1 .. N |-> args[n]], \A n \in 1 .. N : args[n] \in Source \cup {Invalid}
  PROVE  Written(ArgLoads(free, args))
<1> DEFINE m == [n \in 1 .. N |-> Move(free, args[n], Reg(args[n].width, ArgRegs[n]), FALSE)]
<1>1. DOMAIN args = 1 .. N /\ N \in Nat
  BY X86Assumption
<1>2. ArgLoads(free, args) = FlattenSeq(m)
  BY <1>1 DEF ArgLoads
<1>3. ASSUME NEW n \in 1 .. N PROVE Written(m[n])
  <2>1. n \in DOMAIN ArgRegs /\ ArgRegs[n] \in Regs
    BY ArgRegsKnown, X86Assumption
  <2> DEFINE r == Reg(args[n].width, ArgRegs[n])
  <2>2. m[n] = Move(free, args[n], r, FALSE)
    OBVIOUS
  <2>3. CASE args[n] = Invalid
    <3> HIDE DEF r, m
    <3>1. Movable(args[n], r, FALSE)
      BY <2>3 DEF Movable
    <3> QED BY <2>2, <3>1, TwoFree, MoveWritten
  <2>4. CASE args[n] \in Source
    <3>1. args[n].width \in Width /\ args[n].width >= args[n].width
      BY <2>4, KindsOf DEF Width
    <3>2. r \in Place /\ r.width = args[n].width
      BY <2>1, <3>1, Made DEF Place
    <3> HIDE DEF r, m
    <3> QED BY <2>2, <2>4, <3>1, <3>2, TwoFree, NarrowMoveWritten
  <2> QED BY <2>3, <2>4
<1>4. m = [n \in 1 .. N |-> m[n]]
  OBVIOUS
<1> HIDE DEF m
<1> QED BY <1>1, <1>2, <1>3, <1>4, WrittenFlat

-----------------------------------------------------------------------------
(* Calls, and the ends of the function.                                    *)
LEMMA CallWritten ==
  ASSUME NEW free \in Scratches, NEW N \in 0 .. Len(ArgRegs), NEW args,
         args = [n \in 1 .. N |-> args[n]], \A n \in 1 .. N : args[n] \in Source \cup {Invalid},
         NEW ret \in Place \cup {NoLoc}
  PROVE  Written(Call(free, args, ret)) /\ Written(TailCall(free, args))
<1> DEFINE k == Imm(8, Len(args))
           a == ArgLoads(free, args)
           result == IF ret = NoLoc THEN <<>> ELSE Move(free, Reg(ret.width, "RAX"), ret, FALSE)
<1>1. Written(a)
  BY ArgLoadsWritten
<1>2. Written(<<Instr("call", NoLoc, k)>>) /\ Written(<<Instr("jmp", NoLoc, k)>>)
  BY FreeEncodable
<1>3. Written(result)
  <2>1. CASE ret = NoLoc
    BY <2>1, WrittenNone
  <2>2. CASE ret # NoLoc
    <3> DEFINE r == Reg(ret.width, "RAX")
    <3>1. ret \in Place /\ ret.width \in Width /\ ret.width >= ret.width
      BY <2>2, KindsOfPlace DEF Width
    <3>2. r \in Source /\ r.width = ret.width
      BY <3>1, SpecialRegisters
    <3>3. result = Move(free, r, ret, FALSE)
      BY <2>2
    <3> HIDE DEF r, result
    <3> QED BY <3>1, <3>2, <3>3, TwoFree, NarrowMoveWritten
  <2> QED BY <2>1, <2>2
<1>4. /\ Call(free, args, ret) = a \o <<Instr("call", NoLoc, k)>> \o result
      /\ TailCall(free, args) = a \o <<Instr("jmp", NoLoc, k)>>
  BY DEF Call, TailCall
<1> HIDE DEF a, k, result
<1> QED BY <1>1, <1>2, <1>3, <1>4, WrittenBoth

LEMMA ReturnWritten ==
  ASSUME NEW free \in Scratches, NEW N \in Nat, NEW values, values = [n \in 1 .. N |-> values[n]],
         \A n \in 1 .. N : values[n] \in Place, NEW needEpilog
  PROVE  Written(Return(free, values, needEpilog))
<1> DEFINE load(n, r) == IF Len(values) < n THEN <<>>
                         ELSE Move(free, values[n], Reg(values[n].width, r), FALSE)
           leave == IF needEpilog THEN Leave ELSE <<>>
<1>1. Len(values) = N
  OBVIOUS
<1>2. ASSUME NEW n \in 1 .. 2, NEW r \in {"RAX", "RDX"} PROVE Written(load(n, r))
  <2>1. CASE N < n
    BY <1>1, <2>1, WrittenNone
  <2>2. CASE n <= N
    <3> DEFINE d == Reg(values[n].width, r)
    <3>1. values[n] \in Place /\ values[n] \in Source
      BY <2>2, KindsOfPlace
    <3>2. values[n].width \in Width /\ values[n].width >= values[n].width
      BY <3>1, KindsOfPlace DEF Width
    <3>3. d \in Place /\ d.width = values[n].width /\ d.type = "REG"
      BY <3>2, SpecialRegisters
    <3>4. load(n, r) = Move(free, values[n], d, FALSE)
      <4>1. ~(Len(values) < n)
        BY <1>1, <2>2
      <4> QED BY <4>1
    <3> HIDE DEF d, load
    <3> QED BY <3>1, <3>2, <3>3, <3>4, TwoFree, NarrowMoveWritten
  <2>3. N < n \/ n <= N
    OBVIOUS
  <2> HIDE DEF load
  <2> QED BY <2>1, <2>2, <2>3
<1>3. Written(leave)
  BY FreeEncodable, WrittenNone DEF Leave
<1>4. Written(<<Bare("ret")>>)
  BY FreeEncodable DEF Bare
<1>5. Return(free, values, needEpilog) = load(1, "RAX") \o load(2, "RDX") \o leave \o <<Bare("ret")>>
  BY DEF Return
<1>6. Written(load(1, "RAX")) /\ Written(load(2, "RDX"))
  <2> HIDE DEF load
  <2> QED BY <1>2
<1> HIDE DEF load, leave
<1> QED BY <1>3, <1>4, <1>5, <1>6, WrittenBoth

LEMMA EnterWritten == Written(Enter)
<1> DEFINE p == Reg(8, "RBP")
           s == Reg(8, "RSP")
<1>1. p \in Place /\ s \in Source /\ s.type = "REG" /\ p.width = s.width
  BY SpecialRegisters DEF Width
<1> HIDE DEF p, s
<1>2. Written(<<Instr("push", p, NoLoc)>>) /\ Written(<<Instr("mov", p, s)>>)
  BY <1>1, FreeEncodable, TwoEncodable
<1>3. Enter = <<Instr("push", p, NoLoc)>> \o <<Instr("mov", p, s)>>
  BY DEF Enter, p, s
<1> QED BY <1>2, <1>3, WrittenBoth

-----------------------------------------------------------------------------
(* Where operands are when all homes are known.                            *)
HomesKnown ==
  /\ \A v \in Var : location[v] \in Place \cup {NoLoc}
  /\ \A v \in Var : location[v].type = "MEM" =>
       location[v].address \in EaOp /\ AddressEncodable(location[v].address)
  /\ scratch \in Scratches

LEMMA SlotIs ==
  ASSUME NEW w \in Width, NEW off \in Nat
  PROVE  /\ Slot(w, off) \in MemOp /\ Slot(w, off).type = "MEM"
         /\ Slot(w, off).address \in EaOp /\ AddressEncodable(Slot(w, off).address)
<1> DEFINE ea == Ea(w, Reg(8, "RBP"), -1, Imm(8, off), NoLoc)
<1>1. 8 \in Width /\ Reg(8, "RBP") \in RegOp /\ Imm(8, off) \in ImmOp
  BY Made DEF Width, Regs
<1>2. ea \in EaOp /\ AddressEncodable(ea)
  <2> DEFINE a == Reg(8, "RBP")
             b == Imm(8, off)
  <2>1. a \in RegOp /\ b \in RegOp \cup ImmOp /\ b \notin RegOp
    BY <1>1, Kinds
  <2> HIDE DEF a, b
  <2>2. Ea(w, a, -1, b, NoLoc) \in EaOp /\ AddressEncodable(Ea(w, a, -1, b, NoLoc))
    BY <2>1, SumAddress
  <2> QED BY <2>2 DEF a, b
<1>3. Slot(w, off) = Mem(w, ea) /\ Mem(w, ea).address = ea /\ Mem(w, ea).type = "MEM"
  BY DEF Slot, Mem
<1> HIDE DEF ea
<1>4. ea \in Address
  BY <1>2 DEF Address
<1> QED BY <1>2, <1>3, <1>4, Made

LEMMA HomesAreKnown ==
  ASSUME AllocInv, Allocated
  PROVE  HomesKnown
<1>1. Homes /\ stackOff \in Nat /\ OpsKnown /\ Allocating
  BY AllocatedHomes DEF Allocating
<1>2. \A v \in Var : TypeSize[v] \in Width
  BY IntExecAssumption DEF Width
<1>3. ASSUME NEW v \in Var
      PROVE  /\ location[v] \in Place \cup {NoLoc}
             /\ location[v].type = "MEM" =>
                  location[v].address \in EaOp /\ AddressEncodable(location[v].address)
  <2>1. CASE location[v] = NoLoc
    BY <2>1, LocationFields
  <2>2. ASSUME NEW r \in HomeRegs(v), InReg(v, r)
        PROVE  location[v] \in Place /\ location[v].type = "REG"
    <3>1. location[v].type = "REG" /\ location[v].reg = r
      BY <2>2, LocationFields DEF InReg
    <3>2. r \in Regs
      BY <1>1, <3>1, RegisterHomes
    <3>3. Reg(TypeSize[v], r) \in RegOp
      BY <1>2, <3>2, Made
    <3> QED BY <2>2, <3>1, <3>3 DEF InReg, Place
  <2>3. ASSUME NEW off \in TypeSize[v] .. stackOff, InSlot(v, off)
        PROVE  /\ location[v] \in Place
               /\ location[v].address \in EaOp /\ AddressEncodable(location[v].address)
    <3>1. off \in Nat
      BY <1>1, <1>2 DEF Width
    <3> QED BY <1>2, <2>3, <3>1, SlotIs DEF InSlot, Place
  <2> QED BY <1>1, <2>1, <2>2, <2>3 DEF Homes
<1>4. scratch \in Scratches
  <2>1. PICK r \in {"R11", "RAX"} : scratch = <<r, "R10">>
    BY <1>1 DEF Allocating
  <2>2. r \in Regs /\ "R10" \in Regs
    BY DEF Regs
  <2>3. scratch \in Seq(Regs) /\ Len(scratch) = 2
    BY <2>1, <2>2
  <2> QED BY <2>3 DEF Scratches
<1> QED BY <1>3, <1>4 DEF HomesKnown

LEMMA LocIs ==
  ASSUME HomesKnown, NEW x \in Operand, NEW w \in Width
  PROVE  /\ Loc(w, x) \in Source \cup {NoLoc, Invalid}
         /\ x.kind = "VAR" => Loc(w, x) = location[x.n] /\ x.n \in Var
<1>1. CASE x.kind = "VAR"
  <2>1. x.n \in Var
    BY <1>1 DEF Operand
  <2>2. location[x.n] \in Source \cup {NoLoc}
    BY <2>1 DEF HomesKnown, Place, Source
  <2> QED BY <1>1, <2>1, <2>2 DEF Loc
<1>2. CASE x.kind = "IMM"
  <2>1. x.n \in Nat
    BY <1>2 DEF Operand
  <2> QED BY <1>2, <2>1, Made DEF Loc, Source
<1>3. CASE x.kind \in {"UNINIT", "NONE"}
  BY <1>3 DEF Loc
<1>4. x.kind \in {"VAR", "IMM", "UNINIT", "NONE"}
  BY DEF Operand
<1> QED BY <1>1, <1>2, <1>3, <1>4

LEMMA GivenIn ==
  ASSUME NEW l \in Source \cup {NoLoc, Invalid}
  PROVE  /\ Given(l) => l \in Source
         /\ InPlace(l) => l \in Place
         /\ l # Invalid <=> l \in Source \cup {NoLoc}
<1>1. ~Given(NoLoc) /\ ~Given(Invalid) /\ ~InPlace(NoLoc) /\ ~InPlace(Invalid)
  BY DEF Given, InPlace, NoLoc, Invalid
<1>2. Invalid # NoLoc /\ Invalid \notin Source
  <2>1. Invalid.type = "INVALID" /\ NoLoc.type = "NONE"
    BY DEF Invalid, NoLoc
  <2>2. \A x \in Source : x.type # "INVALID"
    BY KindsOf
  <2> QED BY <2>1, <2>2
<1>3. CASE l \in Source
  BY <1>2, <1>3, GivenIs
<1> QED BY <1>1, <1>2, <1>3

-----------------------------------------------------------------------------
(* Ops.  What the tables of instruction selection hold.                    *)
LEMMA Tables ==
  /\ DOMAIN ShiftOps = {"SHL", "SHR", "ASHR"}
  /\ \A id \in DOMAIN ShiftOps : ShiftOps[id] \in {"shl", "shr", "sar"}
  /\ DOMAIN Binaries = {"MUL", "AND", "BITWISE_AND", "OR", "BITWISE_OR"}
  /\ \A id \in DOMAIN Binaries : Binaries[id] \in TwoOperand
BY DEF ShiftOps, Binaries, TwoOperand

(* The operands of an op, and its result. *)
LEMMA OperandIs ==
  ASSUME HomesKnown, NEW op \in Op, NEW n \in 1 .. Len(op.args)
  PROVE  /\ op.args[n] \in Operand /\ SizeOf(op.args[n]) \in Width
         /\ \A w \in Width : Loc(w, op.args[n]) \in Source \cup {NoLoc, Invalid}
<1>1. op.args[n] \in Operand
  <2>1. op.args \in Seq(Operand)
    BY DEF Op
  <2> QED BY <2>1
<1>2. SizeOf(op.args[n]) \in Width
  <2>1. op.args[n].kind = "VAR" => op.args[n].n \in Var
    BY <1>1 DEF Operand
  <2> QED BY <2>1, IntExecAssumption DEF SizeOf, Width
<1> QED BY <1>1, <1>2, LocIs

LEMMA ArgumentCount ==
  ASSUME NEW op \in Op
  PROVE  Len(op.args) \in Nat /\ DOMAIN op.args = 1 .. Len(op.args)
<1>1. op.args \in Seq(Operand)
  BY DEF Op
<1> QED BY <1>1

LEMMA ResultIs ==
  ASSUME HomesKnown, NEW op \in Op, op.out # None, InPlace(location[op.out])
  PROVE  location[op.out] \in Place /\ location[op.out].width \in Width
<1>1. op.out \in Var
  BY DEF Op
<1>2. location[op.out] # NoLoc
  BY DEF InPlace, NoLoc
<1> QED BY <1>1, <1>2, KindsOfPlace DEF HomesKnown

(* An op that instruction selection can take, when all homes are known. *)
Emits(op) == HomesKnown /\ op \in Op /\ Fits(op)

LEMMA ParameterIs ==
  ASSUME NEW op, Emits(op), NEW n \in 1 .. 4, n <= Parameters(op)
  PROVE  /\ n \in 1 .. Len(op.args) /\ SizeOf(op.args[n]) \in Width
         /\ \A w \in Width : Loc(w, op.args[n]) \in Source \cup {NoLoc, Invalid}
<1>1. HomesKnown /\ op \in Op /\ Len(op.args) >= Parameters(op)
  BY DEF Emits, Fits
<1>2. Parameters(op) \in 0 .. 4
  BY DEF Parameters
<1>3. n \in 1 .. Len(op.args)
  BY <1>1, <1>2, ArgumentCount
<1> QED BY <1>1, <1>3, OperandIs

LEMMA JumpsWritten ==
  ASSUME NEW op, Emits(op), op.id \in {"X86_JMPCC", "GOTO", "LABEL"}
  PROVE  Written(Emitted(op))
<1>1. op \in Op /\ Fits(op)
  BY DEF Emits
<1>2. CASE op.id = "LABEL"
  <2>1. Emitted(op) = <<Instr("label", Label(op.label), NoLoc)>>
    BY <1>2, Tables DEF Emitted
  <2> QED BY <2>1, FreeEncodable
<1>3. CASE op.id = "GOTO"
  <2>1. Emitted(op) = <<CondInstr("j", "mp", Label(op.label), NoLoc)>>
    BY <1>3, Tables DEF Emitted
  <2> QED BY <2>1, JumpEncodable
<1>4. CASE op.id = "X86_JMPCC"
  <2>1. Emitted(op) = <<CondInstr("j", op.cc, Label(op.label), NoLoc)>>
    BY <1>4, Tables DEF Emitted
  <2>2. op.cc \in ConditionCodes
    BY <1>1, <1>4, Tables DEF Fits, Op
  <2> QED BY <2>1, <2>2, JumpEncodable
<1> QED BY <1>2, <1>3, <1>4

LEMMA MovesWritten ==
  ASSUME NEW op, Emits(op), op.id \in {"IMM", "BITCAST", "ZEROEXT", "SIGNEXT"}
  PROVE  Written(Emitted(op))
<1> DEFINE o == location[op.out]
           a == Loc(o.width, op.args[1])
           sign == op.id = "SIGNEXT"
<1>1. HomesKnown /\ op \in Op /\ scratch \in Scratches
  BY DEF Emits, HomesKnown
<1>2. Len(op.args) >= 1 /\ op.out # None /\ InPlace(o) /\ (a = Invalid \/ Reaches(a, o, sign))
  BY Tables DEF Emits, Fits, Parameters
<1>3. Emitted(op) = Move(scratch, a, o, sign)
  BY Tables DEF Emitted
<1>4. o \in Place /\ o.width \in Width
  BY <1>1, <1>2, ResultIs
<1>5. a \in Source \cup {NoLoc, Invalid}
  <2>1. 1 \in 1 .. Len(op.args)
    BY <1>1, <1>2, ArgumentCount
  <2> HIDE DEF o
  <2> QED BY <1>1, <1>4, <2>1, OperandIs
<1> HIDE DEF o, a, sign
<1>6. sign \in BOOLEAN
  BY DEF sign
<1>7. Movable(a, o, sign)
  <2>1. CASE a = Invalid
    BY <2>1 DEF Movable
  <2>2. CASE Reaches(a, o, sign)
    <3>1. a \in Source
      BY <1>5, <2>2, GivenIn DEF Reaches
    <3> QED BY <1>4, <2>2, <3>1 DEF Movable
  <2> QED BY <1>2, <2>1, <2>2
<1> QED BY <1>1, <1>3, <1>6, <1>7, TwoFree, MoveWritten

LEMMA MemoryWritten ==
  ASSUME NEW op, Emits(op), op.id \in {"LOAD", "STORE", "PLACE"}
  PROVE  Written(Emitted(op))
<1> DEFINE o == location[op.out]
           x == Loc(8, op.args[1])
           val == Loc(SizeOf(op.args[2]), op.args[2])
<1>1. HomesKnown /\ op \in Op /\ scratch \in Scratches /\ 8 \in Width
  BY DEF Emits, HomesKnown, Width
<1>2. CASE op.id = "LOAD"
  <2>1. op.out # None /\ InPlace(o) /\ Given(x)
    BY <1>2, Tables DEF Emits, Fits
  <2>2. 1 <= Parameters(op)
    BY <1>2 DEF Parameters
  <2>3. Emitted(op) = Load(scratch, x, o)
    BY <1>2, Tables DEF Emitted
  <2>4. x \in Source /\ o \in Place
    BY <1>1, <2>1, <2>2, ParameterIs, ResultIs, GivenIn
  <2> HIDE DEF x, o
  <2> QED BY <1>1, <2>3, <2>4, LoadWritten
<1>3. CASE op.id = "STORE"
  <2>1. Given(x) /\ (val = Invalid \/ Given(val))
    BY <1>3, Tables DEF Emits, Fits
  <2>2. 1 <= Parameters(op) /\ 2 <= Parameters(op)
    BY <1>3, Tables DEF Parameters
  <2>3. Emitted(op) = Store(scratch, x, val)
    BY <1>3, Tables DEF Emitted
  <2>4. x \in Source
    BY <1>1, <2>1, <2>2, ParameterIs, GivenIn
  <2>5. val \in Source \cup {NoLoc, Invalid}
    BY <2>2, ParameterIs
  <2> HIDE DEF x, val
  <2>6. val \in Source \cup {Invalid}
    BY <2>1, <2>5, GivenIn
  <2> QED BY <1>1, <2>3, <2>4, <2>6, StoreWritten
<1>4. CASE op.id = "PLACE"
  <2> DEFINE p == location[op.args[1].n]
             ea == p.address
  <2>1. /\ op.out # None /\ InPlace(o) /\ o.width # 1
        /\ op.args[1].kind = "VAR" /\ p.type = "MEM"
    BY <1>4, Tables DEF Emits, Fits
  <2>2. 1 <= Parameters(op)
    BY <1>4 DEF Parameters
  <2>3. Emitted(op) = Move(scratch, ea, o, FALSE)
    BY <1>4, Tables DEF Emitted
  <2>4. o \in Place
    BY <1>1, <2>1, ResultIs
  <2>5. op.args[1].n \in Var
    <3>1. op.args[1] \in Operand
      BY <1>1, <2>2, ParameterIs, OperandIs
    <3> QED BY <2>1, <3>1 DEF Operand
  <2>6. ea \in EaOp /\ AddressEncodable(ea)
    BY <1>1, <2>1, <2>5 DEF HomesKnown
  <2> HIDE DEF o, ea
  <2>7. Movable(ea, o, FALSE)
    BY <2>1, <2>4, <2>6 DEF Movable
  <2> QED BY <1>1, <2>3, <2>7, TwoFree, MoveWritten
<1> QED BY <1>2, <1>3, <1>4

LEMMA AddressesWritten ==
  ASSUME NEW op, Emits(op), op.id \in {"EA", "LOAD_EA", "STORE_EA"}
  PROVE  Written(Emitted(op))
<1> DEFINE o == location[op.out]
           w == IF op.id = "EA" THEN o.width ELSE 8
           x == Loc(w, op.args[1])
           y == Loc(w, op.args[2])
           z == Loc(w, op.args[3])
           val == Loc(SizeOf(op.args[4]), op.args[4])
<1>1. HomesKnown /\ op \in Op /\ scratch \in Scratches
  BY DEF Emits, HomesKnown
<1>2. 1 <= Parameters(op) /\ 2 <= Parameters(op) /\ 3 <= Parameters(op)
  BY Tables DEF Parameters
<1>3. w \in Width => {x, y, z} \subseteq Source \cup {NoLoc, Invalid}
  <2> HIDE DEF w
  <2> QED BY <1>2, ParameterIs
<1>4. ASSUME w \in Width, Addresses(x, y, z)
      PROVE  x \in Source /\ y \in Source \cup {NoLoc} /\ z \in Source \cup {NoLoc}
  <2> HIDE DEF w, x, y, z
  <2> QED BY <1>3, <1>4, GivenIn DEF Addresses
<1>5. CASE op.id = "EA"
  <2>1. op.out # None /\ InPlace(o) /\ o.width # 1 /\ Adds(x, y, z, o)
    BY <1>5, Tables DEF Emits, Fits
  <2>2. Emitted(op) = EaInto(scratch, x, y, z, o)
    BY <1>5, Tables DEF Emitted
  <2>3. o \in Place /\ w \in Width
    BY <1>1, <1>5, <2>1, ResultIs
  <2> HIDE DEF o, w, x, y, z
  <2>4. x \in Source /\ y \in Source \cup {NoLoc} /\ z \in Source \cup {NoLoc}
    <3>1. CASE Addresses(x, y, z)
      BY <1>4, <2>3, <3>1
    <3>2. CASE ~Addresses(x, y, z)
      BY <1>3, <2>1, <2>3, <3>2, GivenIn DEF Adds, Computes
    <3> QED BY <3>1, <3>2
  <2> QED BY <1>1, <2>1, <2>2, <2>3, <2>4, EaIntoWritten
<1>6. CASE op.id = "LOAD_EA"
  <2>1. op.out # None /\ InPlace(o) /\ Addresses(x, y, z)
    BY <1>6, Tables DEF Emits, Fits
  <2>2. Emitted(op) = LoadEa(scratch, x, y, z, o)
    BY <1>6, Tables DEF Emitted
  <2>3. o \in Place /\ w \in Width
    BY <1>1, <1>6, <2>1, ResultIs DEF Width
  <2> HIDE DEF o, w, x, y, z
  <2> QED BY <1>1, <1>4, <2>1, <2>2, <2>3, EaUsesWritten
<1>7. CASE op.id = "STORE_EA"
  <2>1. Addresses(x, y, z) /\ (val = Invalid \/ Given(val))
    BY <1>7, Tables DEF Emits, Fits
  <2>2. Emitted(op) = StoreEa(scratch, x, y, z, val)
    BY <1>7, Tables DEF Emitted
  <2>3. w \in Width
    BY <1>7 DEF Width
  <2>4. 4 <= Parameters(op)
    BY <1>7, Tables DEF Parameters
  <2>5. val \in Source \cup {NoLoc, Invalid}
    BY <2>4, ParameterIs
  <2> HIDE DEF o, w, x, y, z, val
  <2>6. val \in Source \cup {Invalid}
    BY <2>1, <2>5, GivenIn
  <2> QED BY <1>1, <1>4, <2>1, <2>2, <2>3, <2>6, EaUsesWritten
<1> QED BY <1>5, <1>6, <1>7

Divisions == {"UDIV", "SDIV", "UMOD", "SMOD"}

LEMMA ArithmeticWritten ==
  ASSUME NEW op, Emits(op), op.id \in Arithmetics
  PROVE  Written(Emitted(op))
<1> DEFINE o == location[op.out]
           a == Loc(o.width, op.args[1])
           b == Loc(o.width, op.args[2])
<1>1. HomesKnown /\ op \in Op /\ scratch \in Scratches
  BY DEF Emits, HomesKnown
<1>2. op.out # None /\ InPlace(o) /\ 1 <= Parameters(op)
  <2>1. op.id \in Divisions \cup {"ADD", "SUB", "NOT", "BITWISE_NOT"}
                     \cup DOMAIN ShiftOps \cup DOMAIN Binaries
    BY Tables DEF Arithmetics, Divisions
  <2>2. op.out # None /\ InPlace(o)
    BY <2>1, Tables DEF Emits, Fits, Divisions
  <2>3. 1 <= Parameters(op)
    BY <2>1, Tables DEF Parameters, Divisions
  <2> QED BY <2>2, <2>3
<1>3. o \in Place /\ o.width \in Width
  BY <1>1, <1>2, ResultIs
<1>4. a \in Source \cup {NoLoc, Invalid}
  <2> HIDE DEF o
  <2> QED BY <1>2, <1>3, ParameterIs
<1>5. CASE op.id \in {"NOT", "BITWISE_NOT"}
  <2>1. Given(a) /\ a.width >= o.width
    BY <1>5, Tables DEF Emits, Fits
  <2>2. Emitted(op) = Unary(scratch, a, o, "not")
    BY <1>5, Tables DEF Emitted
  <2> HIDE DEF o, a
  <2> QED BY <1>1, <1>3, <1>4, <2>1, <2>2, GivenIn, UnaryWritten
<1>6. CASE op.id \notin {"NOT", "BITWISE_NOT"}
  <2>1. b \in Source \cup {NoLoc, Invalid}
    <3>1. 2 <= Parameters(op)
      BY <1>6, Tables DEF Parameters, Arithmetics
    <3> HIDE DEF o
    <3> QED BY <1>3, <3>1, ParameterIs
  <2>2. CASE op.id \in Divisions
    <3> DEFINE sign == op.id \in {"SDIV", "SMOD"}
               mod == op.id \in {"UMOD", "SMOD"}
    <3>1. Given(a) /\ InPlace(b) /\ (sign => a.width \in {4, 8})
      BY <2>2, Tables DEF Emits, Fits, Divisions
    <3>2. Emitted(op) = ModDiv(scratch, o, a, b, sign, mod)
      BY <2>2, Tables DEF Emitted, Divisions
    <3>3. sign \in BOOLEAN /\ mod \in BOOLEAN
      OBVIOUS
    <3> HIDE DEF o, a, b, sign, mod
    <3> QED BY <1>1, <1>3, <1>4, <2>1, <3>1, <3>2, <3>3, GivenIn, ModDivWritten
  <2>3. CASE op.id \in {"ADD", "SUB"}
    <3> DEFINE id == op.id
    <3>1. /\ Given(a)
          /\ IF ~Equal(o, a) /\ a.type = "REG" /\ (id = "ADD" \/ b.type # "REG")
             THEN b.type \in {"REG", "IMM"} /\ o.width # 1
             ELSE Computes(a, b, o, "add")
      BY <2>3, Tables DEF Emits, Fits
    <3>2. Emitted(op) = AddSub(scratch, a, b, o, id)
      BY <2>3, Tables DEF Emitted
    <3>3. id \in {"ADD", "SUB"}
      BY <2>3
    <3> HIDE DEF o, a, b, id
    <3>4. Given(b)
      BY <3>1 DEF Given, Computes
    <3>5. a \in Source /\ b \in Source
      BY <1>4, <2>1, <3>1, <3>4, GivenIn
    <3> QED BY <1>1, <1>3, <3>1, <3>2, <3>3, <3>5, AddSubWritten
  <2>4. CASE op.id \in DOMAIN ShiftOps
    <3>1. InPlace(a) /\ Given(b)
      BY <2>4, Tables DEF Emits, Fits
    <3>2. Emitted(op) = Shift(scratch, a, b, ShiftOps[op.id])
      BY <2>4, Tables DEF Emitted
    <3>3. ShiftOps[op.id] \in {"shl", "shr", "sar"}
      BY <2>4, Tables
    <3> HIDE DEF o, a, b
    <3> QED BY <1>1, <1>4, <2>1, <3>1, <3>2, <3>3, GivenIn, ShiftWritten
  <2>5. CASE op.id \in DOMAIN Binaries
    <3>1. Computes(a, b, o, Binaries[op.id])
      BY <2>5, Tables DEF Emits, Fits
    <3>2. Emitted(op) = Binary(scratch, a, b, o, Binaries[op.id])
      BY <2>5, Tables DEF Emitted
    <3>3. Binaries[op.id] \in TwoOperand
      BY <2>5, Tables
    <3> HIDE DEF o, a, b
    <3>4. a \in Source /\ b \in Source
      BY <1>4, <2>1, <3>1, GivenIn DEF Computes
    <3> QED BY <1>1, <1>3, <3>1, <3>2, <3>3, <3>4, TwoFree, BinaryWritten
  <2>6. op.id \in Divisions \cup {"ADD", "SUB"} \cup DOMAIN ShiftOps \cup DOMAIN Binaries
    BY <1>6, Tables DEF Arithmetics, Divisions
  <2> QED BY <2>2, <2>3, <2>4, <2>5, <2>6
<1> QED BY <1>5, <1>6

LEMMA ComparisonsWritten ==
  ASSUME NEW op, Emits(op), op.id \in {"X86_CMP", "X86_SETCC", "X86_CMOV"}
  PROVE  Written(Emitted(op))
<1> DEFINE o == location[op.out]
           a == Loc(o.width, op.args[1])
           x == Loc(8, op.args[1])
           y == Loc(8, op.args[2])
<1>1. HomesKnown /\ op \in Op /\ scratch \in Scratches /\ 8 \in Width
  BY DEF Emits, HomesKnown, Width
<1>2. op.cc # "" => op.cc \in ConditionCodes
  BY <1>1 DEF Op
<1>3. CASE op.id = "X86_CMP"
  <2>1. Given(x) /\ Given(y)
    BY <1>3, Tables DEF Emits, Fits
  <2>2. Emitted(op) = Cmp(scratch, x, y)
    BY <1>3, Tables DEF Emitted
  <2>3. 1 <= Parameters(op) /\ 2 <= Parameters(op)
    BY <1>3, Tables DEF Parameters
  <2>4. x \in Source \cup {NoLoc, Invalid} /\ y \in Source \cup {NoLoc, Invalid}
    BY <1>1, <2>3, ParameterIs
  <2> HIDE DEF x, y
  <2> QED BY <1>1, <2>1, <2>2, <2>4, GivenIn, CmpWritten
<1>4. CASE op.id = "X86_SETCC"
  <2>1. op.out # None /\ InPlace(o) /\ (o.width = 1 \/ o.type = "REG") /\ op.cc # ""
    BY <1>4, Tables DEF Emits, Fits
  <2>2. Emitted(op) = StoreCond(scratch, o, op.cc)
    BY <1>4, Tables DEF Emitted
  <2>3. o \in Place
    BY <1>1, <2>1, ResultIs
  <2> HIDE DEF o
  <2> QED BY <1>1, <1>2, <2>1, <2>2, <2>3, StoreCondWritten
<1>5. CASE op.id = "X86_CMOV"
  <2>1. /\ op.out # None /\ InPlace(o) /\ o.type = "REG" /\ InPlace(a) /\ a.width = o.width
        /\ op.cc # ""
    BY <1>5, Tables DEF Emits, Fits
  <2>2. Emitted(op) = CondMove(a, o, op.cc)
    BY <1>5, Tables DEF Emitted
  <2>3. o \in Place /\ o.width \in Width
    BY <1>1, <2>1, ResultIs
  <2>4. o \in RegOp
    BY <2>1, <2>3, KindsOfPlace
  <2>5. 1 <= Parameters(op)
    BY <1>5 DEF Parameters
  <2>6. a \in Source \cup {NoLoc, Invalid}
    <3> HIDE DEF o
    <3> QED BY <2>3, <2>5, ParameterIs
  <2> HIDE DEF o, a
  <2>7. a \in Place
    BY <2>1, <2>6, GivenIn
  <2> QED BY <1>2, <2>1, <2>2, <2>4, <2>7, CondMoveWritten
<1> QED BY <1>3, <1>4, <1>5

LEMMA CallsWritten ==
  ASSUME NEW op, Emits(op), op.id \in {"CALL", "TAILCALL"}, Len(op.args) <= Len(ArgRegs)
  PROVE  Written(Emitted(op))
<1> DEFINE N == Len(op.args)
           args == [n \in DOMAIN op.args |-> Loc(SizeOf(op.args[n]), op.args[n])]
           ret == IF op.out = None THEN NoLoc ELSE location[op.out]
<1>1. HomesKnown /\ op \in Op /\ scratch \in Scratches
  BY DEF Emits, HomesKnown
<1>2. N \in 0 .. Len(ArgRegs) /\ DOMAIN op.args = 1 .. N
  BY <1>1, ArgumentCount, X86Assumption
<1>3. /\ \A n \in 1 .. N : args[n] = Invalid \/ Given(args[n])
      /\ op.out # None => InPlace(location[op.out])
  BY <1>2, Tables DEF Emits, Fits
<1>4. \A n \in 1 .. N : args[n] \in Source \cup {Invalid}
  <2> SUFFICES ASSUME NEW n \in 1 .. N PROVE args[n] \in Source \cup {Invalid}
    OBVIOUS
  <2>1. args[n] = Loc(SizeOf(op.args[n]), op.args[n])
    BY <1>2
  <2>2. args[n] \in Source \cup {NoLoc, Invalid}
    <3> HIDE DEF args
    <3> QED BY <1>1, <2>1, OperandIs
  <2>3. args[n] = Invalid \/ Given(args[n])
    <3> HIDE DEF args
    <3> QED BY <1>3
  <2> HIDE DEF args
  <2> QED BY <2>2, <2>3, GivenIn
<1>5. ret \in Place \cup {NoLoc}
  <2>1. CASE op.out = None
    BY <2>1
  <2>2. CASE op.out # None
    BY <1>1, <1>3, <2>2, ResultIs
  <2> QED BY <2>1, <2>2
<1>6. args = [n \in 1 .. N |-> args[n]] /\ Len(args) = N
  BY <1>2
<1>7. /\ op.id = "CALL" => Emitted(op) = Call(scratch, args, ret)
      /\ op.id = "TAILCALL" => Emitted(op) = TailCall(scratch, args)
  <2>1. Emitted(op) = EmitCall(op)
    BY Tables DEF Emitted
  <2>2. ~(Len(args) > Len(ArgRegs))
    <3> HIDE DEF args
    <3> QED BY <1>2, <1>6, X86Assumption
  <2>3. EmitCall(op) = IF Len(args) > Len(ArgRegs) THEN Assertion
                       ELSE IF op.id = "TAILCALL" THEN TailCall(scratch, args)
                       ELSE Call(scratch, args, ret)
    BY DEF EmitCall
  <2> HIDE DEF args, ret
  <2> QED BY <2>1, <2>2, <2>3
<1> HIDE DEF N, args, ret
<1>8. Written(Call(scratch, args, ret)) /\ Written(TailCall(scratch, args))
  BY <1>1, <1>2, <1>4, <1>5, <1>6, CallWritten
<1> QED BY <1>7, <1>8

LEMMA ReturnsWritten ==
  ASSUME NEW op, Emits(op), op.id = "RETURN"
  PROVE  Written(Emitted(op))
<1> DEFINE N == Len(op.args)
           values == [n \in DOMAIN op.args |-> location[op.args[n].n]]
<1>1. HomesKnown /\ op \in Op /\ scratch \in Scratches
  BY DEF Emits, HomesKnown
<1>2. N \in Nat /\ DOMAIN op.args = 1 .. N
  BY <1>1, ArgumentCount
<1>3. \A n \in 1 .. N : op.args[n].kind = "VAR" /\ InPlace(location[op.args[n].n])
  BY <1>2, Tables DEF Emits, Fits
<1>4. \A n \in 1 .. N : values[n] \in Place
  <2> SUFFICES ASSUME NEW n \in 1 .. N PROVE values[n] \in Place
    OBVIOUS
  <2>1. op.args[n] \in Operand
    BY <1>1, OperandIs
  <2>2. op.args[n].n \in Var
    BY <1>3, <2>1 DEF Operand
  <2>3. location[op.args[n].n] # NoLoc
    BY <1>3 DEF InPlace, NoLoc
  <2>4. values[n] = location[op.args[n].n]
    BY <1>2
  <2> QED BY <1>1, <2>2, <2>3, <2>4 DEF HomesKnown
<1>5. values = [n \in 1 .. N |-> values[n]]
  BY <1>2
<1>6. Emitted(op) = Return(scratch, values, NeedEpilog)
  BY Tables DEF Emitted
<1> HIDE DEF N, values
<1> QED BY <1>1, <1>2, <1>4, <1>5, <1>6, ReturnWritten

(* What is written for an op whose operands fit. *)
LEMMA EmittedWritten ==
  ASSUME NEW op, Emits(op), NEW outs, WellFormed(op, outs)
  PROVE  Written(Emitted(op))
<1>1. op.id \in Arithmetics \cup {"IMM", "BITCAST", "ZEROEXT", "SIGNEXT", "LOAD", "STORE", "PLACE",
        "EA", "LOAD_EA", "STORE_EA", "X86_CMP", "X86_SETCC", "X86_CMOV", "X86_JMPCC", "GOTO",
        "LABEL", "CALL", "TAILCALL", "RETURN"}
  <2>1. op.id \in OpId
    BY DEF Emits, Op
  <2>2. op.id \notin Compares \cup {"CMOV", "COND"}
    BY Tables DEF Emits, Fits, Compares
  <2> QED BY <2>1, <2>2 DEF OpId, Extensions
<1>2. op.id \in {"CALL", "TAILCALL"} => Len(op.args) <= Len(ArgRegs)
  BY DEF WellFormed
<1> QED BY <1>1, <1>2, JumpsWritten, MovesWritten, MemoryWritten, AddressesWritten,
           ArithmeticWritten, ComparisonsWritten, CallsWritten, ReturnsWritten

-----------------------------------------------------------------------------
(* The instructions so far.                                                *)
Writing == {"moves", "emit", "done"}

WritingInv ==
  /\ phase \notin Writing => asm = <<>>
  /\ phase \in {"stack", "prologue", "moves", "emit"} => cur \in Nat
  /\ OperandsFit => Written(asm)

LEMMA OperandsStay ==
  ASSUME UNCHANGED <<ops, location, toMove>>
  PROVE  OperandsFit' <=> OperandsFit
BY DEF OperandsFit, Fits, Loc, InPlace

LEMMA BeforeWriting ==
  ASSUME WritingInv, asm' = asm, phase \notin Writing, phase' \notin Writing,
         phase' \in {"stack", "prologue"} => cur' \in Nat
  PROVE  WritingInv'
<1>1. asm' = <<>>
  BY DEF WritingInv
<1>2. Written(asm')
  BY <1>1, WrittenNone
<1>3. phase' \notin {"moves", "emit"}
  BY DEF Writing
<1> QED BY <1>1, <1>2, <1>3 DEF WritingInv

LEMMA RewritingKeepsWriting ==
  ASSUME WritingInv, Fuse \/ TestVariable \/ RemoveUnused \/ NextPhase
  PROVE  WritingInv'
<1>1. asm' = asm /\ phase \in Early /\ phase' \in Early
  BY DEF Early, Fuse, TestVariable, RemoveUnused, NextPhase
<1> QED BY <1>1, BeforeWriting DEF Early, Writing

LEMMA AllocatingKeepsWriting ==
  ASSUME WritingInv, AllocStep, asm' = asm
  PROVE  WritingInv'
<1>1. CASE Setup \/ AssignRegister \/ PinReturn
  <2>1. phase \notin Writing /\ phase' \in {"registers", "parameters"}
    BY <1>1 DEF Setup, AssignRegister, PinReturn, Writing
  <2> QED BY <2>1, BeforeWriting DEF Writing
<1>2. CASE PlaceParam \/ KeepParam \/ MoveParam \/ SpillParam
  <2>1. phase = "parameters" /\ phase' = phase
    BY <1>2 DEF PlaceParam, KeepParam, MoveParam, SpillParam, NextParam
  <2> QED BY <2>1, BeforeWriting DEF Writing
<1>3. CASE ParamsEnd
  <2>1. phase = "parameters" /\ phase' = "stack" /\ cur' = 0
    BY <1>3 DEF ParamsEnd
  <2> QED BY <2>1, BeforeWriting DEF Writing
<1>4. CASE Spill \/ SpillingEnds
  <2>1. phase = "stack" /\ phase' \in {"stack", "prologue"} /\ cur' = cur
    BY <1>4 DEF Spill, SpillingEnds
  <2> QED BY <2>1, BeforeWriting DEF Writing, WritingInv
<1> QED BY <1>1, <1>2, <1>3, <1>4 DEF AllocStep

LEMMA PrologueWritten ==
  ASSUME WritingInv, Prologue
  PROVE  WritingInv'
<1> DEFINE enter == IF NeedEpilog THEN Enter ELSE <<>>
           reserve == IF NeedProlog THEN <<Instr("reserve", NoLoc, Imm(8, Reserved))>> ELSE <<>>
<1>1. phase = "prologue" /\ phase' = "moves" /\ asm' = enter \o reserve /\ cur' = cur
  BY DEF Prologue
<1>2. Written(enter) /\ Written(reserve)
  BY EnterWritten, FreeEncodable, WrittenNone
<1> HIDE DEF enter, reserve
<1>3. Written(asm')
  BY <1>1, <1>2, WrittenBoth
<1> QED BY <1>1, <1>3 DEF WritingInv, Writing

LEMMA MoveParamsWritten ==
  ASSUME AllocInv, WritingInv, MoveParams
  PROVE  WritingInv'
<1> DEFINE m == [n \in DOMAIN toMove |->
                   Move(scratch, toMove[n].argLoc, location[toMove[n].var], FALSE)]
<1>1. /\ phase = "moves" /\ phase' = "emit" /\ asm' = asm \o FlattenSeq(m) /\ cur' = cur
      /\ UNCHANGED <<ops, location, toMove>>
  BY DEF MoveParams, given, allocation
<1>2. Allocating /\ OpsKnown /\ HomesKnown /\ scratch \in Scratches
  BY <1>1, AllocatedHomes, HomesAreKnown DEF Allocated, HomesKnown
<1>3. ASSUME OperandsFit, NEW n \in DOMAIN toMove
      PROVE  Written(Move(scratch, toMove[n].argLoc, location[toMove[n].var], FALSE))
  <2> DEFINE v == toMove[n].var
             from == toMove[n].argLoc
  <2>1. PICK k \in Past : toMove[n] = Passage(k)
    BY <1>2, MovedParams DEF Allocating
  <2>2. v = Ins[k] /\ from = Reg(TypeSize[v], ArgRegs[k])
    BY <2>1 DEF Passage
  <2>3. v \in Var /\ ArgRegs[k] \in Regs
    BY <1>2, <2>1, <2>2, ArgRegsKnown, RegAllocAssumption DEF OpsKnown, Past, Ins
  <2>4. TypeSize[v] \in Width
    BY <2>3, IntExecAssumption DEF Width
  <2>5. from \in Source /\ from.width = TypeSize[v]
    BY <2>2, <2>3, <2>4, Made DEF Source
  <2>6. InPlace(location[v])
    BY <1>3 DEF OperandsFit
  <2>7. location[v] # NoLoc
    BY <2>6 DEF InPlace, NoLoc
  <2>8. location[v] \in Place
    BY <1>2, <2>3, <2>7 DEF HomesKnown
  <2>9. location[v].width = TypeSize[v]
    BY <2>3, <2>7, TypeOKFromInv DEF TypeOK
  <2>10. from.width >= location[v].width
    BY <2>4, <2>5, <2>9 DEF Width
  <2> HIDE DEF v, from
  <2>11. Written(Move(scratch, from, location[v], FALSE))
    BY <1>2, <2>5, <2>8, <2>10, TwoFree, NarrowMoveWritten
  <2> QED BY <2>11 DEF v, from
<1>4. OperandsFit => Written(FlattenSeq(m))
  <2> SUFFICES ASSUME OperandsFit PROVE Written(FlattenSeq(m))
    OBVIOUS
  <2> DEFINE N == Len(toMove)
  <2>1. N \in Nat /\ DOMAIN toMove = 1 .. N
    BY <1>2 DEF Allocating, OnTheWay
  <2>2. m = [n \in 1 .. N |-> m[n]]
    BY <2>1
  <2>3. \A n \in 1 .. N : Written(m[n])
    BY <1>3, <2>1
  <2> HIDE DEF m, N
  <2> QED BY <2>1, <2>2, <2>3, WrittenFlat
<1> HIDE DEF m
<1>5. OperandsFit' => Written(asm')
  BY <1>1, <1>4, OperandsStay, WrittenBoth DEF WritingInv
<1> QED BY <1>1, <1>5 DEF WritingInv, Writing

LEMMA EmitOpWritten ==
  ASSUME AllocInv, WritingInv, EmitOp
  PROVE  WritingInv'
<1>1. /\ phase = "emit" /\ phase' = "emit" /\ cur < Len(ops) /\ cur' = cur + 1
      /\ asm' = asm \o Emitted(ops[cur + 1]) /\ UNCHANGED <<ops, location, toMove>>
  BY DEF EmitOp, given, allocation
<1>2. OpsKnown /\ HomesKnown /\ cur \in Nat
  BY <1>1, AllocatedHomes, HomesAreKnown DEF Allocated, WritingInv
<1>3. cur + 1 \in DOMAIN ops
  BY <1>1, <1>2 DEF OpsKnown
<1> DEFINE op == ops[cur + 1]
<1>4. WellFormed(op, fn.outs) /\ op \in Op
  BY <1>2, <1>3 DEF OpsKnown, WellFormed
<1>5. OperandsFit => Fits(op)
  BY <1>3 DEF OperandsFit
<1> HIDE DEF op
<1>6. OperandsFit => Written(Emitted(op))
  BY <1>2, <1>4, <1>5, EmittedWritten DEF Emits
<1>7. asm' = asm \o Emitted(op)
  BY <1>1 DEF op
<1>8. OperandsFit' => Written(asm')
  BY <1>1, <1>6, <1>7, OperandsStay, WrittenBoth DEF WritingInv
<1> QED BY <1>1, <1>2, <1>8 DEF WritingInv, Writing

LEMMA StillWritten ==
  ASSUME WritingInv, EmitEnds \/ UNCHANGED vars
  PROVE  WritingInv'
<1>1. asm' = asm /\ cur' = cur /\ UNCHANGED <<ops, location, toMove>>
  BY DEF EmitEnds, vars, allocVars, given, allocation
<1>2. OperandsFit' => Written(asm')
  BY <1>1, OperandsStay DEF WritingInv
<1>3. phase' = phase \/ (phase = "emit" /\ phase' = "done")
  BY DEF EmitEnds, vars, allocVars
<1> QED BY <1>1, <1>2, <1>3 DEF WritingInv, Writing

LEMMA WritingInvAlways == Spec => []WritingInv
<1>1. Init => WritingInv
  BY WrittenNone DEF Init, WritingInv, Writing
<1>2. AllocInv /\ WritingInv /\ [Next]_vars => WritingInv'
  BY RewritingKeepsWriting, AllocatingKeepsWriting, PrologueWritten, MoveParamsWritten,
     EmitOpWritten, StillWritten DEF Next, Done
<1> QED BY <1>1, <1>2, AllocInvAlways, PTL DEF Spec

-----------------------------------------------------------------------------
(* The theorems. *)

(* Every home is an operand of the width of its variable that an           *)
(* instruction can name, and the lists of the allocator hold what they are *)
(* lists of: vx_cg_x86stupid_gen up to the loop over the ops.              *)
THEOREM Types == Spec => []TypeOK
BY AllocInvAlways, TypeOKFromInv, PTL

(* No two variables live in the same register or in overlapping bytes of   *)
(* the stack, and none in a scratch register: the five sources of homes of *)
(* vx_cg_x86stupid_gen do not interfere.                                   *)
THEOREM HomesStayApart == Spec => []HomesDistinct
BY AllocInvAlways, HomesDistinctFromInv, PTL

(* The moves of parameters and arguments, one after the other, never       *)
(* overwrite what a later one reads.                                       *)
THEOREM MovesInOrder == Spec => []MovesDoNotCollide
BY AllocInvAlways, MovesDoNotCollideFromInv, PTL

(* The stack slots of a function are its own, but in a leaf without red    *)
(* zone: it reserves the rest of a red zone that it does not have.         *)
THEOREM SlotsOwnedButOne == Spec => []((noRedZone /\ IsLeaf) \/ SlotsOwned)
BY AllocInvAlways, SlotsOwnedFromInv, PTL

(* So they are on every target that has a red zone. *)
THEOREM SlotsAreOwned ==
  ASSUME NoRedZone = {FALSE}
  PROVE  Spec => []SlotsOwned
<1> DEFINE HasRedZone == noRedZone = FALSE
<1>1. Init => HasRedZone
  BY DEF Init, AllocInit
<1>2. HasRedZone /\ [Next]_vars => HasRedZone'
  BY DEF Next, vars, allocVars, given, Fuse, TestVariable, RemoveUnused, NextPhase,
         AllocStep, Setup, AssignRegister, PinReturn, NextParam, PlaceParam, KeepParam, MoveParam,
         SpillParam, ParamsEnd, Spill, SpillingEnds, Prologue, MoveParams, EmitOp, EmitEnds, Done
<1>3. HasRedZone /\ ((noRedZone /\ IsLeaf) \/ SlotsOwned) => SlotsOwned
  OBVIOUS
<1> HIDE DEF HasRedZone
<1> QED BY <1>1, <1>2, <1>3, SlotsOwnedButOne, PTL DEF Spec

(* Whatever the function, and wherever its variables live: if the operands *)
(* of the ops are ones that instruction selection can take, every          *)
(* instruction that it writes is one of the processor, and none of its     *)
(* assertions stops it (vx_cg_x86stupid_gen and the emit functions).       *)
THEOREM AssemblesWhatFits == Spec => [](OperandsFit => Assembles)
<1>1. WritingInv => (OperandsFit => Assembles)
  BY WrittenAll DEF WritingInv, Assembles
<1> QED BY <1>1, WritingInvAlways, PTL

=============================================================================
