--------------------------- MODULE SlotShareProofs ---------------------------
(***************************************************************************)
(* Proofs about the sharing of slots, for every set of programs and every  *)
(* size: the lifetimes the merge decides from stay true to the program     *)
(* while it renames variables; and a program in which jumps lead forward   *)
(* and no local is used on both sides of a GOTO or RETURN computes after   *)
(* the merges what it computed before.                                     *)
(***************************************************************************)
EXTENDS SlotShare, LlirExecProofs

LEMMA FirstOfSlots ==
  ASSUME NEW S \in SUBSET Slot
  PROVE  FirstOf(S) \in Slot \cup {0}
<1>1. S \in SUBSET Nat
  BY DEF Slot
<1> QED BY <1>1, MinIsLeast DEF FirstOf

-----------------------------------------------------------------------------
(* The parts of the schedule by their place in it. *)
LEMMA SchedulePlaces ==
  ASSUME NEW part, Running(part), step \in 1 .. Len(Schedule) + 1
  PROVE  /\ step \in 1 .. 7 /\ Len(Schedule) = 7
         /\ part = "fix_decl" => step \in {1, 7}
         /\ part = "lifetimes" => step = 2
         /\ part = "share_slots" => step = 3
         /\ part = "ll_inlineVars" => step \in {4, 5}
         /\ part = "ll_binary" => step = 6
BY DEF Running, Done, Schedule

LEMMA SharesAtThree ==
  ASSUME step \in 1 .. Len(Schedule) + 1
  PROVE  Running("share_slots") <=> step = 3
BY DEF Running, Done, Schedule

(* Nothing has been merged before lifetimes are known; a PLACE names a     *)
(* variable, which inlining leaves alone.                                  *)
Unmerged == step <= 2 => renamed = {}

PlaceShape == \A i \in Slot : code[i].id = "PLACE" => code[i].a \in Var

IInv == TypeOK /\ PlaceShape /\ Unmerged /\ LifetimesCover

(* Replacing operands keeps an op an op, and removes the variable. *)
LEMMA SubstituteOp ==
  ASSUME NEW op \in Op, NEW v, NEW x \in Val \cup {None}
  PROVE  /\ Substitute(op, v, x) \in Op
         /\ Substitute(op, v, x).id = op.id
         /\ Substitute(op, v, x).out = op.out
         /\ x # v => ~VarUsed(Substitute(op, v, x), v)
         /\ \A u : VarUsed(Substitute(op, v, x), u) =>
                   \/ VarUsed(op, u)
                   \/ u = x /\ VarUsed(op, v)
BY ZenonT(60) DEF Substitute, Op, VarUsed

LEMMA InitIInv == Init => IInv
<1> SUFFICES ASSUME NEW p \in Programs,
                    code = [s \in Slot |-> IF s % 2 = 0 /\ s \div 2 <= Len(p)
                              THEN p[s \div 2] ELSE Unused],
                    alive = {2 * i : i \in DOMAIN p},
                    step = 1, cur = 0,
                    decl = [v \in Var |-> 0], labels = [l \in Label |-> 0],
                    typed = {}, placed = {}, renamed = {},
                    lifetime = [v \in Var |-> {}]
             PROVE  IInv
  BY DEF Init
<1>1. /\ p \in Seq(Op) /\ Len(p) <= MaxOps /\ Len(p) \in Nat
      /\ DOMAIN p = 1 .. Len(p)
      /\ \A i \in DOMAIN p : p[i].id = "PLACE" => p[i].a \in Var
  BY SlotShareAssumption
<1>2. \A s \in Slot : s % 2 = 0 /\ s \div 2 <= Len(p) => s \div 2 \in DOMAIN p
  BY <1>1, LlirAssumption DEF Slot
<1>3. Unused \in Op /\ Unused.id = "UNUSED"
  BY DEF Unused, MakeOp, Op, OpId
<1>4. code \in [Slot -> Op] /\ PlaceShape
  BY <1>1, <1>2, <1>3 DEF PlaceShape
<1>5. alive \subseteq Slot
  BY <1>1, LlirAssumption DEF Slot
<1>6. step \in 1 .. Len(Schedule) + 1
  BY DEF Schedule
<1>7. TypeOK
  <2> HIDE DEF Slot
  <2> QED BY <1>4, <1>5, <1>6 DEF TypeOK
<1>8. LifetimesCover
  BY <1>6, SharesAtThree DEF LifetimesCover
<1> QED BY <1>4, <1>7, <1>8 DEF IInv, Unmerged

-----------------------------------------------------------------------------
(* Away from the merge, a step that keeps the types keeps the invariant. *)
LEMMA OutsideKeepsIInv ==
  ASSUME IInv, TypeOK', PlaceShape', step' # 3,
         step' <= 2 => renamed' = renamed /\ step <= 2
  PROVE  IInv'
<1>1. LifetimesCover'
  <2>1. step' \in 1 .. Len(Schedule) + 1
    BY DEF TypeOK
  <2>2. ~ Running("share_slots")'
    BY <2>1 DEF Running, Done, Schedule
  <2> QED BY <2>2 DEF LifetimesCover
<1>2. Unmerged'
  BY DEF IInv, Unmerged
<1> QED BY <1>1, <1>2 DEF IInv

LEMMA PlacedIsVars ==
  ASSUME IInv
  PROVE  PlacedVars \subseteq Var
BY DEF IInv, TypeOK, PlaceShape, PlacedVars

LEMMA FixDeclKeeps == IInv /\ FixDecl => IInv'
<1> SUFFICES ASSUME IInv, FixDecl PROVE IInv'
  OBVIOUS
<1>1. /\ step \in {1, 7} /\ step' = step + 1 /\ Len(Schedule) = 7
      /\ cur' = 0
  BY SchedulePlaces DEF FixDecl, Ends, IInv, TypeOK
<1>2. decl' \in [Var -> Slot \cup {0}]
  <2>1. \A v \in Var : {i \in alive : VarInOuts(code[i], v)} \in SUBSET Slot
    BY DEF IInv, TypeOK
  <2> QED BY <2>1, FirstOfSlots DEF FixDecl
<1>3. labels' \in [Label -> Slot \cup {0}]
  <2>1. \A l \in Label : {i \in alive : Declares(i, l)} \in SUBSET Slot
    BY DEF IInv, TypeOK
  <2> QED BY <2>1, FirstOfSlots DEF FixDecl
<1>4. typed' \subseteq Var /\ placed' \subseteq Var
  BY PlacedIsVars, SlotShareAssumption DEF FixDecl
<1>5. TypeOK'
  BY <1>1, <1>2, <1>3, <1>4 DEF TypeOK, IInv, FixDecl, program, sharing
<1>6. PlaceShape'
  BY DEF PlaceShape, IInv, FixDecl, program
<1> QED BY <1>1, <1>5, <1>6, OutsideKeepsIInv DEF FixDecl, sharing

LEMMA LifetimesKeeps == IInv /\ Lifetimes => IInv'
<1> SUFFICES ASSUME IInv, Lifetimes PROVE IInv'
  OBVIOUS
<1>1. step = 2 /\ step' = 3 /\ cur' = 0 /\ Len(Schedule) = 7
  BY SchedulePlaces DEF Lifetimes, Ends, IInv, TypeOK
<1>2. renamed = {} /\ renamed' = {} /\ code' = code /\ alive' = alive
  BY <1>1 DEF IInv, Unmerged, Lifetimes, program
<1>3. lifetime' \in [Var -> SUBSET Places]
  BY DEF Lifetimes, Mentions, Places, IInv, TypeOK
<1>4. placed' \subseteq Var
  BY PlacedIsVars DEF Lifetimes, IInv, TypeOK
<1>5. TypeOK'
  BY <1>1, <1>2, <1>3, <1>4 DEF TypeOK, IInv, Lifetimes, program
<1>6. PlaceShape' /\ Unmerged'
  BY <1>1, <1>2 DEF PlaceShape, Unmerged, IInv
<1>7. LifetimesCover'
  BY <1>2 DEF LifetimesCover, Lifetimes, Mentions
<1> QED BY <1>5, <1>6, <1>7 DEF IInv

-----------------------------------------------------------------------------
(* Merging "old" into "new": the mentions of the one become mentions of    *)
(* the other, and no others change.                                        *)
LEMMA MergeMentions ==
  ASSUME IInv, NEW old \in Var, NEW new \in Var, old # new,
         RenameVar(old, new), alive' = alive
  PROVE  /\ code' \in [Slot -> Op] /\ PlaceShape'
         /\ decl' \in [Var -> Slot \cup {0}]
         /\ Mentions(old)' = {}
         /\ Mentions(new)' \subseteq Mentions(new) \cup Mentions(old)
         /\ \A u \in Var \ {old, new} : Mentions(u)' \subseteq Mentions(u)
<1>1. /\ code \in [Slot -> Op] /\ alive \subseteq Slot
      /\ decl \in [Var -> Slot \cup {0}]
  BY DEF IInv, TypeOK
<1> DEFINE Ren(op) == [Substitute(op, old, new) EXCEPT
                         !.out = IF @ = old THEN new ELSE @]
<1>2. \A j \in Slot : code'[j] = IF j \in alive THEN Ren(code[j]) ELSE code[j]
  BY DEF RenameVar
<1>3. ASSUME NEW op \in Op
      PROVE  /\ Ren(op) \in Op /\ Ren(op).id = op.id
             /\ ~VarUsed(Ren(op), old) /\ ~VarInOuts(Ren(op), old)
             /\ \A u : VarUsed(Ren(op), u) \/ VarInOuts(Ren(op), u) =>
                  \/ VarUsed(op, u) \/ VarInOuts(op, u)
                  \/ u = new /\ (VarUsed(op, old) \/ VarInOuts(op, old))
             /\ op.a \in Var => Ren(op).a \in Var
  <2> DEFINE s == Substitute(op, old, new)
  <2>1. /\ s \in Op /\ s.id = op.id /\ s.out = op.out
        /\ ~VarUsed(s, old)
        /\ \A u : VarUsed(s, u) => VarUsed(op, u) \/ (u = new /\ VarUsed(op, old))
    BY SubstituteOp DEF Val
  <2>2. op.a \in Var => s.a \in Var
    BY DEF Substitute, Op
  <2>3. Ren(op) = [s EXCEPT !.out = IF @ = old THEN new ELSE @]
    OBVIOUS
  <2> HIDE DEF s, Ren
  <2> QED BY <2>1, <2>2, <2>3 DEF Op, VarUsed, VarInOuts
<1> HIDE DEF Ren
<1>4. code' \in [Slot -> Op]
  BY <1>1, <1>2, <1>3 DEF RenameVar, Ren
<1>5. PlaceShape'
  BY <1>1, <1>2, <1>3 DEF PlaceShape, IInv
<1>6. decl' \in [Var -> Slot \cup {0}]
  <2>1. {i \in alive : VarInOuts(code[i], old)} \in SUBSET Slot
    BY <1>1
  <2>2. FirstOf({i \in alive : VarInOuts(code[i], old)}) \in Slot \cup {0}
    BY <2>1, FirstOfSlots
  <2> QED BY <1>1, <2>2 DEF RenameVar
<1>7. \A u : \A i \in Mentions(u)' :
         /\ i \in alive /\ u # old
         /\ i \in Mentions(u) \/ (u = new /\ i \in Mentions(old))
  BY <1>1, <1>2, <1>3 DEF Mentions
<1> QED BY <1>4, <1>5, <1>6, <1>7

LEMMA MergeKeeps ==
  ASSUME IInv, NEW v \in Var, Turn(v), cur' \in {cur, v},
         NEW old \in Var, NEW new \in Var, old # new,
         Considered(old), Considered(new), Merge(old, new)
  PROVE  IInv'
<1>1. /\ step = 3 /\ step' = 3 /\ alive' = alive /\ RenameVar(old, new)
      /\ Running("share_slots")
  BY SchedulePlaces DEF Turn, Merge, IInv, TypeOK
<1>2. /\ code' \in [Slot -> Op] /\ PlaceShape'
      /\ decl' \in [Var -> Slot \cup {0}]
      /\ Mentions(old)' = {}
      /\ Mentions(new)' \subseteq Mentions(new) \cup Mentions(old)
      /\ \A u \in Var \ {old, new} : Mentions(u)' \subseteq Mentions(u)
  BY <1>1, MergeMentions
<1>3. /\ renamed' = renamed \cup {old}
      /\ lifetime' = [lifetime EXCEPT ![new] = @ \cup lifetime[old]]
      /\ lifetime \in [Var -> SUBSET Places]
  BY DEF Merge, IInv, TypeOK
<1>4. old \notin Ins \cup renamed /\ new \notin renamed
  BY DEF Considered
<1>5. lifetime' \in [Var -> SUBSET Places] /\ renamed' \subseteq Var \ Ins
  BY <1>3, <1>4 DEF IInv, TypeOK
<1>6. TypeOK'
  BY <1>1, <1>2, <1>5 DEF TypeOK, IInv, Turn
<1>7. \A u \in Var : Mentions(u) \subseteq IF u \in renamed THEN {} ELSE lifetime[u]
  BY <1>1 DEF IInv, LifetimesCover
<1>8. \A u \in Var :
        Mentions(u)' \subseteq IF u \in renamed' THEN {} ELSE lifetime'[u]
  <2> SUFFICES ASSUME NEW u \in Var
               PROVE  Mentions(u)' \subseteq IF u \in renamed' THEN {} ELSE lifetime'[u]
    OBVIOUS
  <2>1. CASE u = old
    BY <2>1, <1>2
  <2>2. CASE u = new
    BY <2>2, <1>2, <1>3, <1>4, <1>7
  <2>3. CASE u \notin {old, new}
    BY <2>3, <1>2, <1>3, <1>7
  <2> QED BY <2>1, <2>2, <2>3
<1>9. LifetimesCover'
  BY <1>8 DEF LifetimesCover, Mentions
<1> QED BY <1>1, <1>2, <1>6, <1>9 DEF IInv, Unmerged

LEMMA ShareKeeps == IInv /\ Share => IInv'
<1> SUFFICES ASSUME IInv, NEW v \in Var,
                    PassOver(v) \/ \E w \in Var : Absorb(v, w) \/ Join(v, w)
             PROVE  IInv'
  BY DEF Share
<1>1. CASE PassOver(v)
  <2>1. Turn(v) /\ UNCHANGED <<code, alive, decl, lifetime, renamed, step>>
    BY <1>1 DEF PassOver, Turn, sharing
  <2>2. TypeOK'
    BY <1>1, <2>1 DEF TypeOK, IInv, PassOver, Turn
  <2>3. PlaceShape' /\ Unmerged'
    BY <2>1 DEF PlaceShape, Unmerged, IInv
  <2>4. LifetimesCover'
    BY <2>1 DEF LifetimesCover, IInv, Mentions, Running, Done
  <2> QED BY <2>2, <2>3, <2>4 DEF IInv
<1>2. ASSUME NEW w \in Var, Absorb(v, w)
      PROVE  IInv'
  <2>1. /\ Turn(v) /\ Merge(w, v) /\ cur' = cur
        /\ Considered(v) /\ Considered(w) /\ w # v
    BY <1>2 DEF Absorb, FirstPartner, Partners
  <2> QED BY <2>1, MergeKeeps
<1>3. ASSUME NEW w \in Var, Join(v, w)
      PROVE  IInv'
  <2>1. /\ Turn(v) /\ Merge(v, w) /\ cur' = v
        /\ Considered(v) /\ Considered(w) /\ w # v
    BY <1>3 DEF Join, FirstPartner, Partners
  <2> QED BY <2>1, MergeKeeps
<1> QED BY <1>1, <1>2, <1>3

-----------------------------------------------------------------------------
LEMMA EndsKeep == IInv /\ (SharingEnds \/ PassEnds) => IInv'
<1> SUFFICES ASSUME IInv, SharingEnds \/ PassEnds PROVE IInv'
  OBVIOUS
<1>1. /\ step \in 3 .. 6 /\ step' = step + 1 /\ cur' = 0 /\ Len(Schedule) = 7
      /\ UNCHANGED <<code, alive, decl, labels, typed, placed, lifetime, renamed>>
  <2>1. \/ Running("share_slots") \/ Running("ll_inlineVars") \/ Running("ll_binary")
    BY DEF SharingEnds, PassEnds
  <2>2. step \in 3 .. 6 /\ Len(Schedule) = 7
    BY <2>1, SchedulePlaces DEF IInv, TypeOK
  <2> QED BY <2>2 DEF SharingEnds, PassEnds, Ends, program, tables, sharing
<1>2. TypeOK'
  BY <1>1 DEF TypeOK, IInv
<1>3. PlaceShape'
  BY <1>1 DEF PlaceShape, IInv
<1> QED BY <1>1, <1>2, <1>3, OutsideKeepsIInv

(* A visit of a pass leaves the tables alone. *)
LEMMA VisitsMoves ==
  ASSUME IInv, NEW i \in Slot, NEW pass, pass \in {"ll_inlineVars", "ll_binary"},
         Visits(pass, i), alive' \subseteq alive, code' \in [Slot -> Op], PlaceShape'
  PROVE  IInv'
<1>1. /\ step \in 4 .. 6 /\ step' = step /\ cur' = i
      /\ UNCHANGED <<decl, labels, typed, placed, lifetime, renamed>>
  BY SchedulePlaces DEF Visits, tables, sharing, IInv, TypeOK
<1>2. TypeOK'
  BY <1>1 DEF TypeOK, IInv
<1> QED BY <1>1, <1>2, OutsideKeepsIInv

LEMMA RewriteKeeps == IInv /\ Rewrite => IInv'
<1> SUFFICES ASSUME IInv, NEW i \in Slot, InlineImm(i) \/ SwapOperands(i)
             PROVE  IInv'
  BY DEF Rewrite
<1>1. code \in [Slot -> Op] /\ PlaceShape
  BY DEF IInv, TypeOK
<1>2. CASE InlineImm(i)
  <2>1. Visits("ll_inlineVars", i) /\ alive' \subseteq alive
    BY <1>2 DEF InlineImm
  <2>2. code' = code \/ code' = Inlined(code, alive, i)
    BY <1>2 DEF InlineImm
  <2>3. code[i].a \in Val \cup {None}
    BY <1>1 DEF Op
  <2>4. \A j \in Slot : /\ Substitute(code[j], code[i].out, code[i].a) \in Op
                         /\ Substitute(code[j], code[i].out, code[i].a).id = code[j].id
    BY <1>1, <2>3, SubstituteOp
  <2>5. code' \in [Slot -> Op] /\ PlaceShape'
    BY <1>1, <2>2, <2>4 DEF Inlined, PlaceShape
  <2> QED BY <2>1, <2>5, VisitsMoves
<1>3. CASE SwapOperands(i)
  <2>1. Visits("ll_binary", i) /\ alive' \subseteq alive
    BY <1>3 DEF SwapOperands
  <2>2. code[i].id = "OR"
    BY <2>1 DEF Visits, Wanted, Wants
  <2>3. code' \in [Slot -> Op] /\ PlaceShape'
    BY <1>1, <1>3, <2>2, ZenonT(60) DEF SwapOperands, PlaceShape, Op
  <2> QED BY <2>1, <2>3, VisitsMoves
<1> QED BY <1>2, <1>3

LEMMA StepIInv == IInv /\ [Next]_vars => IInv'
<1> SUFFICES ASSUME IInv, [Next]_vars PROVE IInv'
  OBVIOUS
<1>1. CASE UNCHANGED vars
  BY <1>1 DEF vars, program, tables, sharing, IInv, TypeOK, PlaceShape, Unmerged,
              LifetimesCover, Mentions, Running, Done
<1> QED BY <1>1, FixDeclKeeps, LifetimesKeeps, ShareKeeps, EndsKeep, RewriteKeeps
        DEF Next, Terminated

-----------------------------------------------------------------------------
(* The types of variables.  They are collected once more at the very end,  *)
(* from the outputs that are left by then, so what has to survive the      *)
(* renaming and the inlining is that a variable is assigned in front of    *)
(* each of its uses.  Without "in front" this would not be inductive: of   *)
(* y <- x; x <- y nothing but x <- x would be left to declare x, which is  *)
(* removed.                                                                *)
DeclaredAbove(v, k) ==
  v \in Ins \/ \E j \in alive : j < k /\ VarInOuts(code[j], v)

UsesDeclared ==
  \A k \in alive, v \in Var : VarUsed(code[k], v) => DeclaredAbove(v, k)

TypesInv == UsesDeclared /\ TypesKnown

LEMMA DoneIsLast ==
  ASSUME step \in 1 .. Len(Schedule) + 1
  PROVE  Done <=> step = 8
BY DEF Done, Schedule

LEMMA NotDoneNext ==
  ASSUME IInv', step' # 8
  PROVE  TypesKnown'
<1>1. step' \in 1 .. Len(Schedule) + 1
  BY DEF IInv, TypeOK
<1> QED BY <1>1 DEF TypesKnown, Done, Schedule

LEMMA InitTypesInv == Init => TypesInv
<1> SUFFICES ASSUME NEW p \in Programs,
                    code = [s \in Slot |-> IF s % 2 = 0 /\ s \div 2 <= Len(p)
                              THEN p[s \div 2] ELSE Unused],
                    alive = {2 * i : i \in DOMAIN p}, step = 1
             PROVE  TypesInv
  BY DEF Init
<1>1. /\ p \in Seq(Op) /\ Len(p) <= MaxOps /\ Len(p) \in Nat
      /\ DOMAIN p = 1 .. Len(p) /\ MaxOps \in Nat
  BY SlotShareAssumption, LlirAssumption
<1>2. \A i \in DOMAIN p : 2 * i \in Slot /\ code[2 * i] = p[i]
  BY <1>1 DEF Slot
<1>3. UsesDeclared
  <2> SUFFICES ASSUME NEW i \in DOMAIN p, NEW v \in Var \ Ins, VarUsed(p[i], v)
               PROVE  \E j \in alive : j < 2 * i /\ VarInOuts(code[j], v)
    BY <1>2 DEF UsesDeclared, DeclaredAbove
  <2>1. PICK d \in 1 .. i - 1 : VarInOuts(p[d], v)
    BY SlotShareAssumption DEF AssignedAbove
  <2>2. d \in DOMAIN p /\ 2 * d < 2 * i /\ 2 * d \in alive
    BY <1>1, <2>1
  <2> QED BY <1>2, <2>1, <2>2
<1>4. TypesKnown
  BY DEF TypesKnown, Done, Schedule
<1> QED BY <1>3, <1>4 DEF TypesInv

(* What leaves the program as it is keeps the invariant on the way. *)
LEMMA SameProgramKeepsTypes ==
  ASSUME IInv', TypesInv, UNCHANGED program, step' # 8
  PROVE  TypesInv'
BY NotDoneNext DEF TypesInv, UsesDeclared, DeclaredAbove, program

LEMMA FixDeclTypes == IInv /\ IInv' /\ TypesInv /\ FixDecl => TypesInv'
<1> SUFFICES ASSUME IInv, IInv', TypesInv, FixDecl PROVE TypesInv'
  OBVIOUS
<1>1. UsesDeclared'
  BY DEF TypesInv, UsesDeclared, DeclaredAbove, FixDecl, program
<1>2. \A v \in Var : Mentions(v) # {} => v \in typed'
  BY DEF TypesInv, UsesDeclared, DeclaredAbove, Mentions, FixDecl
<1>3. TypesKnown'
  BY <1>2 DEF TypesKnown, Mentions, FixDecl, program
<1> QED BY <1>1, <1>3 DEF TypesInv

(* Renaming moves the uses and the assignments of a variable alike. *)
LEMMA MergeTypes ==
  ASSUME IInv, IInv', TypesInv, NEW old \in Var \ Ins, NEW new \in Var, old # new,
         RenameVar(old, new), alive' = alive, step' = 3
  PROVE  TypesInv'
<1>1. /\ code \in [Slot -> Op] /\ alive \subseteq Slot
  BY DEF IInv, TypeOK
<1> DEFINE Ren(op) == [Substitute(op, old, new) EXCEPT
                         !.out = IF @ = old THEN new ELSE @]
<1>2. \A j \in alive : code'[j] = Ren(code[j])
  BY <1>1 DEF RenameVar
<1>3. ASSUME NEW op \in Op
      PROVE  /\ Ren(op).out = IF op.out = old THEN new ELSE op.out
             /\ ~VarUsed(Ren(op), old)
             /\ \A u : VarUsed(Ren(op), u) =>
                         VarUsed(op, u) \/ (u = new /\ VarUsed(op, old))
  <2> DEFINE s == Substitute(op, old, new)
  <2>1. /\ s \in Op /\ s.out = op.out /\ ~VarUsed(s, old)
        /\ \A u : VarUsed(s, u) => VarUsed(op, u) \/ (u = new /\ VarUsed(op, old))
    BY SubstituteOp DEF Val
  <2>2. Ren(op) = [s EXCEPT !.out = IF @ = old THEN new ELSE @]
    OBVIOUS
  <2> HIDE DEF s, Ren
  <2> QED BY <2>1, <2>2 DEF Op, VarUsed
<1> HIDE DEF Ren
<1>4. UsesDeclared'
  <2> SUFFICES ASSUME NEW k \in alive, NEW u \in Var, VarUsed(code'[k], u), u \notin Ins
               PROVE  \E j \in alive : j < k /\ code'[j].out = u
    BY DEF UsesDeclared, DeclaredAbove, VarInOuts
  <2>1. u # old /\ (VarUsed(code[k], u) \/ (u = new /\ VarUsed(code[k], old)))
    BY <1>1, <1>2, <1>3
  <2>2. PICK w \in Var \ Ins : VarUsed(code[k], w) /\ (w = u \/ (w = old /\ u = new))
    BY <2>1
  <2>3. PICK j \in alive : j < k /\ code[j].out = w
    BY <2>2 DEF TypesInv, UsesDeclared, DeclaredAbove, VarInOuts
  <2>4. code'[j].out = u
    BY <1>1, <1>2, <1>3, <2>1, <2>2, <2>3
  <2> QED BY <2>3, <2>4
<1> QED BY <1>4, NotDoneNext DEF TypesInv

LEMMA ShareTypes == IInv /\ IInv' /\ TypesInv /\ Share => TypesInv'
<1> SUFFICES ASSUME IInv, IInv', TypesInv, NEW v \in Var,
                    PassOver(v) \/ \E w \in Var : Absorb(v, w) \/ Join(v, w)
             PROVE  TypesInv'
  BY DEF Share
<1>1. Turn(v)
  BY DEF PassOver, Absorb, Join
<1>2. step' = 3 /\ alive' = alive
  BY <1>1, SchedulePlaces DEF Turn, IInv, TypeOK
<1>3. CASE PassOver(v)
  BY <1>2, <1>3, SameProgramKeepsTypes DEF PassOver, program
<1>4. ASSUME NEW w \in Var, Absorb(v, w) \/ Join(v, w)
      PROVE  TypesInv'
  <2>1. /\ Considered(v) /\ Considered(w) /\ w # v
        /\ Merge(w, v) \/ Merge(v, w)
    BY <1>4 DEF Absorb, Join, FirstPartner, Partners
  <2>2. v \in Var \ Ins /\ w \in Var \ Ins
    BY <2>1 DEF Considered
  <2> QED BY <1>2, <2>1, <2>2, MergeTypes DEF Merge
<1> QED BY <1>3, <1>4

LEMMA RewriteTypes == IInv /\ IInv' /\ TypesInv /\ Rewrite => TypesInv'
<1> SUFFICES ASSUME IInv, IInv', TypesInv, NEW i \in Slot,
                    InlineImm(i) \/ SwapOperands(i)
             PROVE  TypesInv'
  BY DEF Rewrite
<1>1. code \in [Slot -> Op] /\ alive \subseteq Slot /\ Slot \subseteq Int
  BY DEF IInv, TypeOK, Slot
<1>2. step' # 8 /\ i \in alive
  BY SchedulePlaces DEF InlineImm, SwapOperands, Visits, Wanted, After, IInv, TypeOK
<1>3. \A k \in alive, v \in Var : VarUsed(code[k], v) => DeclaredAbove(v, k)
  BY DEF TypesInv, UsesDeclared
<1>4. CASE InlineImm(i) /\ CopiesItself(code[i])
  <2>1. alive' = alive \ {i} /\ code' = code
    BY <1>4 DEF InlineImm
  <2>2. ASSUME NEW k \in alive, NEW v \in Var, VarUsed(code[k], v), v \notin Ins
        PROVE  \E j \in alive \ {i} : j < k /\ VarInOuts(code[j], v)
    <3>1. PICK j \in alive : j < k /\ VarInOuts(code[j], v)
      BY <1>3, <2>2 DEF DeclaredAbove
    <3>2. CASE j = i
      <4>1. VarUsed(code[i], v)
        BY <1>4, <3>1, <3>2 DEF CopiesItself, VarUsed, VarInOuts
      <4>2. PICK h \in alive : h < i /\ VarInOuts(code[h], v)
        BY <1>2, <1>3, <2>2, <4>1 DEF DeclaredAbove
      <4> QED BY <1>1, <3>1, <3>2, <4>2
    <3> QED BY <3>1, <3>2
  <2>3. UsesDeclared'
    BY <2>1, <2>2 DEF UsesDeclared, DeclaredAbove
  <2> QED BY <1>2, <2>3, NotDoneNext DEF TypesInv
<1>5. CASE InlineImm(i) /\ ~CopiesItself(code[i])
  <2> DEFINE o == code[i].out
             n == code[i].a
  <2>1. alive' = alive /\ code' = Inlined(code, alive, i)
    BY <1>5 DEF InlineImm
  <2>2. n \in Val \cup {None} /\ VarUsed(code[i], n)
    BY <1>1 DEF Op, VarUsed
  <2>3. ASSUME NEW k \in alive
        PROVE  /\ code'[k].out = code[k].out
               /\ \A v \in Var : VarUsed(code'[k], v) =>
                    VarUsed(code[k], v) \/ (v = n /\ i < k)
    <3>1. /\ Substitute(code[k], o, n).out = code[k].out
          /\ \A v : VarUsed(Substitute(code[k], o, n), v) =>
                      VarUsed(code[k], v) \/ v = n
      <4> HIDE DEF o, n
      <4> QED BY <1>1, <2>2, SubstituteOp
    <3>2. \/ code'[k] = code[k]
          \/ code'[k] = Substitute(code[k], o, n) /\ k \in InlineReach(code, alive, i)
      BY <1>1, <2>1 DEF Inlined
    <3>3. k \in InlineReach(code, alive, i) => i < k
      BY <1>1 DEF InlineReach, Segment, After
    <3> HIDE DEF o, n
    <3> QED BY <3>1, <3>2, <3>3
  <2> HIDE DEF o, n
  <2>4. ASSUME NEW k \in alive, NEW v \in Var, VarUsed(code'[k], v), v \notin Ins
        PROVE  \E j \in alive : j < k /\ code'[j].out = v
    <3>1. PICK h \in alive : VarUsed(code[h], v) /\ h <= k
      BY <1>1, <1>2, <2>2, <2>3, <2>4
    <3>2. PICK j \in alive : j < h /\ VarInOuts(code[j], v)
      BY <1>3, <2>4, <3>1 DEF DeclaredAbove
    <3> QED BY <1>1, <2>3, <3>1, <3>2 DEF VarInOuts
  <2>5. UsesDeclared'
    BY <2>1, <2>4 DEF UsesDeclared, DeclaredAbove, VarInOuts
  <2> QED BY <1>2, <2>5, NotDoneNext DEF TypesInv
<1>6. CASE SwapOperands(i)
  <2>1. alive' = alive
    BY <1>6 DEF SwapOperands
  <2>2. \A k \in alive : /\ code'[k].out = code[k].out
                         /\ \A v : VarUsed(code'[k], v) <=> VarUsed(code[k], v)
    BY <1>1, <1>6 DEF SwapOperands, VarUsed, Op
  <2>3. UsesDeclared'
    BY <1>3, <2>1, <2>2 DEF UsesDeclared, DeclaredAbove, VarInOuts
  <2> QED BY <1>2, <2>3, NotDoneNext DEF TypesInv
<1> QED BY <1>4, <1>5, <1>6

LEMMA StepTypesInv == IInv /\ TypesInv /\ [Next]_vars => TypesInv'
<1> SUFFICES ASSUME IInv, TypesInv, [Next]_vars PROVE TypesInv'
  OBVIOUS
<1>1. IInv'
  BY StepIInv
<1>2. CASE UNCHANGED vars
  BY <1>2 DEF vars, program, tables, TypesInv, UsesDeclared, DeclaredAbove,
              TypesKnown, Mentions, Done
<1>3. CASE Lifetimes
  <2>1. step' # 8
    BY <1>3, SchedulePlaces DEF Lifetimes, Ends, IInv, TypeOK
  <2> QED BY <1>1, <1>3, <2>1, SameProgramKeepsTypes DEF Lifetimes
<1>4. CASE SharingEnds \/ PassEnds
  <2>1. Running("share_slots") \/ Running("ll_inlineVars") \/ Running("ll_binary")
    BY <1>4 DEF SharingEnds, PassEnds
  <2>2. step' # 8
    BY <1>4, <2>1, SchedulePlaces DEF SharingEnds, PassEnds, Ends, IInv, TypeOK
  <2> QED BY <1>1, <1>4, <2>2, SameProgramKeepsTypes DEF SharingEnds, PassEnds
<1> QED BY <1>1, <1>2, <1>3, <1>4, FixDeclTypes, ShareTypes, RewriteTypes
        DEF Next, Terminated

-----------------------------------------------------------------------------
(* What sharing does to a program c, A: names h stand for the variables.   *)
Rename(h, x) == IF x \in Var THEN h[x] ELSE x

Renames(h, op, r) ==
  /\ r.id = op.id /\ r.label = op.label /\ r.out = Rename(h, op.out)
  /\ r.cond = Rename(h, op.cond) /\ r.a = Rename(h, op.a) /\ r.b = Rename(h, op.b)

RenamesAll(h, c, A, d) == d \in [Slot -> Op] /\ \A j \in A : Renames(h, c[j], d[j])

(* Parameters keep their names and share them with nothing.                *)
KeepsIns(h) ==
  /\ h \in [Var -> Var]
  /\ \A v \in Ins : h[v] = v
  /\ \A v \in Var \ Ins : h[v] \notin Ins

MentionedIn(c, A, v) == {i \in A : VarUsed(c[i], v) \/ VarInOuts(c[i], v)}

(* Variable v is not needed any more when w begins.                        *)
Precedes(c, A, v, w) ==
  \A i \in MentionedIn(c, A, v), j \in MentionedIn(c, A, w) : i <= j

Separate(h, c, A) ==
  \A v, w \in Var \ Ins : v # w /\ h[v] = h[w] =>
    Precedes(c, A, v, w) \/ Precedes(c, A, w, v)

(* Slot d lies on every way to slot k.                                     *)
Dominates(c, A, d, k) ==
  \A i \in A : i < d /\ IsJump(c[i]) =>
    ~ (d < LabelSlot(c, A, c[i].label) /\ LabelSlot(c, A, c[i].label) <= k)

AssignsFor(c, A, d, k, v) ==
  d < k /\ VarInOuts(c[d], v) /\ Dominates(c, A, d, k)

(* SafeToShare, of a program in slots.                                     *)
Straight(c, A) ==
  /\ Runnable(c, A) /\ \A i \in A : c[i].id # "UNUSED"
  /\ \A i \in A : IsJump(c[i]) => i < LabelSlot(c, A, c[i].label)
  /\ \A v \in Var \ Ins, k \in A :
       Reads(c[k], v) => \E d \in A : AssignsFor(c, A, d, k, v)
  /\ \A v \in Var \ Ins, g \in A : EndsFlow(c[g]) =>
       \A i, j \in MentionedIn(c, A, v) : ~ (i < g /\ g < j)

(* Where a run stands at slot i, variable v holds what is still read.      *)
Needed(c, A, i, v) ==
  \/ v \in Ins
  \/ \E d, k \in A : d < i /\ i <= k /\ Reads(c[k], v) /\ AssignsFor(c, A, d, k, v)

Matches(h, c, A, x, y) ==
  /\ x.at = y.at /\ x.calls = y.calls /\ x.ret = y.ret
  /\ \A v \in Var : Needed(c, A, x.at, v) => x.env[v] = y.env[h[v]]

(* A renamed op has the shape of its kind.                                 *)
LEMMA RenamedShape ==
  ASSUME NEW op, OpShape(op), op.id # "UNUSED", NEW h \in [Var -> Var],
         NEW r, Renames(h, op, r)
  PROVE  OpShape(r)
<1>1. Rename(h, None) = None
  BY LlirAssumption DEF Rename
<1>2. op.a \in Val => r.a \in Val
  BY DEF Renames, Rename, Val
<1>3. op.out \in Var => r.out \in Var
  BY DEF Renames, Rename
<1>4. /\ r.id = op.id /\ r.label = op.label
      /\ op.out = None => r.out = None
  BY <1>1 DEF Renames
<1> QED BY <1>2, <1>3, <1>4 DEF OpShape

(* With the same values under the new names an op does the same.           *)
LEMMA RenamedReads ==
  ASSUME NEW op \in Op, OpShape(op), op.id \notin {"PLACE", "UNUSED"}, NEW h \in [Var -> Var],
         NEW env \in Env, NEW e2 \in Env,
         \A v \in Var : Reads(op, v) => env[v] = e2[h[v]],
         NEW r \in Op, Renames(h, op, r)
  PROVE  /\ Read(env, op.a) = Read(e2, r.a) /\ Read(env, op.cond) = Read(e2, r.cond)
         /\ op.out = None => EnvAfter(env, op) = env /\ EnvAfter(e2, r) = e2
         /\ op.out \in Var =>
              /\ EnvAfter(env, op)[op.out] = EnvAfter(e2, r)[h[op.out]]
              /\ \A v \in Var : v # op.out => EnvAfter(env, op)[v] = env[v]
              /\ \A v \in Var : v # h[op.out] => EnvAfter(e2, r)[v] = e2[v]
<1>1. /\ OpShape(r) /\ r.id = op.id /\ r.out = Rename(h, op.out)
      /\ r.cond = Rename(h, op.cond) /\ r.a = Rename(h, op.a) /\ r.b = Rename(h, op.b)
  BY RenamedShape DEF Renames
<1>2. ASSUME NEW x \in {op.cond, op.a, op.b}
      PROVE  Read(env, x) = Read(e2, Rename(h, x))
  <2>1. x \in Var => Reads(op, x)
    BY DEF Reads, VarUsed
  <2> QED BY <2>1 DEF Read, Rename
<1>3. /\ Read(env, op.a) = Read(e2, r.a) /\ Read(env, op.cond) = Read(e2, r.cond)
      /\ Read(env, op.b) = Read(e2, r.b)
  BY <1>1, <1>2
<1>4. op.out = None => EnvAfter(env, op) = env /\ EnvAfter(e2, r) = e2
  <2>1. op.out = None => r.out = None
    BY <1>1, LlirAssumption DEF Rename
  <2> QED BY <1>1, <2>1, KeepsOthers
<1>5. ASSUME op.out \in Var
      PROVE  /\ EnvAfter(env, op)[op.out] = EnvAfter(e2, r)[h[op.out]]
             /\ \A v \in Var : v # op.out => EnvAfter(env, op)[v] = env[v]
             /\ \A v \in Var : v # h[op.out] => EnvAfter(e2, r)[v] = e2[v]
  <2>1. r.out = h[op.out] /\ h[op.out] \in Var
    BY <1>1, <1>5 DEF Rename
  <2>2. \A v \in Var : v # op.out => EnvAfter(env, op)[v] = env[v]
    BY KeepsVar DEF Read, Val
  <2>3. \A v \in Var : v # h[op.out] => EnvAfter(e2, r)[v] = e2[v]
    BY <1>1, <2>1, KeepsVar DEF Read, Val
  <2>4. op.id \in {"IMM", "NOT", "OR", "CMOV"}
    BY <1>5, LlirAssumption DEF OpShape, Op, OpId
  <2>5. r.b = None <=> op.b = None
    BY <1>1, LlirAssumption DEF Rename
  <2>6. \A x : Assign(env, op, x)[op.out] = x /\ Assign(e2, r, x)[r.out] = x
    BY <1>5, <2>1 DEF Assign, Env
  <2>7. EnvAfter(env, op)[op.out] = EnvAfter(e2, r)[r.out]
    <3>1. CASE op.id = "IMM"
      BY <1>1, <1>3, <2>6, <3>1 DEF EnvAfter
    <3>2. CASE op.id = "NOT"
      BY <1>1, <1>3, <2>6, <3>2 DEF EnvAfter
    <3>3. CASE op.id = "OR"
      BY <1>1, <1>3, <2>6, <3>3 DEF EnvAfter
    <3>4. CASE op.id = "CMOV"
      <4>1. op.b = None => env[op.out] = e2[r.out]
        BY <1>5, <2>1, <3>4 DEF Reads, VarInOuts
      <4> QED BY <1>1, <1>3, <2>5, <2>6, <3>4, <4>1 DEF EnvAfter
    <3> QED BY <2>4, <3>1, <3>2, <3>3, <3>4
  <2> QED BY <2>1, <2>2, <2>3, <2>7
<1> QED BY <1>3, <1>4, <1>5

(* Renaming keeps a program what it is; jumps go where they went.          *)
LEMMA RenamedRunnable ==
  ASSUME NEW c, NEW A, Straight(c, A), NEW h \in [Var -> Var], NEW d, RenamesAll(h, c, A, d)
  PROVE  /\ Runnable(d, A)
         /\ \A i \in A : IsJump(c[i]) =>
              LabelSlot(d, A, c[i].label) = LabelSlot(c, A, c[i].label)
<1>1. Runnable(c, A) /\ A \subseteq Slot /\ \A i \in A : c[i].id # "UNUSED"
  BY DEF Straight, Runnable
<1>2. \A i \in A : d[i].id = c[i].id /\ d[i].label = c[i].label /\ OpShape(d[i])
  BY <1>1, RenamedShape DEF RenamesAll, Renames, Runnable
<1>3. Runnable(d, A)
  BY <1>1, <1>2 DEF Runnable, IsJump, RenamesAll
<1>4. ASSUME NEW i \in A, IsJump(c[i])
      PROVE  LabelSlot(d, A, c[i].label) = LabelSlot(c, A, c[i].label)
  <2>1. LET s == LabelSlot(c, A, c[i].label)
        IN  s \in A /\ d[s].id = "LABEL" /\ d[s].label = c[i].label
    BY <1>1, <1>2, <1>4, JumpLands
  <2> QED BY <1>1, <1>2, <1>4, <2>1, SameLabel
<1> QED BY <1>3, <1>4

(* What is needed behind an op was needed in front of it, unless the op    *)
(* itself assigns it.                                                      *)
LEMMA NeededBefore ==
  ASSUME NEW c, NEW A, Straight(c, A), NEW env, NEW i \in A,
         NEW n, n = Target(c, A, env, i), NEW d \in A, NEW k \in A, NEW v,
         d < n, n <= k, Reads(c[k], v), AssignsFor(c, A, d, k, v)
  PROVE  i < k /\ d <= i /\ (d # i => Needed(c, A, i, v))
<1>1. /\ Runnable(c, A) /\ A \in SUBSET Slot
      /\ \A j \in A : j \in Nat /\ 0 < j /\ j < End
      /\ End \in Nat
  BY SlotsAre DEF Straight, Runnable
<1>2. n # End
  BY <1>1
<1>3. \/ n = NextOf(A, i)
      \/ IsJump(c[i]) /\ n = LabelSlot(c, A, c[i].label)
  BY <1>2 DEF Target, IsJump
<1>4. CASE n = NextOf(A, i)
  <2>1. n \in A /\ i < n /\ \A j \in A : i < j => n <= j
    BY <1>1, <1>2, <1>4, NextIs
  <2>2. i < k /\ d <= i
    BY <1>1, <2>1
  <2> QED BY <1>1, <2>2 DEF Needed
<1>5. CASE IsJump(c[i]) /\ n = LabelSlot(c, A, c[i].label)
  <2>1. i < n /\ n \in A
    BY <1>1, <1>5, JumpLands DEF Straight
  <2>2. ~ (i < d)
    BY <1>5 DEF AssignsFor, Dominates
  <2>3. i < k /\ d <= i
    BY <1>1, <2>1, <2>2
  <2> QED BY <1>1, <2>3 DEF Needed
<1> QED BY <1>3, <1>4, <1>5

-----------------------------------------------------------------------------
(* The two programs go from states that match to states that match.        *)
LEMMA MatchingStep ==
  ASSUME NEW c, NEW A, Straight(c, A), NEW h, KeepsIns(h), Separate(h, c, A),
         NEW d, RenamesAll(h, c, A, d),
         NEW x \in State(A), NEW y \in State(A), Matches(h, c, A, x, y)
  PROVE  Matches(h, c, A, Exec(c, A, x), Exec(d, A, y))
<1> DEFINE i == x.at
           x2 == Exec(c, A, x)
           y2 == Exec(d, A, y)
<1>1. CASE i = End
  <2>1. x2 = x /\ y2 = y
    BY <1>1 DEF Exec, Matches
  <2> QED BY <2>1
<1>2. CASE i # End
  <2>1. /\ Runnable(c, A) /\ c \in [Slot -> Op] /\ A \subseteq Slot
        /\ i \in A /\ y.at = i /\ x.env \in Env /\ y.env \in Env
        /\ h \in [Var -> Var] /\ d \in [Slot -> Op]
        /\ x.calls = y.calls /\ x.ret = y.ret
    BY <1>2 DEF State, Straight, Runnable, Matches, KeepsIns, RenamesAll
  <2> DEFINE op == c[i]
             r == d[i]
             n == Target(c, A, x.env, i)
  <2>2. /\ op \in Op /\ OpShape(op) /\ op.id \notin {"PLACE", "UNUSED"}
        /\ r \in Op /\ Renames(h, op, r) /\ r.id = op.id /\ r.label = op.label
    BY <2>1 DEF Straight, Runnable, RenamesAll, Renames
  <2>3. \A v \in Var : Reads(op, v) => x.env[v] = y.env[h[v]]
    <3> SUFFICES ASSUME NEW v \in Var, Reads(op, v) PROVE x.env[v] = y.env[h[v]]
      OBVIOUS
    <3>1. i \in Nat
      BY <2>1, SlotsAre
    <3>2. Needed(c, A, i, v)
      <4>1. CASE v \in Ins
        BY <4>1 DEF Needed
      <4>2. CASE v \notin Ins
        <5>1. PICK e \in A : AssignsFor(c, A, e, i, v)
          BY <2>1, <4>2 DEF Straight
        <5>2. e < i /\ i <= i
          BY <3>1, <5>1 DEF AssignsFor
        <5> QED BY <2>1, <5>1, <5>2 DEF Needed
      <4> QED BY <4>1, <4>2
    <3> QED BY <3>2 DEF Matches
  <2>4. /\ Read(x.env, op.a) = Read(y.env, r.a) /\ Read(x.env, op.cond) = Read(y.env, r.cond)
        /\ op.out = None => EnvAfter(x.env, op) = x.env /\ EnvAfter(y.env, r) = y.env
        /\ op.out \in Var =>
             /\ EnvAfter(x.env, op)[op.out] = EnvAfter(y.env, r)[h[op.out]]
             /\ \A v \in Var : v # op.out => EnvAfter(x.env, op)[v] = x.env[v]
             /\ \A v \in Var : v # h[op.out] => EnvAfter(y.env, r)[v] = y.env[v]
    <3> HIDE DEF op, r
    <3> QED BY <2>1, <2>2, <2>3, RenamedReads
  <2>5. Target(d, A, y.env, i) = n
    <3>1. IsJump(op) => LabelSlot(d, A, op.label) = LabelSlot(c, A, op.label)
      BY <2>1, RenamedRunnable
    <3> QED BY <2>2, <2>4, <3>1 DEF Target, IsJump
  <2>6. /\ x2.at = n /\ y2.at = n
        /\ x2.env = EnvAfter(x.env, op) /\ y2.env = EnvAfter(y.env, r)
        /\ x2.calls = y2.calls /\ x2.ret = y2.ret
    BY <1>2, <2>1, <2>2, <2>4, <2>5 DEF Exec
  <2>7. op.out \in Var \cup {None}
    BY <2>2 DEF Op
  <2>8. ASSUME NEW v \in Var, Needed(c, A, n, v)
        PROVE  EnvAfter(x.env, op)[v] = EnvAfter(y.env, r)[h[v]]
    <3> HIDE DEF op, r, n
    <3>1. CASE v = op.out
      BY <2>4, <3>1
    <3>2. CASE v # op.out /\ v \in Ins
      <4>1. x.env[v] = y.env[h[v]]
        BY <2>1, <3>2 DEF Matches, Needed
      <4>2. op.out \in Var => h[v] # h[op.out]
        BY <3>2 DEF KeepsIns
      <4>3. h[v] \in Var
        BY <2>1
      <4> QED BY <2>4, <2>7, <3>2, <4>1, <4>2, <4>3
    <3>3. CASE v # op.out /\ v \notin Ins
      <4>1. PICK e, k \in A : e < n /\ n <= k /\ Reads(c[k], v) /\ AssignsFor(c, A, e, k, v)
        BY <2>8, <3>3 DEF Needed
      <4>2. i < k /\ e <= i /\ (e # i => Needed(c, A, i, v))
        BY <2>1, <4>1, NeededBefore DEF n
      <4>3. e # i /\ VarInOuts(c[e], v)
        BY <3>3, <4>1 DEF AssignsFor, VarInOuts, op
      <4>4. x.env[v] = y.env[h[v]]
        BY <4>2, <4>3 DEF Matches
      <4>5. op.out \in Var => h[v] # h[op.out]
        <5> SUFFICES ASSUME op.out \in Var, h[v] = h[op.out] PROVE FALSE
          OBVIOUS
        <5>1. op.out \in Var \ Ins
          BY <3>3 DEF KeepsIns
        <5>2. Precedes(c, A, v, op.out) \/ Precedes(c, A, op.out, v)
          BY <3>3, <5>1 DEF Separate
        <5>3. i \in MentionedIn(c, A, op.out)
          BY <2>1 DEF MentionedIn, VarInOuts, op
        <5>4. e \in MentionedIn(c, A, v)
          BY <4>3 DEF MentionedIn
        <5>5. k \in MentionedIn(c, A, v)
          BY <4>1 DEF MentionedIn, Reads
        <5>6. i \in Nat /\ e \in Nat /\ k \in Nat
          BY <2>1, SlotsAre
        <5> QED BY <4>2, <4>3, <5>2, <5>3, <5>4, <5>5, <5>6 DEF Precedes
      <4>6. h[v] \in Var
        BY <2>1
      <4> QED BY <2>4, <2>7, <3>3, <4>4, <4>5, <4>6
    <3> QED BY <3>1, <3>2, <3>3
  <2>9. Matches(h, c, A, x2, y2)
    <3> HIDE DEF x2, y2, n, op, r
    <3> QED BY <2>6, <2>8 DEF Matches
  <2> QED BY <2>9
<1> QED BY <1>1, <1>2

(* Variables whose mentions come one after the other may share a name.     *)
LEMMA RenamedRuns ==
  ASSUME NEW c, NEW A, Straight(c, A), NEW h, KeepsIns(h), Separate(h, c, A),
         NEW d, RenamesAll(h, c, A, d)
  PROVE  SameRuns(c, A, d, A)
<1>1. Runnable(c, A) /\ Runnable(d, A) /\ A \in SUBSET Slot
  <2>1. h \in [Var -> Var]
    BY DEF KeepsIns
  <2>2. Runnable(d, A)
    BY <2>1, RenamedRunnable
  <2> QED BY <2>2 DEF Straight, Runnable
<1> DEFINE R == {ss \in State(A) \X State(A) : Matches(h, c, A, ss[1], ss[2])}
           Q == {ss \in State(A) \X State(A) : Matches(h, c, A, ss[2], ss[1])}
<1>2. \A x, y \in State(A) : /\ <<x, y>> \in R <=> Matches(h, c, A, x, y)
                             /\ <<y, x>> \in Q <=> Matches(h, c, A, x, y)
  OBVIOUS
<1> HIDE DEF R, Q
<1>3. \A x, y : Matches(h, c, A, x, y) => Shows(x, y) /\ Shows(y, x)
  BY DEF Matches, Shows
<1>4. \A x, y \in State(A) : Matches(h, c, A, x, y) =>
         /\ Exec(c, A, x) \in State(A) /\ Exec(d, A, y) \in State(A)
         /\ Reaches(c, A, x, Exec(c, A, x)) /\ Reaches(d, A, y, Exec(d, A, y))
         /\ Matches(h, c, A, Exec(c, A, x), Exec(d, A, y))
  BY <1>1, MatchingStep, ReachesItself, ReachesOn, ExecTyped
<1>5. KeepsUp(c, A, d, A, R)
  BY <1>2, <1>3, <1>4 DEF KeepsUp
<1>6. KeepsUp(d, A, c, A, Q)
  BY <1>2, <1>3, <1>4 DEF KeepsUp
<1>7. ASSUME NEW env \in Env
      PROVE  Start(A, env) \in State(A) /\ Matches(h, c, A, Start(A, env), Start(A, env))
  <2>1. Start(A, env) \in State(A)
    BY <1>1, StartTyped
  <2>2. ASSUME NEW v \in Var, Needed(c, A, NextOf(A, 0), v)
        PROVE  v \in Ins
    <3> SUFFICES ASSUME NEW e \in A, NEW k \in A, e < NextOf(A, 0), NextOf(A, 0) <= k PROVE FALSE
      BY <2>2 DEF Needed
    <3>1. e \in Nat /\ k \in Nat /\ 0 < e /\ k < End /\ End \in Nat
      BY <1>1, SlotsAre
    <3>2. NextOf(A, 0) # End
      BY <3>1
    <3>3. NextOf(A, 0) \in A /\ NextOf(A, 0) <= e
      BY <1>1, <3>1, <3>2, NextIs
    <3>4. NextOf(A, 0) \in Nat
      BY <1>1, <3>3, SlotsAre
    <3> QED BY <3>1, <3>3, <3>4
  <2>3. \A v \in Ins : h[v] = v
    BY DEF KeepsIns
  <2> QED BY <2>1, <2>2, <2>3 DEF Start, Matches
<1> QED BY <1>1, <1>2, <1>5, <1>6, <1>7, Simulation DEF SameRuns

-----------------------------------------------------------------------------
(* From the lifetimes to variables that come one after the other.          *)
LEMMA Extremes ==
  ASSUME NEW S \in SUBSET Places, S # {}
  PROVE  /\ Min(S) \in S /\ \A y \in S : Min(S) <= y
         /\ Max(S) \in S /\ \A y \in S : y <= Max(S)
<1>1. End \in Nat /\ \A y \in S : y \in Nat /\ y <= End
  BY SlotsAre DEF Places
<1>2. Min(S) \in S /\ \A y \in S : Min(S) <= y
  BY <1>1, MinIsLeast
<1> DEFINE T == {End - y : y \in S}
<1>3. T \in SUBSET Nat /\ T # {}
  <2>1. \A y \in S : End - y \in Nat
    BY <1>1
  <2>2. PICK y \in S : TRUE
    OBVIOUS
  <2> QED BY <2>1, <2>2
<1>4. Min(T) \in T /\ \A y \in T : Min(T) <= y
  BY <1>3, MinIsLeast
<1>5. PICK m \in S : Min(T) = End - m
  BY <1>4
<1>6. \A y \in S : y <= m
  <2> SUFFICES ASSUME NEW y \in S PROVE y <= m
    OBVIOUS
  <2>1. End - m <= End - y
    BY <1>4, <1>5
  <2> QED BY <1>1, <2>1
<1>7. Max(S) \in S /\ \A y \in S : y <= Max(S)
  BY <1>1, <1>6 DEF Max
<1> QED BY <1>2, <1>7

(* Between two mentions of a local nothing ends the flow, so it is alive   *)
(* everywhere between them.                                                *)
LEMMA AliveBetween ==
  ASSUME Straight(code, alive), NEW v \in Var \ Ins,
         NEW i \in Mentions(v), NEW j \in Mentions(v), NEW k \in alive, i <= k, k <= j
  PROVE  k \in Mentions(v) \/ Bridged(v, k)
<1> SUFFICES ASSUME k \notin Mentions(v) PROVE Bridged(v, k)
  OBVIOUS
<1>1. /\ alive \subseteq Slot /\ Mentions(v) \subseteq alive
      /\ \A m \in alive : m \in Nat
      /\ alive \in SUBSET Places
  BY SlotsAre DEF Straight, Runnable, Mentions, Places
<1> DEFINE above == {m \in Mentions(v) : m < k}
           below == {m \in Mentions(v) : k < m}
<1>2. i \in above /\ j \in below
  BY <1>1
<1>3. above \in SUBSET Places /\ below \in SUBSET Places
  BY <1>1
<1> DEFINE a == Max(above)
           b == Min(below)
<1>4. a \in above /\ b \in below /\ (\A m \in above : m <= a) /\ \A m \in below : b <= m
  <2> HIDE DEF above, below
  <2> QED BY <1>2, <1>3, Extremes
<1> HIDE DEF a, b
<1>5. k \in Between(alive, a, b)
  BY <1>4 DEF Between
<1>6. ASSUME NEW n \in Between(alive, a, b)
      PROVE  n \notin Mentions(v) /\ ~EndsFlow(code[n])
  <2>1. n \in alive /\ a < n /\ n < b /\ n \in Nat /\ a \in Nat /\ b \in Nat /\ k \in Nat
    BY <1>1, <1>4 DEF Between
  <2>2. n \notin Mentions(v)
    <3>1. n \in Mentions(v) => n \in above \/ n \in below
      BY <2>1
    <3> QED BY <1>4, <2>1, <3>1
  <2>3. a \in MentionedIn(code, alive, v) /\ b \in MentionedIn(code, alive, v)
    BY <1>4 DEF Mentions, MentionedIn
  <2> QED BY <2>1, <2>2, <2>3 DEF Straight
<1> QED BY <1>4, <1>5, <1>6 DEF Bridged

(* While variables are merged: the program c that came in, and the names   *)
(* its variables have by now.                                              *)
Began(c, h) ==
  /\ Straight(c, alive) /\ KeepsIns(h) /\ Separate(h, c, alive)
  /\ RenamesAll(h, c, alive, code)
  /\ meaning = [env \in InputEnv |-> Outcome(c, alive, env)]

Covers(c, h) ==
  \A v \in Var \ Ins : \A i, j \in MentionedIn(c, alive, v), k \in alive :
    i <= k /\ k <= j => k \in lifetime[h[v]]

(* Lifetimes that do not collide belong to variables that come one after   *)
(* the other.                                                              *)
LEMMA MergedApart ==
  ASSUME NEW c, NEW h, Began(c, h), Covers(c, h), lifetime \in [Var -> SUBSET Places],
         NEW v \in Var, NEW w \in Var, CanMerge(v, w),
         NEW a \in Var \ Ins, NEW b \in Var \ Ins, h[a] = v, h[b] = w
  PROVE  Precedes(c, alive, a, b) \/ Precedes(c, alive, b, a)
<1> SUFFICES ASSUME NEW i1 \in MentionedIn(c, alive, a), NEW j1 \in MentionedIn(c, alive, b),
                    ~ (i1 <= j1),
                    NEW j2 \in MentionedIn(c, alive, b), NEW i2 \in MentionedIn(c, alive, a),
                    ~ (j2 <= i2)
             PROVE  FALSE
  BY DEF Precedes
<1>1. \A i \in {i1, i2, j1, j2} : i \in alive /\ i \in Nat
  <2>1. \A i \in {i1, i2, j1, j2} : i \in alive /\ alive \subseteq Slot
    BY DEF MentionedIn, Began, Straight, Runnable
  <2> QED BY <2>1, SlotsAre
<1>2. i1 \in lifetime[v] /\ i2 \in lifetime[v] /\ j1 \in lifetime[w] /\ j2 \in lifetime[w]
  BY <1>1 DEF Covers
<1>3. lifetime[v] \in SUBSET Places /\ lifetime[w] \in SUBSET Places
  OBVIOUS
<1>4. \A s, t \in {lifetime[v], lifetime[w]} : Max(s) = Min(t) =>
        \A x \in s, y \in t : x <= y
  <2> SUFFICES ASSUME NEW s \in {lifetime[v], lifetime[w]}, NEW t \in {lifetime[v], lifetime[w]},
                      Max(s) = Min(t), NEW x \in s, NEW y \in t
               PROVE  x <= y
    OBVIOUS
  <2>1. s \in SUBSET Places /\ t \in SUBSET Places /\ s # {} /\ t # {}
    BY <1>3
  <2>2. x <= Max(s) /\ Min(t) <= y /\ Min(t) \in t
    BY <2>1, Extremes
  <2>3. \A z \in Places : z \in Nat
    BY SlotsAre DEF Places
  <2> QED BY <2>1, <2>2, <2>3
<1>5. CASE lifetime[v] \cap lifetime[w] = {}
  <2>1. CASE i2 < j1
    <3>1. j1 \in lifetime[v]
      BY <1>1, <2>1 DEF Covers
    <3> QED BY <1>2, <1>5, <3>1
  <2>2. CASE i2 = j1
    BY <1>2, <1>5, <2>2
  <2>3. CASE j1 < i2
    <3>1. i2 \in lifetime[w]
      BY <1>1, <2>3 DEF Covers
    <3> QED BY <1>2, <1>5, <3>1
  <2> QED BY <1>1, <2>1, <2>2, <2>3
<1>6. CASE Max(lifetime[v]) = Min(lifetime[w])
  <2>1. i1 <= j1
    BY <1>2, <1>4, <1>6
  <2> QED BY <2>1
<1>7. CASE Min(lifetime[v]) = Max(lifetime[w])
  <2>1. j2 <= i2
    BY <1>2, <1>4, <1>7
  <2> QED BY <2>1
<1> QED BY <1>5, <1>6, <1>7 DEF CanMerge

MergeOp(op, old, new) ==
  [Substitute(op, old, new) EXCEPT !.out = IF @ = old THEN new ELSE @]

LEMMA MergedOp ==
  ASSUME NEW op \in Op, NEW old \in Var, NEW new \in Var, NEW r, r = MergeOp(op, old, new)
  PROVE  /\ r.id = op.id /\ r.label = op.label
         /\ r.out = IF op.out = old THEN new ELSE op.out
         /\ r.cond = IF op.cond = old THEN new ELSE op.cond
         /\ r.a = IF op.a = old THEN new ELSE op.a
         /\ r.b = IF op.b = old THEN new ELSE op.b
<1> DEFINE s == Substitute(op, old, new)
<1>1. /\ s \in Op /\ s.id = op.id /\ s.label = op.label /\ s.out = op.out
      /\ s.cond = IF op.cond = old THEN new ELSE op.cond
      /\ s.a = IF op.a = old THEN new ELSE op.a
      /\ s.b = IF op.b = old THEN new ELSE op.b
  BY ZenonT(60) DEF Substitute, Op, Val
<1> HIDE DEF s
<1>2. r = [s EXCEPT !.out = IF @ = old THEN new ELSE @]
  BY DEF s, MergeOp
<1> QED BY <1>1, <1>2 DEF Op

(* One more merge is one more step of renaming.                            *)
LEMMA MergeGoesOn ==
  ASSUME IInv, IInv', NEW c, NEW h, Began(c, h), Covers(c, h),
         NEW old \in Var \ Ins, NEW new \in Var \ Ins, old # new,
         CanMerge(old, new) \/ CanMerge(new, old),
         Merge(old, new), alive' = alive, meaning' = meaning
  PROVE  \E g : (Began(c, g) /\ Covers(c, g))'
<1> DEFINE g == [v \in Var |-> IF h[v] = old THEN new ELSE h[v]]
<1>1. /\ h \in [Var -> Var] /\ code \in [Slot -> Op] /\ alive \subseteq Slot
      /\ lifetime \in [Var -> SUBSET Places]
      /\ lifetime' = [lifetime EXCEPT ![new] = @ \cup lifetime[old]]
  BY DEF Began, KeepsIns, IInv, TypeOK, Merge
<1>2. \A v \in Var : g[v] = IF h[v] = old THEN new ELSE h[v]
  OBVIOUS
<1>3. g \in [Var -> Var]
  BY <1>1
<1> HIDE DEF g
<1>4. KeepsIns(g)
  BY <1>2, <1>3, SlotShareAssumption DEF KeepsIns, Began
<1>5. Separate(g, c, alive)
  <2> SUFFICES ASSUME NEW v \in Var \ Ins, NEW w \in Var \ Ins, v # w, g[v] = g[w]
               PROVE  Precedes(c, alive, v, w) \/ Precedes(c, alive, w, v)
    BY DEF Separate
  <2>1. CASE h[v] = h[w]
    BY <2>1 DEF Began, Separate
  <2>2. CASE h[v] # h[w]
    <3>1. (h[v] = old /\ h[w] = new) \/ (h[v] = new /\ h[w] = old)
      BY <1>2, <2>2
    <3> QED BY <1>1, <3>1, MergedApart
  <2> QED BY <2>1, <2>2
<1>6. RenamesAll(g, c, alive, code')
  <2>1. code' \in [Slot -> Op]
    BY DEF IInv, TypeOK
  <2>2. ASSUME NEW j \in alive
        PROVE  Renames(g, c[j], code'[j])
    <3>1. code'[j] = MergeOp(code[j], old, new)
      BY <1>1 DEF Merge, RenameVar, MergeOp
    <3>2. code[j] \in Op /\ Renames(h, c[j], code[j])
      BY <1>1 DEF Began, RenamesAll
    <3>3. \A x : Rename(g, x) = IF Rename(h, x) = old THEN new ELSE Rename(h, x)
      BY <1>2 DEF Rename
    <3>4. /\ code'[j].id = code[j].id /\ code'[j].label = code[j].label
          /\ code'[j].out = IF code[j].out = old THEN new ELSE code[j].out
          /\ code'[j].cond = IF code[j].cond = old THEN new ELSE code[j].cond
          /\ code'[j].a = IF code[j].a = old THEN new ELSE code[j].a
          /\ code'[j].b = IF code[j].b = old THEN new ELSE code[j].b
      BY <3>1, <3>2, MergedOp
    <3> QED BY <3>2, <3>3, <3>4 DEF Renames
  <2> QED BY <2>1, <2>2 DEF RenamesAll
<1>7. Began(c, g)'
  BY <1>4, <1>5, <1>6 DEF Began
<1>8. Covers(c, g)'
  <2> SUFFICES ASSUME NEW v \in Var \ Ins, NEW i \in MentionedIn(c, alive, v),
                      NEW j \in MentionedIn(c, alive, v), NEW k \in alive, i <= k, k <= j
               PROVE  k \in lifetime'[g[v]]
    BY DEF Covers
  <2>1. k \in lifetime[h[v]] /\ h[v] \in Var
    BY <1>1 DEF Covers
  <2> QED BY <1>1, <1>2, <2>1
<1> QED BY <1>7, <1>8

-----------------------------------------------------------------------------
(* The program that came in runs as the one there is now.                  *)
RunsAsBefore ==
  /\ Runnable(code, alive)
  /\ \E c, A : /\ Runnable(c, A) /\ SameRuns(c, A, code, alive)
               /\ meaning = [env \in InputEnv |-> Outcome(c, A, env)]

ShareInv ==
  /\ step < 3 => Straight(code, alive) /\ meaning = [env \in InputEnv |-> Outcome(code, alive, env)]
  /\ step = 3 => \E c, h : Began(c, h) /\ Covers(c, h)
  /\ step > 3 => RunsAsBefore

LEMMA Doubled ==
  \A a, b \in Nat : (2 * a < 2 * b => a < b) /\ (2 * a <= 2 * b => a <= b)
OBVIOUS

(* A program that is safe to share, in slots.                              *)
LEMMA SafeIsStraight ==
  ASSUME NEW p \in Seq(Op), SafeToShare(p), Len(p) <= MaxOps,
         NEW c \in [Slot -> Op], NEW A, A = {2 * i : i \in DOMAIN p},
         \A i \in DOMAIN p : c[2 * i] = p[i]
  PROVE  Straight(c, A)
<1>1. /\ Len(p) \in Nat /\ DOMAIN p = 1 .. Len(p)
      /\ \A i \in DOMAIN p : i \in Nat /\ 2 * i \in Slot /\ 2 * i \in A
      /\ \A j \in A : \E i \in DOMAIN p : j = 2 * i
      /\ A \subseteq Slot
  BY LlirAssumption DEF Slot
<1>2. ASSUME NEW i \in DOMAIN p, IsJump(p[i])
      PROVE  \E l \in i + 1 .. Len(p) :
               /\ p[l].id = "LABEL" /\ p[l].label = p[i].label /\ l \in DOMAIN p
               /\ \A m \in DOMAIN p : p[m].id = "LABEL" /\ p[m].label = p[i].label => m = l
  <2>1. PICK l \in i + 1 .. Len(p) :
          Leads(p, i, l) /\ \A m \in DOMAIN p : Leads(p, i, m) => m = l
    BY <1>2 DEF SafeToShare
  <2>2. l \in DOMAIN p
    BY <1>1
  <2> QED BY <1>2, <2>1, <2>2 DEF Leads
<1>3. ASSUME NEW i \in DOMAIN p, IsJump(p[i])
      PROVE  \E l \in DOMAIN p :
               /\ i < l /\ LabelSlot(c, A, p[i].label) = 2 * l /\ Leads(p, i, l)
               /\ c[2 * l].id = "LABEL" /\ c[2 * l].label = p[i].label
               /\ \A k \in A : c[k].id = "LABEL" /\ c[k].label = p[i].label => k = 2 * l
  <2>1. PICK l \in i + 1 .. Len(p) :
          /\ p[l].id = "LABEL" /\ p[l].label = p[i].label /\ l \in DOMAIN p
          /\ \A m \in DOMAIN p : p[m].id = "LABEL" /\ p[m].label = p[i].label => m = l
    BY <1>2, <1>3
  <2>2. 2 * l \in A /\ c[2 * l].id = "LABEL" /\ c[2 * l].label = p[i].label /\ i < l
    BY <1>1, <2>1, SMTT(30)
  <2>3. \A k \in A : c[k].id = "LABEL" /\ c[k].label = p[i].label => k = 2 * l
    BY <1>1, <2>1, SMTT(30)
  <2>4. LabelSlot(c, A, p[i].label) = 2 * l
    <3>1. PICK s \in A : s = 2 * l
      BY <2>2
    <3>2. c[s].id = "LABEL" /\ c[s].label = p[i].label
      BY <2>2, <3>1
    <3>3. \A k \in A : c[k].id = "LABEL" /\ c[k].label = p[i].label => k = s
      BY <2>3, <3>1
    <3>4. LabelSlot(c, A, p[i].label) = s
      <4> DEFINE w == p[i].label
      <4>1. c[s].label = w /\ \A k \in A : c[k].id = "LABEL" /\ c[k].label = w => k = s
        BY <3>2, <3>3
      <4>2. LabelSlot(c, A, w) = s
        <5> HIDE DEF w
        <5> QED BY <3>2, <4>1, Zenon DEF LabelSlot
      <4> QED BY <4>2
    <3> QED BY <3>1, <3>4
  <2> QED BY <1>3, <2>1, <2>2, <2>3, <2>4 DEF Leads
<1>4. Runnable(c, A) /\ \A j \in A : c[j].id # "UNUSED"
  <2>1. ASSUME NEW j \in A
        PROVE  /\ OpShape(c[j]) /\ c[j].id # "PLACE" /\ c[j].id # "UNUSED"
               /\ IsJump(c[j]) => \E k \in A :
                    /\ c[k].id = "LABEL" /\ c[k].label = c[j].label
                    /\ \A m \in A : c[m].id = "LABEL" /\ c[m].label = c[j].label => m = k
    <3>1. PICK i \in DOMAIN p : j = 2 * i
      BY <1>1
    <3>2. c[j] = p[i]
      BY <3>1
    <3>3. OpShape(p[i]) /\ p[i].id # "PLACE" /\ p[i].id # "UNUSED"
      BY DEF SafeToShare
    <3>4. IsJump(p[i]) => \E k \in A :
            /\ c[k].id = "LABEL" /\ c[k].label = p[i].label
            /\ \A m \in A : c[m].id = "LABEL" /\ c[m].label = p[i].label => m = k
      <4> SUFFICES ASSUME IsJump(p[i])
                   PROVE  \E k \in A :
                            /\ c[k].id = "LABEL" /\ c[k].label = p[i].label
                            /\ \A m \in A : c[m].id = "LABEL" /\ c[m].label = p[i].label => m = k
        OBVIOUS
      <4>1. PICK l \in DOMAIN p :
              /\ c[2 * l].id = "LABEL" /\ c[2 * l].label = p[i].label
              /\ \A m \in A : c[m].id = "LABEL" /\ c[m].label = p[i].label => m = 2 * l
        BY <1>3
      <4>2. 2 * l \in A
        BY <1>1
      <4> QED BY <4>1, <4>2
    <3> QED BY <3>2, <3>3, <3>4
  <2> QED BY <1>1, <2>1 DEF Runnable
<1>5. ASSUME NEW j \in A, IsJump(c[j])
      PROVE  j < LabelSlot(c, A, c[j].label)
  <2>1. PICK i \in DOMAIN p : j = 2 * i
    BY <1>1
  <2>2. PICK l \in DOMAIN p : i < l /\ LabelSlot(c, A, p[i].label) = 2 * l
    BY <1>3, <1>5, <2>1
  <2>3. i \in Nat /\ l \in Nat
    BY <1>1
  <2>4. LabelSlot(c, A, c[j].label) = 2 * l
    BY <2>1, <2>2
  <2> QED BY <2>1, <2>2, <2>3, <2>4
<1>6. ASSUME NEW v \in Var \ Ins, NEW j \in A, Reads(c[j], v)
      PROVE  \E d \in A : AssignsFor(c, A, d, j, v)
  <2>1. PICK k \in DOMAIN p : j = 2 * k
    BY <1>1
  <2>2. PICK d \in 1 .. k - 1 : VarInOuts(p[d], v) /\ OnEveryWay(p, d, k)
    BY <1>6, <2>1 DEF SafeToShare
  <2>3. d \in DOMAIN p /\ d < k /\ d \in Nat /\ k \in Nat
    BY <1>1, SMTT(30)
  <2>4. 2 * d \in A /\ 2 * d < j /\ VarInOuts(c[2 * d], v)
    <3>1. 2 * d \in A /\ c[2 * d] = p[d]
      BY <1>1, <2>3
    <3>2. 2 * d < j
      BY <2>1, <2>3
    <3> QED BY <2>2, <3>1, <3>2
  <2>5. ASSUME NEW m \in A, m < 2 * d, IsJump(c[m])
        PROVE  ~ (2 * d < LabelSlot(c, A, c[m].label) /\ LabelSlot(c, A, c[m].label) <= j)
    <3>1. PICK i \in DOMAIN p : m = 2 * i
      BY <1>1
    <3>2. PICK l \in DOMAIN p : LabelSlot(c, A, p[i].label) = 2 * l /\ Leads(p, i, l)
      BY <1>3, <2>5, <3>1
    <3>3. i \in Nat /\ i >= 1 /\ l \in Nat
      BY <1>1
    <3>4. 2 * i < 2 * d
      BY <2>5, <3>1
    <3>5. i \in 1 .. d - 1
      BY <2>3, <3>3, <3>4
    <3>6. l \notin d + 1 .. k
      BY <2>2, <3>2, <3>5 DEF OnEveryWay
    <3>7. ~ (d < l /\ l <= k)
      BY <2>3, <3>3, <3>6
    <3>9. ~ (2 * d < 2 * l /\ 2 * l <= 2 * k)
      BY <2>3, <3>3, <3>7, Doubled
    <3>8. LabelSlot(c, A, c[m].label) = 2 * l
      BY <3>1, <3>2
    <3> QED BY <2>1, <3>8, <3>9
  <2> QED BY <2>4, <2>5 DEF AssignsFor, Dominates
<1>7. ASSUME NEW v \in Var \ Ins, NEW g \in A, EndsFlow(c[g]),
             NEW i \in MentionedIn(c, A, v), NEW j \in MentionedIn(c, A, v), i < g, g < j
      PROVE  FALSE
  <2>1. PICK i0 \in DOMAIN p : i = 2 * i0
    BY <1>1 DEF MentionedIn
  <2>2. PICK j0 \in DOMAIN p : j = 2 * j0
    BY <1>1 DEF MentionedIn
  <2>3. PICK g0 \in DOMAIN p : g = 2 * g0
    BY <1>1
  <2>4. i0 \in Mentioned(p, v) /\ j0 \in Mentioned(p, v) /\ EndsFlow(p[g0])
    BY <1>7, <2>1, <2>2, <2>3 DEF MentionedIn, Mentioned
  <2>5. i0 \in Nat /\ j0 \in Nat /\ g0 \in Nat
    BY <1>1
  <2>6. 2 * i0 < 2 * g0 /\ 2 * g0 < 2 * j0
    BY <1>7, <2>1, <2>2, <2>3
  <2>7. g0 \in i0 + 1 .. j0 - 1
    BY <2>5, <2>6
  <2> QED BY <2>4, <2>7 DEF SafeToShare
<1> QED BY <1>4, <1>5, <1>6, <1>7 DEF Straight

LEMMA InitShareInv ==
  ASSUME \A p \in Programs : SafeToShare(p), Init
  PROVE  ShareInv
<1>1. PICK p \in Programs :
         /\ code = [s \in Slot |-> IF s % 2 = 0 /\ s \div 2 <= Len(p) THEN p[s \div 2] ELSE Unused]
         /\ alive = {2 * i : i \in DOMAIN p}
         /\ meaning = [env \in InputEnv |-> Outcome(code, alive, env)]
         /\ step = 1
  BY DEF Init
<1>2. SafeToShare(p) /\ p \in Seq(Op) /\ Len(p) <= MaxOps
  BY SlotShareAssumption
<1>3. \A i \in DOMAIN p : code[2 * i] = p[i]
  <2> SUFFICES ASSUME NEW i \in DOMAIN p PROVE code[2 * i] = p[i]
    OBVIOUS
  <2>1. Len(p) \in Nat /\ MaxOps \in Nat /\ i \in 1 .. Len(p)
    BY <1>2, LlirAssumption
  <2>2. 2 * i \in Slot /\ (2 * i) % 2 = 0 /\ (2 * i) \div 2 = i /\ i <= Len(p)
    BY <1>2, <2>1 DEF Slot
  <2> QED BY <1>1, <2>2
<1>4. code \in [Slot -> Op]
  BY InitIInv DEF IInv, TypeOK
<1>5. Straight(code, alive)
  BY <1>1, <1>2, <1>3, <1>4, SafeIsStraight
<1> QED BY <1>1, <1>5 DEF ShareInv

-----------------------------------------------------------------------------
(* A step that leaves the program as it is.                                *)
LEMMA SameProgramShares ==
  ASSUME ShareInv, step \in Nat, UNCHANGED <<code, alive, meaning>>,
         step' = step \/ (step' = step + 1 /\ step' # 3 /\ step' # 4),
         step = 3 => UNCHANGED lifetime
  PROVE  ShareInv'
<1>1. CASE step' < 3
  <2>1. step < 3
    BY <1>1
  <2>2. (Straight(code, alive) /\ meaning = [env \in InputEnv |-> Outcome(code, alive, env)])'
    BY <2>1 DEF ShareInv
  <2> QED BY <1>1, <2>2 DEF ShareInv
<1>2. CASE step' = 3
  <2>1. step = 3 /\ UNCHANGED lifetime
    BY <1>2
  <2>2. PICK c, h : Began(c, h) /\ Covers(c, h)
    BY <2>1 DEF ShareInv
  <2>3. (Began(c, h) /\ Covers(c, h))'
    BY <2>1, <2>2 DEF Began, Covers
  <2> QED BY <1>2, <2>3 DEF ShareInv
<1>3. CASE step' > 3
  <2>1. step > 3
    BY <1>3
  <2>2. RunsAsBefore'
    BY <2>1 DEF ShareInv, RunsAsBefore
  <2> QED BY <1>3, <2>2 DEF ShareInv
<1>4. step' \in Nat
  OBVIOUS
<1> QED BY <1>1, <1>2, <1>3, <1>4

(* With the lifetimes known, every variable has its own name.              *)
LEMMA LifetimesShare == IInv /\ ShareInv /\ Lifetimes => ShareInv'
<1> SUFFICES ASSUME IInv, ShareInv, Lifetimes PROVE ShareInv'
  OBVIOUS
<1>1. step = 2 /\ step' = 3 /\ UNCHANGED <<code, alive, meaning>>
  BY SchedulePlaces DEF Lifetimes, Ends, IInv, TypeOK, program
<1>2. Straight(code, alive) /\ meaning = [env \in InputEnv |-> Outcome(code, alive, env)]
  BY <1>1 DEF ShareInv
<1> DEFINE h == [v \in Var |-> v]
<1>3. h \in [Var -> Var] /\ \A v \in Var : h[v] = v
  OBVIOUS
<1> HIDE DEF h
<1>4. KeepsIns(h) /\ Separate(h, code, alive)
  BY <1>3, SlotShareAssumption DEF KeepsIns, Separate
<1>5. RenamesAll(h, code, alive, code)
  <2>1. \A x : Rename(h, x) = x
    BY <1>3 DEF Rename
  <2> QED BY <2>1 DEF RenamesAll, Renames, IInv, TypeOK
<1>6. Began(code, h)
  BY <1>2, <1>4, <1>5 DEF Began
<1>7. Began(code, h)'
  BY <1>1, <1>6 DEF Began
<1>8. Covers(code, h)'
  <2> SUFFICES ASSUME NEW v \in Var \ Ins, NEW i \in MentionedIn(code, alive, v),
                      NEW j \in MentionedIn(code, alive, v), NEW k \in alive, i <= k, k <= j
               PROVE  k \in lifetime'[h[v]]
    BY <1>1 DEF Covers
  <2>1. i \in Mentions(v) /\ j \in Mentions(v)
    BY DEF Mentions, MentionedIn
  <2>2. k \in Mentions(v) \/ Bridged(v, k)
    BY <1>2, <2>1, AliveBetween
  <2>3. k \in lifetime'[v]
    BY <2>2 DEF Lifetimes
  <2> QED BY <1>3, <2>3
<1>9. \E c, g : (Began(c, g) /\ Covers(c, g))'
  <2>1. (Began(code, h) /\ Covers(code, h))'
    BY <1>7, <1>8
  <2>2. \E c : c = code'
    OBVIOUS
  <2> QED BY <1>1, <2>1
<1> QED BY <1>1, <1>9 DEF ShareInv

LEMMA ShareShares == IInv /\ IInv' /\ ShareInv /\ Share => ShareInv'
<1> SUFFICES ASSUME IInv, IInv', ShareInv, NEW v \in Var,
                    PassOver(v) \/ \E w \in Var : Absorb(v, w) \/ Join(v, w)
             PROVE  ShareInv'
  BY DEF Share
<1>1. Turn(v)
  BY DEF PassOver, Absorb, Join
<1>2. step = 3 /\ UNCHANGED <<alive, meaning, step>>
  BY <1>1, SchedulePlaces DEF Turn, IInv, TypeOK
<1>3. CASE PassOver(v)
  <2>1. UNCHANGED <<code, lifetime>>
    BY <1>3 DEF PassOver, sharing
  <2> QED BY <1>2, <2>1, SameProgramShares
<1>4. ASSUME NEW w \in Var, Absorb(v, w) \/ Join(v, w)
      PROVE  ShareInv'
  <2>1. /\ Considered(v) /\ Considered(w) /\ w # v /\ CanMerge(v, w)
        /\ Merge(w, v) \/ Merge(v, w)
    BY <1>4 DEF Absorb, Join, FirstPartner, Partners
  <2>2. v \in Var \ Ins /\ w \in Var \ Ins
    BY <2>1 DEF Considered
  <2>3. PICK c, h : Began(c, h) /\ Covers(c, h)
    BY <1>2 DEF ShareInv
  <2>4. \E g : (Began(c, g) /\ Covers(c, g))'
    BY <1>2, <2>1, <2>2, <2>3, MergeGoesOn
  <2> QED BY <1>2, <2>4 DEF ShareInv
<1> QED BY <1>3, <1>4

(* What has been merged by the end does as the program that came in.       *)
LEMMA SharedRuns ==
  ASSUME NEW c, NEW h, Began(c, h)
  PROVE  RunsAsBefore
<1>1. /\ Straight(c, alive) /\ KeepsIns(h) /\ Separate(h, c, alive)
      /\ RenamesAll(h, c, alive, code)
      /\ meaning = [env \in InputEnv |-> Outcome(c, alive, env)]
  BY DEF Began
<1>2. SameRuns(c, alive, code, alive)
  BY <1>1, RenamedRuns
<1>3. h \in [Var -> Var]
  BY <1>1 DEF KeepsIns
<1>4. Runnable(code, alive)
  BY <1>1, <1>3, RenamedRunnable
<1>5. Runnable(c, alive)
  BY <1>1 DEF Straight
<1> QED BY <1>1, <1>2, <1>4, <1>5 DEF RunsAsBefore

LEMMA EndsShare == IInv /\ ShareInv /\ (SharingEnds \/ PassEnds) => ShareInv'
<1> SUFFICES ASSUME IInv, ShareInv, SharingEnds \/ PassEnds PROVE ShareInv'
  OBVIOUS
<1>1. step' = step + 1 /\ UNCHANGED <<code, alive, meaning>>
  BY DEF SharingEnds, PassEnds, Ends, program
<1>2. CASE SharingEnds
  <2>1. step = 3
    BY <1>2, SchedulePlaces DEF SharingEnds, IInv, TypeOK
  <2>2. RunsAsBefore
    BY <2>1, SharedRuns DEF ShareInv
  <2>3. RunsAsBefore'
    BY <1>1, <2>2 DEF RunsAsBefore
  <2> QED BY <1>1, <2>1, <2>3 DEF ShareInv
<1>3. CASE PassEnds
  <2>1. step \in 4 .. 6
    BY <1>3, SchedulePlaces DEF PassEnds, IInv, TypeOK
  <2> QED BY <1>1, <2>1, SameProgramShares
<1> QED BY <1>2, <1>3

LEMMA FixDeclShares == IInv /\ ShareInv /\ FixDecl => ShareInv'
<1> SUFFICES ASSUME IInv, ShareInv, FixDecl PROVE ShareInv'
  OBVIOUS
<1>1. step \in {1, 7} /\ step' = step + 1 /\ UNCHANGED <<code, alive, meaning>>
  BY SchedulePlaces DEF FixDecl, Ends, IInv, TypeOK, program
<1> QED BY <1>1, SameProgramShares

LEMMA NothingSubstituted ==
  ASSUME NEW o \in Op, NEW v, NEW w, o.cond # v, o.a # v, o.b # v
  PROVE  Substitute(o, v, w) = o
<1>1. Substitute(o, v, w) = [o EXCEPT !.cond = o.cond, !.a = o.a, !.b = o.b]
  BY DEF Substitute
<1> QED BY <1>1 DEF Op

(* A copy that is inlined leaves ops the shape they have.                  *)
LEMMA InlinedRunnable ==
  ASSUME NEW c, NEW A, Runnable(c, A), NEW i \in A, c[i].id = "IMM",
         NEW d \in [Slot -> Op], d = Inlined(c, A, i)
  PROVE  Runnable(d, A)
<1>1. c \in [Slot -> Op] /\ A \subseteq Slot /\ c[i].out \in Var /\ c[i].a \in Val
  BY DEF Runnable, OpShape
<1>2. ASSUME NEW j \in A
      PROVE  OpShape(d[j]) /\ d[j].id = c[j].id /\ d[j].label = c[j].label
  <2> DEFINE s == Substitute(c[j], c[i].out, c[i].a)
  <2>1. c[j] \in Op /\ OpShape(c[j])
    BY <1>1 DEF Runnable
  <2>2. d[j] = c[j] \/ (d[j] = s /\ j \in InlineReach(c, A, i))
    BY <1>1 DEF Inlined
  <2>3. /\ s.id = c[j].id /\ s.label = c[j].label /\ s.out = c[j].out
        /\ s.a = IF c[j].a = c[i].out THEN c[i].a ELSE c[j].a
    BY <2>1, ZenonT(60) DEF Substitute, Op
  <2>4. c[j].id = "UNUSED" => s = c[j]
    <3>1. c[j].id = "UNUSED" => /\ c[j].cond = None /\ c[j].a = None /\ c[j].b = None
      BY <2>1 DEF OpShape, Unused, MakeOp
    <3>2. None # c[i].out
      BY <1>1, LlirAssumption
    <3> QED BY <2>1, <3>1, <3>2, NothingSubstituted
  <2>5. OpShape(s)
    <3> HIDE DEF s
    <3> QED BY <1>1, <2>1, <2>3, <2>4 DEF OpShape
  <2> HIDE DEF s
  <2> QED BY <2>1, <2>2, <2>3, <2>5
<1> QED BY <1>1, <1>2 DEF Runnable, IsJump

(* A commutative op with its operands in the other order.                  *)
Swapped(c, i) == [c EXCEPT ![i].a = c[i].b, ![i].b = c[i].a]

LEMMA SwappedFields ==
  ASSUME NEW c \in [Slot -> Op], NEW i \in Slot, NEW d, d = Swapped(c, i)
  PROVE  /\ d \in [Slot -> Op]
         /\ \A j \in Slot : j # i => d[j] = c[j]
         /\ d[i].id = c[i].id /\ d[i].out = c[i].out /\ d[i].label = c[i].label
         /\ d[i].cond = c[i].cond /\ d[i].a = c[i].b /\ d[i].b = c[i].a
<1>1. c[i] \in Op
  OBVIOUS
<1>2. /\ d[i].id = c[i].id /\ d[i].out = c[i].out /\ d[i].label = c[i].label
      /\ d[i].cond = c[i].cond /\ d[i].a = c[i].b /\ d[i].b = c[i].a
      /\ d[i] \in Op
  BY <1>1, ZenonT(60) DEF Op, Swapped
<1>3. \A j \in Slot : j # i => d[j] = c[j]
  BY DEF Swapped
<1>4. d \in [Slot -> Op]
  BY <1>2, <1>3 DEF Swapped
<1> QED BY <1>2, <1>3, <1>4

LEMMA SwapRuns ==
  ASSUME NEW c, NEW A, Runnable(c, A), NEW i \in A, c[i].id = "OR",
         NEW d \in [Slot -> Op], \A j \in Slot : j # i => d[j] = c[j],
         d[i].id = c[i].id, d[i].out = c[i].out, d[i].label = c[i].label,
         d[i].cond = c[i].cond, d[i].a = c[i].b, d[i].b = c[i].a
  PROVE  Runnable(d, A) /\ SameRuns(c, A, d, A)
<1>1. c \in [Slot -> Op] /\ A \in SUBSET Slot /\ i \in Slot /\ c[i] \in Op
  BY DEF Runnable
<1>5. \A j \in A : d[j].id = c[j].id /\ d[j].label = c[j].label /\ OpShape(d[j])
  <2>1. OpShape(c[i])
    BY DEF Runnable
  <2>2. OpShape(d[i])
    BY <2>1 DEF OpShape
  <2>3. \A j \in A : OpShape(c[j])
    BY DEF Runnable
  <2> QED BY <1>1, <2>2, <2>3
<1>6. Runnable(d, A)
  BY <1>1, <1>5 DEF Runnable, IsJump
<1>7. ASSUME NEW x \in State(A)
      PROVE  Exec(c, A, x) = Exec(d, A, x)
  <2>1. CASE x.at = End
    BY <2>1 DEF Exec
  <2>2. CASE x.at = i
    <3>1. EnvAfter(x.env, d[i]) = EnvAfter(x.env, c[i])
      BY DEF EnvAfter, Assign
    <3>2. Target(d, A, x.env, i) = Target(c, A, x.env, i)
      BY DEF Target
    <3> QED BY <2>2, <3>1, <3>2 DEF Exec
  <2>3. CASE x.at \in A /\ x.at # i
    <3>1. d[x.at] = c[x.at]
      BY <1>1, <2>3
    <3>2. IsJump(c[x.at]) => LabelSlot(d, A, c[x.at].label) = LabelSlot(c, A, c[x.at].label)
      <4> SUFFICES ASSUME IsJump(c[x.at])
                   PROVE  LabelSlot(d, A, c[x.at].label) = LabelSlot(c, A, c[x.at].label)
        OBVIOUS
      <4>1. LET s == LabelSlot(c, A, c[x.at].label)
            IN  s \in A /\ d[s].id = "LABEL" /\ d[s].label = c[x.at].label
        BY <1>5, <2>3, JumpLands
      <4> QED BY <1>5, <2>3, <4>1, SameLabel
    <3>3. Target(d, A, x.env, x.at) = Target(c, A, x.env, x.at)
      BY <3>1, <3>2 DEF Target, IsJump
    <3> QED BY <3>1, <3>3, SameExec
  <2>4. x.at \in A \cup {End}
    BY DEF State
  <2> QED BY <2>1, <2>2, <2>3, <2>4
<1> DEFINE G == State(A)
<1>8. \A x \in G : /\ x \in State(A) /\ x \in State(A)
                   /\ Exec(c, A, x) = Exec(d, A, x) /\ Exec(c, A, x) \in G
  BY <1>7, ExecTyped
<1>9. \A env \in Env : Start(A, env) = Start(A, env) /\ Start(A, env) \in G
  BY <1>1, StartTyped
<1>10. SameRuns(c, A, d, A)
  <2> HIDE DEF G
  <2> QED BY <1>6, <1>8, <1>9, SameSteps
<1> QED BY <1>6, <1>10

LEMMA SwappedRuns ==
  ASSUME NEW c, NEW A, Runnable(c, A), NEW i \in A, c[i].id = "OR",
         NEW d, d = Swapped(c, i)
  PROVE  Runnable(d, A) /\ SameRuns(c, A, d, A)
<1>1. c \in [Slot -> Op] /\ i \in Slot
  BY DEF Runnable
<1>2. /\ d \in [Slot -> Op] /\ \A j \in Slot : j # i => d[j] = c[j]
      /\ d[i].id = c[i].id /\ d[i].out = c[i].out /\ d[i].label = c[i].label
      /\ d[i].cond = c[i].cond /\ d[i].a = c[i].b /\ d[i].b = c[i].a
  BY <1>1, SwappedFields
<1> QED BY <1>2, SwapRuns

LEMMA RewriteShares == IInv /\ IInv' /\ ShareInv /\ Rewrite => ShareInv'
<1> SUFFICES ASSUME IInv, IInv', ShareInv, NEW i \in Slot, InlineImm(i) \/ SwapOperands(i)
             PROVE  ShareInv'
  BY DEF Rewrite
<1>1. /\ step \in 4 .. 6 /\ step' = step /\ i \in alive /\ UNCHANGED meaning
      /\ InlineImm(i) => code[i].id = "IMM"
      /\ SwapOperands(i) => code[i].id = "OR"
  BY SchedulePlaces DEF InlineImm, SwapOperands, Visits, Wanted, Wants, After, IInv, TypeOK
<1>2. RunsAsBefore
  BY <1>1 DEF ShareInv
<1>3. Runnable(code, alive) /\ code' \in [Slot -> Op] /\ alive' \subseteq Slot
  BY <1>2 DEF RunsAsBefore, IInv, TypeOK
<1>4. Runnable(code', alive') /\ SameRuns(code, alive, code', alive')
  <2>1. CASE InlineImm(i) /\ CopiesItself(code[i])
    <3>1. code' = code /\ alive' = alive \ {i}
      BY <2>1 DEF InlineImm
    <3>2. Runnable(code, alive')
      BY <1>1, <1>3, <2>1, <3>1 DEF Runnable
    <3> QED BY <1>1, <1>3, <2>1, <3>1, <3>2, SelfCopyRemoved
  <2>2. CASE InlineImm(i) /\ ~CopiesItself(code[i])
    <3>1. code' = Inlined(code, alive, i) /\ alive' = alive
      BY <2>2 DEF InlineImm
    <3>2. Runnable(code', alive)
      BY <1>1, <1>3, <2>2, <3>1, InlinedRunnable
    <3> QED BY <1>1, <1>3, <2>2, <3>1, <3>2, CopyInlined
  <2>3. CASE SwapOperands(i)
    <3>1. alive' = alive
      BY <2>3 DEF SwapOperands
    <3>2. \/ code' = code
          \/ code' = Swapped(code, i)
      BY <2>3 DEF SwapOperands, Swapped
    <3> QED BY <1>1, <1>3, <2>3, <3>1, <3>2, SwappedRuns, SameRunsReflexive
  <2> QED BY <2>1, <2>2, <2>3
<1>5. PICK c, A : /\ Runnable(c, A) /\ SameRuns(c, A, code, alive)
                  /\ meaning = [env \in InputEnv |-> Outcome(c, A, env)]
  BY <1>2 DEF RunsAsBefore
<1>6. SameRuns(c, A, code', alive')
  BY <1>4, <1>5, SameRunsTransitive
<1>7. RunsAsBefore'
  BY <1>1, <1>4, <1>5, <1>6 DEF RunsAsBefore, InputEnv
<1> QED BY <1>1, <1>7 DEF ShareInv

LEMMA StepShareInv == IInv /\ ShareInv /\ [Next]_vars => ShareInv'
<1> SUFFICES ASSUME IInv, ShareInv, [Next]_vars PROVE ShareInv'
  OBVIOUS
<1>1. IInv'
  BY StepIInv
<1>2. CASE UNCHANGED vars
  <2>1. UNCHANGED <<code, alive, meaning, step, lifetime>> /\ step \in Nat
    BY <1>2 DEF vars, program, sharing, IInv, TypeOK
  <2> QED BY <2>1, SameProgramShares
<1> QED BY <1>1, <1>2, FixDeclShares, LifetimesShare, ShareShares, EndsShare, RewriteShares
        DEF Next, Terminated

LEMMA SharedMeans == IInv /\ ShareInv => MeaningPreserved
<1> SUFFICES ASSUME IInv, ShareInv, NEW env \in InputEnv
             PROVE  SameOutcome(meaning[env], Outcome(code, alive, env))
  BY DEF MeaningPreserved
<1>1. env \in Env
  BY DEF InputEnv
<1>2. RunsAsBefore
  <2>1. CASE step < 3
    <3>1. /\ Runnable(code, alive) /\ SameRuns(code, alive, code, alive)
          /\ meaning = [e \in InputEnv |-> Outcome(code, alive, e)]
      BY <2>1, SameRunsReflexive DEF ShareInv, Straight
    <3> QED BY <3>1 DEF RunsAsBefore
  <2>2. CASE step = 3
    BY <2>2, SharedRuns DEF ShareInv
  <2>3. CASE step > 3
    BY <2>3 DEF ShareInv
  <2>4. step \in Nat
    BY DEF IInv, TypeOK
  <2> QED BY <2>1, <2>2, <2>3, <2>4
<1>3. PICK c, A : /\ Runnable(c, A) /\ SameRuns(c, A, code, alive)
                  /\ meaning = [e \in InputEnv |-> Outcome(c, A, e)]
  BY <1>2 DEF RunsAsBefore
<1>4. meaning[env] = Outcome(c, A, env)
  BY <1>3
<1>5. Runnable(code, alive)
  BY <1>2 DEF RunsAsBefore
<1> QED BY <1>1, <1>3, <1>4, <1>5, SameRunsSameOutcome

-----------------------------------------------------------------------------
(* Type correctness of the preparation, for all programs: in particular a  *)
(* parameter is never merged into another variable.                        *)
THEOREM TypeCorrect == Spec => []TypeOK
<1>1. IInv => TypeOK
  BY DEF IInv
<1> QED BY <1>1, InitIInv, StepIInv, PTL DEF Spec

(* For all programs, whatever is merged in whatever order: the lifetimes   *)
(* computed before the first merge cover the program as it is renamed, and *)
(* a variable that was merged away does not occur in it any more.          *)
THEOREM LifetimesStayTrue == Spec => []LifetimesCover
<1>1. IInv => LifetimesCover
  BY DEF IInv
<1> QED BY <1>1, InitIInv, StepIInv, PTL DEF Spec

(* For all programs: whatever is merged, inlined away and swapped, the op  *)
(* list that goes to the code generator mentions no variable whose type    *)
(* the last collection did not find.                                       *)
THEOREM TypesKnownAtEnd == Spec => []TypesKnown
<1>1. Init => IInv /\ TypesInv
  BY InitIInv, InitTypesInv
<1>2. (IInv /\ TypesInv) /\ [Next]_vars => (IInv /\ TypesInv)'
  BY StepIInv, StepTypesInv
<1>3. IInv /\ TypesInv => TypesKnown
  BY DEF TypesInv
<1> QED BY <1>1, <1>2, <1>3, PTL DEF Spec

(* For programs of any size in which jumps lead forward and each local is  *)
(* used on one side of a GOTO or RETURN only: merging variables whose      *)
(* lifetimes do not collide, inlining the copies that leaves and swapping  *)
(* operands changes no call and no result, on any input.                   *)
THEOREM SharingKeepsMeaning ==
  (\A p \in Programs : SafeToShare(p)) => (Spec => []MeaningPreserved)
<1> SUFFICES ASSUME \A p \in Programs : SafeToShare(p)
             PROVE  Spec => []MeaningPreserved
  OBVIOUS
<1>1. Init => IInv /\ ShareInv
  BY InitIInv, InitShareInv
<1>2. (IInv /\ ShareInv) /\ [Next]_vars => (IInv /\ ShareInv)'
  BY StepIInv, StepShareInv
<1>3. IInv /\ ShareInv => MeaningPreserved
  BY SharedMeans
<1> QED BY <1>1, <1>2, <1>3, PTL DEF Spec

=============================================================================
