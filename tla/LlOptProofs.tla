---------------------------- MODULE LlOptProofs -----------------------------
(***************************************************************************)
(* Proofs about the optimiser of the flat form, for every set of programs, *)
(* every number of rounds and every size.                                  *)
(***************************************************************************)
EXTENDS LlOpt, LlirExecProofs

(* The slots kept free for insertion only ever hold the copy that the      *)
(* expansion of a CMOV puts there.                                         *)
InsertionSlots ==
  \A i \in Slot : i % 2 = 1 => code[i].id \in {"UNUSED", "IMM"}

IInv == TypeOK /\ InsertionSlots /\ JumpsResolved

(* Repeating a list of passes gives a list of passes. *)
LEMMA TimesIsSeq ==
  ASSUME NEW S, NEW n \in Nat, NEW s \in Seq(S), s # <<>>
  PROVE  Times(n, s) \in Seq(S)
<1>1. n * Len(s) \in Nat
  OBVIOUS
<1>2. \A k \in 1 .. n * Len(s) : ((k - 1) % Len(s)) + 1 \in 1 .. Len(s)
  OBVIOUS
<1> QED BY <1>1, <1>2 DEF Times

(* The schedule is a finite list of passes. *)
LEMMA ScheduleIsSeq == Schedule \in Seq(PassName)
<1>1. <<"ll_inlineVars", "vars">> \in Seq(PassName)
  BY DEF PassName
<1>2. <<"jumps_part1", "jumps_part2", "dce_labels", "dce_flow">> \in Seq(PassName)
  BY DEF PassName
<1>3. InlineAndVars \in Seq(PassName)
  BY <1>1, TimesIsSeq, LlOptAssumption DEF InlineAndVars
<1>4. JumpsAndDce \in Seq(PassName)
  BY <1>2, TimesIsSeq, LlOptAssumption DEF JumpsAndDce
<1>5. <<"dce_labels", "dce_flow">> \in Seq(PassName)
  BY DEF PassName
<1>6. <<"cmov_expand">> \in Seq(PassName)
  BY DEF PassName
<1> QED BY <1>3, <1>4, <1>5, <1>6 DEF Schedule

LEMMA ScheduleLen == Len(Schedule) \in Nat
BY ScheduleIsSeq

(* Replacing an operand keeps an op well formed. *)
LEMMA SubstituteShape ==
  ASSUME NEW op \in Op, OpShape(op), NEW v \in Var, NEW x \in Val
  PROVE  /\ Substitute(op, v, x) \in Op
         /\ Substitute(op, v, x).id = op.id
         /\ Substitute(op, v, x).label = op.label
         /\ Substitute(op, v, x).out = op.out
         /\ op.id # "UNUSED" => OpShape(Substitute(op, v, x))
BY ZenonT(60) DEF Substitute, Op, OpShape

-----------------------------------------------------------------------------
(* The program that comes in satisfies the invariant: lowering and the     *)
(* parser register every label they append.                                *)
LEMMA InitIInv == Init => IInv
<1> SUFFICES ASSUME NEW p \in Programs,
                    code = [s \in Slot |-> IF s % 2 = 0 /\ s \div 2 <= Len(p)
                              THEN p[s \div 2] ELSE Unused],
                    alive = {2 * i : i \in DOMAIN p},
                    decl = [l \in Label |-> DeclSlot(p, l)],
                    step = 1, cur = 0
             PROVE  IInv
  BY DEF Init
<1>1. /\ p \in Seq(Op) /\ Len(p) <= MaxOps /\ Len(p) \in Nat
      /\ DOMAIN p = 1 .. Len(p)
      /\ \A i \in DOMAIN p : p[i] \in Op /\ OpShape(p[i]) /\ p[i].id # "UNUSED"
      /\ WellFormed(p)
  BY LlOptAssumption
<1>2. \A i \in DOMAIN p : 2 * i \in Slot /\ (2 * i) % 2 = 0 /\ (2 * i) \div 2 = i
                         /\ code[2 * i] = p[i]
  BY <1>1, LlirAssumption DEF Slot
<1>3. Unused \in Op /\ OpShape(Unused) /\ Unused.id = "UNUSED"
  BY DEF Unused, MakeOp, Op, OpId, OpShape
<1>4. code \in [Slot -> Op] /\ \A i \in Slot : OpShape(code[i])
  <2>1. \A s \in Slot : s % 2 = 0 /\ s \div 2 <= Len(p) => s \div 2 \in DOMAIN p
    BY <1>1, LlirAssumption DEF Slot
  <2> QED BY <1>1, <1>3, <2>1
<1>5. alive \subseteq Slot /\ \A i \in alive : code[i].id # "UNUSED"
  BY <1>1, <1>2, ZenonT(60)
<1>6. \A l \in Label, i \in DOMAIN p :
        p[i].id = "LABEL" /\ p[i].label = l => DeclSlot(p, l) = 2 * i
  <2> SUFFICES ASSUME NEW l \in Label, NEW i \in DOMAIN p,
                      p[i].id = "LABEL", p[i].label = l
               PROVE  DeclSlot(p, l) = 2 * i
    OBVIOUS
  <2>1. {k \in DOMAIN p : p[k].id = "LABEL" /\ p[k].label = l} = {i}
    BY <1>1 DEF WellFormed
  <2>2. Max({i}) = i
    BY <1>1 DEF Max
  <2> QED BY <2>1, <2>2 DEF DeclSlot
<1>7. decl \in [Label -> Slot \cup {0}]
  <2> SUFFICES ASSUME NEW l \in Label
               PROVE  DeclSlot(p, l) \in Slot \cup {0}
    OBVIOUS
  <2>1. CASE \E i \in DOMAIN p : p[i].id = "LABEL" /\ p[i].label = l
    BY <2>1, <1>2, <1>6
  <2>2. CASE ~ \E i \in DOMAIN p : p[i].id = "LABEL" /\ p[i].label = l
    <3>1. {i \in DOMAIN p : p[i].id = "LABEL" /\ p[i].label = l} = {}
      BY <2>2
    <3> QED BY <3>1 DEF DeclSlot
  <2> QED BY <2>1, <2>2
<1>8. TypeOK
  <2>1. step \in 1 .. Len(Schedule) + 1 /\ cur \in Slot \cup {0}
    BY ScheduleLen
  <2> HIDE DEF Slot
  <2> QED BY <1>4, <1>5, <1>7, <2>1 DEF TypeOK
<1>9. InsertionSlots
  BY <1>3 DEF InsertionSlots
<1>10. JumpsResolved
  <2> SUFFICES ASSUME NEW i \in DOMAIN p, IsJump(p[i])
               PROVE  LabelResolved(p[i].label)
    <3>1. \A i \in alive : \E k \in DOMAIN p : i = 2 * k /\ code[i] = p[k]
      BY <1>2
    <3> QED BY <3>1 DEF JumpsResolved
  <2>1. PICK k \in DOMAIN p : p[k].id = "LABEL" /\ p[k].label = p[i].label
    BY <1>1 DEF WellFormed
  <2>2. p[i].label \in Label
    BY <1>1 DEF OpShape, IsJump
  <2>3. decl[p[i].label] = 2 * k
    BY <2>1, <2>2, <1>6
  <2>4. \A j \in DOMAIN p :
          p[j].id = "LABEL" /\ p[j].label = p[i].label => j = k
    BY <2>1, <1>1 DEF WellFormed
  <2>5. \A j \in alive : Declares(j, p[i].label) => j = 2 * k
    BY <1>2, <2>4 DEF Declares
  <2>6. 2 * k \in alive /\ Declares(2 * k, p[i].label)
    BY <1>2, <2>1 DEF Declares
  <2> QED BY <2>3, <2>5, <2>6 DEF LabelResolved
<1> QED BY <1>8, <1>9, <1>10 DEF IInv

-----------------------------------------------------------------------------
(* Unlinking ops that are not labels, or labels no jump names, resolves    *)
(* every jump that stays.                                                  *)
LEMMA UnlinkKeepsIInv ==
  ASSUME IInv,
         UNCHANGED <<code, decl>>,
         step' \in 1 .. Len(Schedule) + 1, cur' \in Slot \cup {0},
         alive' \subseteq alive,
         \A j \in alive \ alive' :
           code[j].id = "LABEL" => ~LabelUsed(code, alive, code[j].label)
  PROVE  IInv'
<1>1. TypeOK'
  BY DEF IInv, TypeOK
<1>2. InsertionSlots'
  BY DEF IInv, InsertionSlots
<1>3. JumpsResolved'
  <2> SUFFICES ASSUME NEW i \in alive', IsJump(code[i])
               PROVE  LabelResolved(code[i].label)'
    BY DEF JumpsResolved
  <2> DEFINE l == code[i].label
  <2>1. LabelResolved(l)
    BY DEF IInv, JumpsResolved
  <2>2. LabelUsed(code, alive, l)
    BY DEF LabelUsed
  <2>3. decl[l] \in alive'
    BY <2>1, <2>2 DEF LabelResolved, Declares
  <2> QED BY <2>1, <2>3 DEF LabelResolved, Declares
<1> QED BY <1>1, <1>2, <1>3 DEF IInv

(* Rewriting ops in place, their kinds and outputs kept and every label a  *)
(* resolved one, resolves every jump.                                      *)
LEMMA RewriteKeepsIInv ==
  ASSUME IInv,
         UNCHANGED decl,
         step' \in 1 .. Len(Schedule) + 1, cur' \in Slot \cup {0},
         alive' \subseteq alive,
         \A j \in alive \ alive' : code[j].id # "LABEL",
         code' \in [Slot -> Op],
         \A j \in Slot : /\ OpShape(code'[j])
                         /\ code'[j].id = code[j].id
                         /\ ~IsJump(code[j]) => code'[j].label = code[j].label,
         \A j \in alive : IsJump(code[j]) =>
           \E k \in alive : IsJump(code[k]) /\ code'[j].label = code[k].label
  PROVE  IInv'
<1>1. /\ alive \subseteq Slot /\ alive' \subseteq Slot
      /\ \A j \in alive : code[j].id # "UNUSED"
      /\ decl \in [Label -> Slot \cup {0}]
  BY DEF IInv, TypeOK
<1>2. \A j \in Slot : code'[j].id = code[j].id
  OBVIOUS
<1>3. TypeOK'
  <2>1. \A j \in alive' : code'[j].id # "UNUSED"
    BY <1>1, <1>2
  <2>2. \A j \in Slot : OpShape(code'[j])
    OBVIOUS
  <2>3. \A j \in Slot : OpShape(code[j])'
    BY <2>2 DEF OpShape
  <2> QED BY <1>1, <2>1, <2>3 DEF TypeOK
<1>4. InsertionSlots'
  BY <1>2 DEF IInv, InsertionSlots
<1>5. \A j \in Slot : IsJump(code'[j]) <=> IsJump(code[j])
  BY <1>2 DEF IsJump
<1>6. JumpsResolved'
  <2> SUFFICES ASSUME NEW i \in alive', IsJump(code'[i])
               PROVE  LabelResolved(code[i].label)'
    BY DEF JumpsResolved, IsJump
  <2> DEFINE l == code'[i].label
  <2>1. IsJump(code[i]) /\ i \in alive
    BY <1>1, <1>5
  <2>2. PICK k \in alive : IsJump(code[k]) /\ l = code[k].label
    BY <2>1
  <2>3. LabelResolved(l)
    BY <2>2 DEF IInv, JumpsResolved
  <2>4. \A j \in Slot : code[j].id = "LABEL" => code'[j].label = code[j].label
    BY DEF IsJump
  <2>5. \A j \in alive : (code'[j].id = "LABEL" /\ code'[j].label = l)
                         <=> Declares(j, l)
    BY <1>1, <1>2, <2>4 DEF Declares
  <2>6. decl[l] \in alive'
    BY <2>3 DEF LabelResolved, Declares
  <2> QED BY <2>3, <2>5, <2>6 DEF LabelResolved, Declares
<1> QED BY <1>3, <1>4, <1>6 DEF IInv

(* What every visit does to the cursor. *)
LEMMA VisitsMoves ==
  ASSUME IInv, NEW pass, NEW i \in Slot, Visits(pass, i)
  PROVE  /\ i \in alive /\ Wants(pass, code[i])
         /\ UNCHANGED decl
         /\ step' \in 1 .. Len(Schedule) + 1 /\ cur' \in Slot \cup {0}
BY DEF Visits, Wanted, After, IInv, TypeOK

LEMMA StepIInv == IInv /\ [Next]_vars => IInv'
<1> SUFFICES ASSUME IInv, [Next]_vars PROVE IInv'
  OBVIOUS
<1>1. CASE NextPass
  <2>1. step \in 1 .. Len(Schedule) + 1 /\ Len(Schedule) \in Nat
    BY ScheduleLen DEF IInv, TypeOK
  <2>2. step' \in 1 .. Len(Schedule) + 1 /\ cur' \in Slot \cup {0}
    BY <1>1, <2>1 DEF NextPass, Done
  <2> QED BY <1>1, <2>2, UnlinkKeepsIInv DEF NextPass
<1>2. ASSUME NEW i \in Slot, RemoveUnusedLabel(i)
      PROVE  IInv'
  <2>1. Visits("dce_labels", i)
    BY <1>2 DEF RemoveUnusedLabel
  <2> QED BY <1>2, <2>1, VisitsMoves, UnlinkKeepsIInv DEF RemoveUnusedLabel
<1>3. ASSUME NEW i \in Slot, RemoveAfterFlowEnd(i)
      PROVE  IInv'
  <2>1. Visits("dce_flow", i)
    BY <1>3 DEF RemoveAfterFlowEnd
  <2>2. \A j \in Segment(code, alive, i) : code[j].id # "LABEL"
    BY DEF Segment
  <2> QED BY <1>3, <2>1, <2>2, VisitsMoves, UnlinkKeepsIInv DEF RemoveAfterFlowEnd
<1>4. ASSUME NEW i \in Slot, RemoveEmptyJump(i)
      PROVE  IInv'
  <2>1. Visits("jumps_part1", i)
    BY <1>4 DEF RemoveEmptyJump
  <2>2. code[i].id # "LABEL"
    BY <2>1, VisitsMoves DEF Wants, IsJump
  <2> QED BY <1>4, <2>1, <2>2, VisitsMoves, UnlinkKeepsIInv DEF RemoveEmptyJump
<1>5. ASSUME NEW i \in Slot, RetargetJump(i)
      PROVE  IInv'
  <2>1. Visits("jumps_part2", i)
    BY <1>5 DEF RetargetJump
  <2>2. i \in alive /\ IsJump(code[i])
    BY <2>1, VisitsMoves DEF Wants
  <2> DEFINE f == FollowingOp(i)
  <2>3. CASE f \in alive /\ code[f].id = "GOTO"
    <3>1. code' = [code EXCEPT ![i].label = code[f].label] /\ alive' = alive
      BY <1>5, <2>3 DEF RetargetJump
    <3>2. IsJump(code[f]) /\ code[f].label \in Label
      BY <2>3 DEF IsJump, IInv, TypeOK, OpShape
    <3>3. code \in [Slot -> Op] /\ \A j \in Slot : OpShape(code[j])
      BY DEF IInv, TypeOK
    <3>4. code' \in [Slot -> Op]
      BY <3>1, <3>2, <3>3 DEF Op
    <3>5. \A j \in Slot : /\ OpShape(code'[j])
                          /\ code'[j].id = code[j].id
                          /\ ~IsJump(code[j]) => code'[j].label = code[j].label
      BY <2>2, <3>1, <3>2, <3>3 DEF Op, OpShape, IsJump
    <3>6. \A j \in alive : IsJump(code[j]) =>
            \E k \in alive : IsJump(code[k]) /\ code'[j].label = code[k].label
      BY <2>3, <3>1, <3>2, <3>3 DEF IInv, TypeOK, Op
    <3> QED BY <2>1, <3>1, <3>4, <3>5, <3>6, VisitsMoves, RewriteKeepsIInv
  <2>4. CASE ~(f \in alive /\ code[f].id = "GOTO")
    <3>1. code' = code /\ alive' = alive
      BY <1>5, <2>4 DEF RetargetJump
    <3> QED BY <2>1, <3>1, VisitsMoves, UnlinkKeepsIInv
  <2> QED BY <2>3, <2>4
<1>6. ASSUME NEW i \in Slot, InlineImm(i)
      PROVE  IInv'
  <2> DEFINE o == code[i].out
             n == code[i].a
  <2>1. Visits("ll_inlineVars", i)
    BY <1>6 DEF InlineImm
  <2>2. i \in alive /\ code[i].id = "IMM"
    BY <2>1, VisitsMoves DEF Wants
  <2>3. CASE n = o
    BY <1>6, <2>1, <2>2, <2>3, VisitsMoves, UnlinkKeepsIInv DEF InlineImm, CopiesItself
  <2>4. CASE n # o
    <3> DEFINE hit(j) == j \in InlineReach(code, alive, i) /\ code[j].id \notin {"PLACE", "RETURN"}
    <3>1. /\ code' = [j \in Slot |-> IF hit(j) THEN Substitute(code[j], o, n)
                                    ELSE code[j]]
          /\ alive' = alive
      BY <1>6, <2>2, <2>4 DEF InlineImm, Inlined, CopiesItself
    <3>2. code \in [Slot -> Op] /\ \A j \in Slot : OpShape(code[j])
      BY DEF IInv, TypeOK
    <3>3. \A j \in Slot : hit(j) => code[j].id # "UNUSED"
      BY DEF InlineReach, Segment, After, IInv, TypeOK
    <3>4. o \in Var /\ n \in Val
      BY <2>2, <3>2 DEF OpShape
    <3>5. \A j \in Slot :
            /\ Substitute(code[j], o, n) \in Op
            /\ Substitute(code[j], o, n).id = code[j].id
            /\ Substitute(code[j], o, n).label = code[j].label
            /\ code[j].id # "UNUSED" => OpShape(Substitute(code[j], o, n))
      BY <3>2, <3>4, SubstituteShape
    <3> HIDE DEF o, n, hit
    <3>6. code' \in [Slot -> Op]
      BY <3>1, <3>2, <3>5
    <3>7. \A j \in Slot : /\ OpShape(code'[j])
                          /\ code'[j].id = code[j].id
                          /\ code'[j].label = code[j].label
      BY <3>1, <3>2, <3>3, <3>5
    <3>8. \A j \in alive : IsJump(code[j]) =>
            \E k \in alive : IsJump(code[k]) /\ code'[j].label = code[k].label
      BY <3>7 DEF IInv, TypeOK
    <3> QED BY <2>1, <3>1, <3>6, <3>7, <3>8, VisitsMoves, RewriteKeepsIInv
  <2> QED BY <2>3, <2>4
<1>7. ASSUME NEW i \in Slot, RemoveUnusedOp(i)
      PROVE  IInv'
  <2>1. Visits("vars", i)
    BY <1>7 DEF RemoveUnusedOp
  <2>2. code[i].id # "LABEL"
    BY <2>1, VisitsMoves DEF Wants, HasSideEffect
  <2> QED BY <1>7, <2>1, <2>2, VisitsMoves, UnlinkKeepsIInv DEF RemoveUnusedOp
<1>8. ASSUME NEW i \in Slot, ExpandCmov(i)
      PROVE  IInv'
  <2> DEFINE c == [code[i] EXCEPT !.b = None]
             m == MakeOp("IMM", code[i].out, None, None, code[i].b, None)
  <2>1. Visits("cmov_expand", i)
    BY <1>8 DEF ExpandCmov
  <2>2. i \in alive /\ code[i].id = "CMOV" /\ code[i].b # None
    BY <2>1, VisitsMoves DEF Wants
  <2>3. code \in [Slot -> Op] /\ \A j \in Slot : OpShape(code[j])
    BY DEF IInv, TypeOK
  <2>4. i % 2 = 0 /\ i \in Int
    BY <2>2 DEF IInv, InsertionSlots, Slot
  <2>5. i - 1 \in Slot /\ (i - 1) % 2 = 1 /\ i - 1 # i
    BY <2>4, LlirAssumption DEF Slot
  <2>6. code[i - 1].id \in {"UNUSED", "IMM"}
    BY <2>5 DEF IInv, InsertionSlots
  <2>7. /\ code' = [code EXCEPT ![i] = c, ![i - 1] = m]
        /\ alive' = alive \cup {i - 1}
    BY <1>8 DEF ExpandCmov
  <2>8. c \in Op /\ OpShape(c) /\ c.id = "CMOV" /\ c.label = code[i].label
    BY <2>2, <2>3 DEF Op, OpShape
  <2>9. m \in Op /\ OpShape(m) /\ m.id = "IMM"
    BY <2>2, <2>3 DEF Op, OpShape, OpId, MakeOp
  <2> HIDE DEF c, m
  <2>10. code'[i] = c /\ code'[i - 1] = m
         /\ \A j \in Slot \ {i, i - 1} : code'[j] = code[j]
    BY <2>3, <2>5, <2>7
  <2>11. TypeOK'
    <3>1. code' \in [Slot -> Op]
      BY <2>3, <2>5, <2>7, <2>8, <2>9
    <3>2. \A j \in Slot : OpShape(code'[j])
      BY <2>3, <2>8, <2>9, <2>10
    <3>3. \A j \in alive' : code'[j].id # "UNUSED"
      BY <2>7, <2>8, <2>9, <2>10 DEF IInv, TypeOK
    <3>4. \A j \in Slot : OpShape(code[j])'
      BY <3>2 DEF OpShape
    <3>5. alive' \subseteq Slot /\ decl' \in [Label -> Slot \cup {0}]
      BY <2>1, <2>5, <2>7, VisitsMoves DEF IInv, TypeOK
    <3> QED BY <2>1, <3>1, <3>3, <3>4, <3>5, VisitsMoves DEF TypeOK
  <2>12. InsertionSlots'
    BY <2>4, <2>9, <2>10 DEF IInv, InsertionSlots
  <2>13. \A j \in alive' : code'[j].id \in {"LABEL", "GOTO", "COND"} =>
            j \in alive /\ code'[j] = code[j]
    BY <2>7, <2>8, <2>9, <2>10 DEF IInv, TypeOK
  <2>14. JumpsResolved'
    <3> SUFFICES ASSUME NEW j \in alive', IsJump(code'[j])
                 PROVE  LabelResolved(code[j].label)'
      BY DEF JumpsResolved, IsJump
    <3> DEFINE l == code[j].label
    <3>1. j \in alive /\ code'[j] = code[j]
      BY <2>13 DEF IsJump
    <3>2. LabelResolved(l)
      BY <3>1 DEF IInv, JumpsResolved
    <3>3. decl[l] \in alive /\ code[decl[l]].id = "LABEL" /\ code[decl[l]].label = l
      BY <3>2 DEF LabelResolved, Declares
    <3>4. decl[l] # i /\ decl[l] # i - 1 /\ decl[l] \in Slot
      BY <2>2, <2>6, <3>3 DEF IInv, TypeOK
    <3>5. code'[decl[l]] = code[decl[l]] /\ decl[l] \in alive'
      BY <2>7, <2>10, <3>3, <3>4
    <3>6. \A k \in alive' : code'[k].id = "LABEL" /\ code'[k].label = l => k = decl[l]
      BY <2>13, <3>2 DEF LabelResolved, Declares
    <3>7. decl' = decl
      BY <2>1, VisitsMoves
    <3> QED BY <3>1, <3>3, <3>5, <3>6, <3>7 DEF LabelResolved, Declares
  <2> QED BY <2>11, <2>12, <2>14 DEF IInv
<1>9. CASE UNCHANGED vars
  BY <1>9, UnlinkKeepsIInv DEF vars, IInv, TypeOK
<1> QED BY <1>1, <1>2, <1>3, <1>4, <1>5, <1>6, <1>7, <1>8, <1>9
        DEF Next, Visit, Terminated

-----------------------------------------------------------------------------
(* Dead code.  Only dce_labels can leave an op where control cannot fall   *)
(* into it, and the schedule has dce_flow directly behind it wherever it   *)
(* runs, however often that is.                                            *)
Paired(passes) ==
  \A k \in 1 .. Len(passes) : passes[k] = "dce_labels" =>
    k + 1 \in 1 .. Len(passes) /\ passes[k + 1] = "dce_flow"

LEMMA PairedConcat ==
  ASSUME NEW p \in Seq(PassName), NEW q \in Seq(PassName), Paired(p), Paired(q)
  PROVE  p \o q \in Seq(PassName) /\ Paired(p \o q)
<1>0. p \o q \in Seq(PassName)
  OBVIOUS
<1> SUFFICES ASSUME NEW k \in 1 .. Len(p \o q), (p \o q)[k] = "dce_labels"
             PROVE  k + 1 \in 1 .. Len(p \o q) /\ (p \o q)[k + 1] = "dce_flow"
  BY <1>0 DEF Paired
<1>1. CASE k <= Len(p)
  <2>1. p[k] = "dce_labels" /\ k \in 1 .. Len(p)
    BY <1>1
  <2>2. k + 1 \in 1 .. Len(p) /\ p[k + 1] = "dce_flow"
    BY <2>1 DEF Paired
  <2> QED BY <2>2
<1>2. CASE k > Len(p)
  <2> DEFINE h == k - Len(p)
  <2>1. q[h] = "dce_labels" /\ h \in 1 .. Len(q)
    BY <1>2
  <2>2. h + 1 \in 1 .. Len(q) /\ q[h + 1] = "dce_flow"
    BY <2>1 DEF Paired
  <2> QED BY <1>2, <2>2
<1> QED BY <1>1, <1>2

LEMMA SchedulePaired == Paired(Schedule)
<1>1. /\ <<"dce_labels", "dce_flow">> \in Seq(PassName)
      /\ <<"cmov_expand">> \in Seq(PassName)
  BY DEF PassName
<1>2. Paired(<<"dce_labels", "dce_flow">>) /\ Paired(<<"cmov_expand">>)
  BY DEF Paired
<1>3. InlineAndVars \in Seq(PassName) /\ Paired(InlineAndVars)
  <2> DEFINE two == <<"ll_inlineVars", "vars">>
  <2>1. two \in Seq(PassName) /\ Len(two) = 2 /\ two # <<>>
    BY DEF PassName
  <2>2. InlineAndVars \in Seq(PassName)
    BY <2>1, TimesIsSeq, LlOptAssumption DEF InlineAndVars
  <2>3. \A k \in 1 .. Len(InlineAndVars) : InlineAndVars[k] # "dce_labels"
    <3>1. DOMAIN InlineAndVars = 1 .. Len(InlineAndVars)
      BY <2>2
    <3>2. \A k \in DOMAIN InlineAndVars :
            InlineAndVars[k] = two[((k - 1) % 2) + 1] /\ k \in Nat
      BY <2>1, LlOptAssumption DEF InlineAndVars, Times
    <3> QED BY <3>1, <3>2
  <2> QED BY <2>2, <2>3 DEF Paired
<1>4. JumpsAndDce \in Seq(PassName) /\ Paired(JumpsAndDce)
  <2> DEFINE four == <<"jumps_part1", "jumps_part2", "dce_labels", "dce_flow">>
  <2>1. four \in Seq(PassName) /\ Len(four) = 4 /\ four # <<>>
    BY DEF PassName
  <2>2. JumpsAndDce \in Seq(PassName)
    BY <2>1, TimesIsSeq, LlOptAssumption DEF JumpsAndDce
  <2>3. /\ JumpsAndDce = [k \in 1 .. JumpRounds * 4 |-> four[((k - 1) % 4) + 1]]
        /\ Len(JumpsAndDce) = JumpRounds * 4
    <3>1. JumpsAndDce = [k \in 1 .. JumpRounds * 4 |-> four[((k - 1) % 4) + 1]]
      BY <2>1 DEF JumpsAndDce, Times
    <3>2. JumpRounds * 4 \in Nat
      BY LlOptAssumption
    <3>3. DOMAIN JumpsAndDce = 1 .. JumpRounds * 4
      BY <3>1
    <3>4. DOMAIN JumpsAndDce = 1 .. Len(JumpsAndDce) /\ Len(JumpsAndDce) \in Nat
      BY <2>2
    <3> QED BY <3>1, <3>2, <3>3, <3>4
  <2>4. ASSUME NEW k \in 1 .. Len(JumpsAndDce), JumpsAndDce[k] = "dce_labels"
        PROVE  k + 1 \in 1 .. Len(JumpsAndDce) /\ JumpsAndDce[k + 1] = "dce_flow"
    <3>1. four[((k - 1) % 4) + 1] = "dce_labels"
      BY <2>3, <2>4
    <3>2. (k - 1) % 4 = 2
      BY <3>1
    <3>3. k + 1 \in 1 .. JumpRounds * 4 /\ ((k + 1) - 1) % 4 = 3
      BY <2>3, <3>2, LlOptAssumption
    <3>4. four[(((k + 1) - 1) % 4) + 1] = "dce_flow"
      BY <3>3
    <3> HIDE DEF four
    <3> QED BY <2>3, <3>3, <3>4
  <2> QED BY <2>2, <2>4 DEF Paired
<1> DEFINE head == <<"dce_labels", "dce_flow">>
           one == <<"cmov_expand">>
<1>5. /\ head \in Seq(PassName) /\ Paired(head)
      /\ one \in Seq(PassName) /\ Paired(one)
      /\ Schedule = head \o InlineAndVars \o one \o JumpsAndDce \o InlineAndVars
  BY <1>1, <1>2 DEF Schedule
<1> HIDE DEF head, one
<1>6. head \o InlineAndVars \in Seq(PassName) /\ Paired(head \o InlineAndVars)
  BY <1>3, <1>5, PairedConcat
<1> DEFINE a == head \o InlineAndVars
<1>7. a \o one \in Seq(PassName) /\ Paired(a \o one)
  <2> HIDE DEF a
  <2> QED BY <1>5, <1>6, PairedConcat DEF a
<1> DEFINE b == a \o one
<1>8. b \o JumpsAndDce \in Seq(PassName) /\ Paired(b \o JumpsAndDce)
  <2>1. b \in Seq(PassName) /\ Paired(b)
    BY <1>7
  <2> HIDE DEF b
  <2> QED BY <1>4, <2>1, PairedConcat
<1> DEFINE c == b \o JumpsAndDce
<1>9. Paired(c \o InlineAndVars)
  <2>1. c \in Seq(PassName) /\ Paired(c)
    BY <1>8
  <2> HIDE DEF c
  <2> QED BY <1>3, <2>1, PairedConcat
<1> QED BY <1>5, <1>9

LEMMA ScheduleStart == Schedule[1] = "dce_labels" /\ 1 <= Len(Schedule)
<1> DEFINE head == <<"dce_labels", "dce_flow">>
           one == <<"cmov_expand">>
<1>1. /\ head \in Seq(PassName) /\ one \in Seq(PassName)
      /\ head[1] = "dce_labels" /\ Len(head) = 2
      /\ <<"ll_inlineVars", "vars">> \in Seq(PassName)
      /\ <<"jumps_part1", "jumps_part2", "dce_labels", "dce_flow">> \in Seq(PassName)
  BY DEF PassName
<1>2. InlineAndVars \in Seq(PassName)
  BY <1>1, TimesIsSeq, LlOptAssumption DEF InlineAndVars
<1>3. JumpsAndDce \in Seq(PassName)
  BY <1>1, TimesIsSeq, LlOptAssumption DEF JumpsAndDce
<1>4. Schedule = head \o InlineAndVars \o one \o JumpsAndDce \o InlineAndVars
  BY DEF Schedule
<1> HIDE DEF head, one
<1>5. \A p, q \in Seq(PassName) : Len(p) >= 1 =>
        /\ p \o q \in Seq(PassName) /\ Len(p \o q) >= 1 /\ (p \o q)[1] = p[1]
  OBVIOUS
<1> DEFINE First(p) == p \in Seq(PassName) /\ Len(p) >= 1 /\ p[1] = "dce_labels"
<1>6. First(head) /\ \A p, q \in Seq(PassName) : First(p) => First(p \o q)
  BY <1>1, <1>5
<1>7. \A p, q : First(p) /\ q \in Seq(PassName) => First(p \o q)
  BY <1>6
<1> HIDE DEF First
<1>8. First(head \o InlineAndVars)
  BY <1>2, <1>6, <1>7
<1>9. First(head \o InlineAndVars \o one)
  BY <1>1, <1>7, <1>8
<1>10. First(head \o InlineAndVars \o one \o JumpsAndDce)
  BY <1>3, <1>7, <1>9
<1>11. First(Schedule)
  BY <1>2, <1>4, <1>7, <1>10
<1> QED BY <1>11 DEF First

(* Behind an op that ends the flow there is a label before anything else:  *)
(* for the ops in S.                                                       *)
FlowClean(S) ==
  \A i \in S, j \in alive : EndsFlow(code[i]) /\ i < j =>
    \E k \in alive : i < k /\ k <= j /\ code[k].id = "LABEL"

Cleaning == Running("dce_flow")

FlowInv ==
  /\ Cleaning => FlowClean({i \in alive : i <= cur})
  /\ ~Cleaning /\ ~Running("dce_labels") => FlowClean(alive)

LEMMA InitFlowInv == Init => FlowInv
<1> SUFFICES ASSUME Init PROVE FlowInv
  OBVIOUS
<1>1. step = 1
  BY DEF Init
<1>2. Schedule[1] = "dce_labels" /\ 1 <= Len(Schedule)
  BY ScheduleStart
<1> QED BY <1>1, <1>2 DEF FlowInv, Cleaning, Running

(* What keeps the labels, the kinds and their order keeps the code clean. *)
LEMMA KeepsFlowInv ==
  ASSUME IInv, FlowInv, step' = step,
         alive' \subseteq alive,
         \A j \in alive \ alive' : code[j].id # "LABEL",
         \A j \in alive' : code'[j].id = code[j].id,
         ~Cleaning
  PROVE  FlowInv'
BY DEF FlowInv, FlowClean, Cleaning, Running, EndsFlow

LEMMA NextPassFlow == IInv /\ FlowInv /\ NextPass => FlowInv'
<1> SUFFICES ASSUME IInv, FlowInv, NextPass PROVE FlowInv'
  OBVIOUS
<1>1. /\ step \in 1 .. Len(Schedule) /\ step' = step + 1 /\ cur' = 0
      /\ code' = code /\ alive' = alive /\ Len(Schedule) \in Nat
      /\ Wanted(Schedule[step]) = {}
  BY ScheduleLen DEF NextPass, Done, IInv, TypeOK
<1>2. alive \subseteq Nat /\ \A i \in alive : 0 < i
  BY DEF IInv, TypeOK, Slot
<1>3. CASE Schedule[step] = "dce_labels"
  <2>1. Running("dce_flow")'
    BY <1>1, <1>3, SchedulePaired DEF Paired, Running
  <2> QED BY <1>1, <1>2, <2>1 DEF FlowInv, FlowClean, Cleaning, Running
<1>4. CASE Schedule[step] = "dce_flow"
  <2>1. FlowClean({i \in alive : i <= cur})
    BY <1>1, <1>4 DEF FlowInv, Cleaning, Running
  <2>2. \A i \in alive : EndsFlow(code[i]) => ~(i > cur)
    BY <1>1, <1>4 DEF Wanted, Wants, After
  <2>3. cur \in Nat
    BY DEF IInv, TypeOK, Slot
  <2>4. FlowClean(alive)
    BY <1>2, <2>1, <2>2, <2>3 DEF FlowClean
  <2> QED BY <1>1, <2>4 DEF FlowInv, FlowClean
<1>5. CASE Schedule[step] \notin {"dce_labels", "dce_flow"}
  <2>1. FlowClean(alive)
    BY <1>1, <1>5 DEF FlowInv, Cleaning, Running
  <2> QED BY <1>1, <2>1 DEF FlowInv, FlowClean
<1> QED BY <1>3, <1>4, <1>5

LEMMA DceFlow == ASSUME IInv, FlowInv, NEW i \in Slot, RemoveAfterFlowEnd(i)
                 PROVE  FlowInv'
<1>1. /\ Running("dce_flow") /\ step' = step /\ cur' = i /\ i \in alive
      /\ code' = code /\ alive' = alive \ Segment(code, alive, i)
      /\ i \in Wanted("dce_flow") /\ i = Min(Wanted("dce_flow"))
  BY DEF RemoveAfterFlowEnd, Visits, Wanted, After
<1>2. alive \subseteq Nat /\ i \in Nat /\ cur \in Nat
  BY DEF IInv, TypeOK, Slot
<1>3. \A h \in alive : EndsFlow(code[h]) /\ h < i => h <= cur
  <2>1. Wanted("dce_flow") \in SUBSET Nat /\ Wanted("dce_flow") # {}
    BY <1>1, <1>2 DEF Wanted, After
  <2>2. \A h \in Wanted("dce_flow") : i <= h
    BY <1>1, <2>1, MinIsLeast
  <2> QED BY <1>2, <2>2 DEF Wanted, Wants, After
<1>4. \A k \in alive : code[k].id = "LABEL" => k \in alive'
  BY <1>1 DEF Segment
<1>5. FlowClean({h \in alive : h <= cur})
  BY <1>1 DEF FlowInv, Cleaning
<1>6. \A h \in alive', j \in alive' : h <= i /\ EndsFlow(code[h]) /\ h < j =>
        \E k \in alive' : h < k /\ k <= j /\ code[k].id = "LABEL"
  <2> SUFFICES ASSUME NEW h \in alive', NEW j \in alive',
                      h <= i, EndsFlow(code[h]), h < j
               PROVE  \E k \in alive' : h < k /\ k <= j /\ code[k].id = "LABEL"
    OBVIOUS
  <2>1. CASE h = i
    <3>1. j \in alive /\ j \notin Segment(code, alive, i) /\ j \in After(alive, i)
      BY <1>1, <2>1 DEF After
    <3>2. PICK k \in Between(alive, i, j) \cup {j} : code[k].id = "LABEL"
      BY <3>1 DEF Segment
    <3>3. CASE k = j
      BY <1>2, <1>4, <2>1, <3>1, <3>2, <3>3 DEF After
    <3>4. CASE k \in Between(alive, i, j)
      BY <1>2, <1>4, <2>1, <3>1, <3>2, <3>4 DEF Between, After
    <3> QED BY <3>2, <3>3, <3>4
  <2>2. CASE h < i
    <3>1. h \in {g \in alive : g <= cur} /\ j \in alive
      BY <1>1, <1>3, <2>2
    <3>2. PICK k \in alive : h < k /\ k <= j /\ code[k].id = "LABEL"
      BY <1>5, <3>1 DEF FlowClean
    <3> QED BY <1>4, <3>2
  <2> QED BY <1>1, <1>2, <2>1, <2>2
<1>7. FlowClean({h \in alive : h <= cur})'
  BY <1>1, <1>6 DEF FlowClean
<1>8. Running("dce_flow")'
  BY <1>1 DEF Running
<1> QED BY <1>7, <1>8 DEF FlowInv, Cleaning

LEMMA ExpandFlow == ASSUME IInv, FlowInv, NEW i \in Slot, ExpandCmov(i)
                    PROVE  FlowInv'
<1>1. /\ Running("cmov_expand") /\ step' = step /\ i \in alive /\ code[i].id = "CMOV"
  BY DEF ExpandCmov, Visits, Wanted, Wants, After
<1>2. alive' = alive \cup {i - 1}
  BY DEF ExpandCmov
<1>3. alive \subseteq Nat /\ i \in Nat /\ code \in [Slot -> Op] /\ alive \subseteq Slot
  BY DEF IInv, TypeOK, Slot
<1>4. i % 2 = 0
  BY <1>1, <1>3 DEF IInv, InsertionSlots, Slot
<1>5. i - 1 \in Slot /\ code[i - 1].id \in {"UNUSED", "IMM"}
  BY <1>3, <1>4, LlirAssumption DEF IInv, InsertionSlots, Slot
<1>6. /\ code'[i].id = "CMOV" /\ code'[i - 1].id = "IMM"
      /\ \A j \in Slot \ {i, i - 1} : code'[j] = code[j]
  BY <1>1, <1>3, <1>5 DEF ExpandCmov, MakeOp, Op
<1>7. FlowClean(alive)
  BY <1>1 DEF FlowInv, Cleaning, Running
<1>8. FlowClean(alive)'
  <2> SUFFICES ASSUME NEW h \in alive', NEW j \in alive', EndsFlow(code'[h]), h < j
               PROVE  \E k \in alive' : h < k /\ k <= j /\ code'[k].id = "LABEL"
    BY DEF FlowClean, EndsFlow
  <2>1. h \in alive /\ h \notin {i, i - 1} /\ EndsFlow(code[h])
    BY <1>2, <1>3, <1>6 DEF EndsFlow
  <2>2. PICK g \in alive : h < g /\ (j = g \/ (j = i - 1 /\ g = i))
    <3>1. CASE j \in alive
      BY <3>1
    <3>2. CASE j = i - 1
      BY <1>1, <1>3, <2>1, <3>2
    <3> QED BY <1>2, <3>1, <3>2
  <2>3. PICK k \in alive : h < k /\ k <= g /\ code[k].id = "LABEL"
    BY <1>7, <2>1, <2>2 DEF FlowClean
  <2>4. k # i /\ k # i - 1
    BY <1>1, <1>5, <2>3
  <2>5. code'[k].id = "LABEL" /\ k \in alive'
    BY <1>2, <1>3, <1>6, <2>3, <2>4
  <2> QED BY <1>3, <2>2, <2>3, <2>4, <2>5
<1> QED BY <1>1, <1>8 DEF FlowInv, Cleaning, Running

LEMMA StepFlowInv == IInv /\ FlowInv /\ [Next]_vars => FlowInv'
<1> SUFFICES ASSUME IInv, FlowInv, [Next]_vars PROVE FlowInv'
  OBVIOUS
<1>1. CASE UNCHANGED vars
  BY <1>1 DEF vars, FlowInv, FlowClean, Cleaning, Running
<1>2. ASSUME NEW i \in Slot, RemoveUnusedLabel(i)
      PROVE  FlowInv'
  <2>1. Running("dce_labels") /\ step' = step
    BY <1>2 DEF RemoveUnusedLabel, Visits
  <2> QED BY <2>1 DEF FlowInv, Cleaning, Running
<1>3. ASSUME NEW i \in Slot, RemoveEmptyJump(i)
      PROVE  FlowInv'
  <2>1. /\ Running("jumps_part1") /\ step' = step /\ IsJump(code[i])
        /\ code' = code /\ alive' \in {alive, alive \ {i}}
    BY <1>3 DEF RemoveEmptyJump, Visits, Wanted, Wants
  <2>2. ~Cleaning
    BY <2>1 DEF Cleaning, Running
  <2> QED BY <2>1, <2>2, KeepsFlowInv DEF IsJump
<1>4. ASSUME NEW i \in Slot, RetargetJump(i)
      PROVE  FlowInv'
  <2>1. Running("jumps_part2") /\ step' = step /\ alive' = alive /\ ~Cleaning
    BY <1>4 DEF RetargetJump, Visits, Cleaning, Running
  <2>2. \A j \in alive : code'[j].id = code[j].id
    BY <1>4 DEF RetargetJump, IInv, TypeOK, Op
  <2> QED BY <2>1, <2>2, KeepsFlowInv
<1>5. ASSUME NEW i \in Slot, InlineImm(i)
      PROVE  FlowInv'
  <2>1. /\ Running("ll_inlineVars") /\ step' = step /\ code[i].id = "IMM"
        /\ alive' \in {alive, alive \ {i}} /\ ~Cleaning
    BY <1>5 DEF InlineImm, Visits, Wanted, Wants, Cleaning, Running
  <2>2. \A j \in alive : code'[j].id = code[j].id
    BY <1>5, ZenonT(60) DEF InlineImm, Inlined, Substitute, IInv, TypeOK, Op
  <2> QED BY <2>1, <2>2, KeepsFlowInv
<1>6. ASSUME NEW i \in Slot, RemoveUnusedOp(i)
      PROVE  FlowInv'
  <2>1. /\ Running("vars") /\ step' = step /\ ~HasSideEffect(code[i])
        /\ code' = code /\ alive' \in {alive, alive \ {i}} /\ ~Cleaning
    BY <1>6 DEF RemoveUnusedOp, Visits, Wanted, Wants, Cleaning, Running
  <2> QED BY <2>1, KeepsFlowInv DEF HasSideEffect
<1> QED BY <1>1, <1>2, <1>3, <1>4, <1>5, <1>6, NextPassFlow, DceFlow, ExpandFlow
        DEF Next, Visit, Terminated

LEMMA CleanWhenDone == IInv /\ FlowInv => NoDeadTail
<1> SUFFICES ASSUME IInv, FlowInv, Done, NEW i \in alive, EndsFlow(code[i]),
                    NextOf(alive, i) # End
             PROVE  code[NextOf(alive, i)].id = "LABEL"
  BY DEF NoDeadTail
<1> DEFINE n == NextOf(alive, i)
<1>1. FlowClean(alive)
  BY ScheduleLen DEF FlowInv, Cleaning, Running, Done, IInv, TypeOK
<1>2. alive \subseteq Nat
  BY DEF IInv, TypeOK, Slot
<1>3. n \in After(alive, i) /\ \A j \in After(alive, i) : n <= j
  <2>1. After(alive, i) \in SUBSET Nat /\ After(alive, i) # {} /\ n = Min(After(alive, i))
    BY <1>2 DEF After, NextOf
  <2> QED BY <2>1, MinIsLeast
<1>4. PICK k \in alive : i < k /\ k <= n /\ code[k].id = "LABEL"
  BY <1>1, <1>3 DEF FlowClean, After
<1>5. k = n
  BY <1>2, <1>3, <1>4 DEF After
<1> QED BY <1>4, <1>5

-----------------------------------------------------------------------------
(* The passes and what the program does.                                   *)
(*                                                                         *)
(* Of the program c, A: nothing is placed in memory; a conditional move    *)
(* with an ELSE value assigns a variable of T, which it does not read and  *)
(* nothing copies, and the slot in front of it is free.                    *)
Plain(c, A, T) ==
  \A j \in A :
    /\ c[j].id # "PLACE"
    /\ c[j].id = "IMM" => c[j].a \notin T
    /\ c[j].id = "CMOV" /\ c[j].b # None =>
         /\ c[j].out \in T /\ c[j].out # c[j].cond /\ c[j].out # c[j].a
         /\ c[j].b \notin T /\ j - 1 \notin A

(* The program that came in, still runs as the one that is there now.      *)
MeaningInv ==
  \E c \in [Slot -> Op], A \in SUBSET Slot :
    /\ Runnable(c, A)
    /\ DOMAIN meaning \subseteq Env
    /\ \A env \in DOMAIN meaning : meaning[env] = Outcome(c, A, env)
    /\ SameRuns(c, A, code, alive)

SafeInv == \E T \in SUBSET Var : Plain(code, alive, T)

LEMMA TypedIsRunnable ==
  ASSUME NEW c \in [Slot -> Op], NEW A \in SUBSET Slot, NEW dl, NEW T,
         \A i \in Slot : OpShape(c[i]),
         \A i \in A : IsJump(c[i]) =>
           /\ dl[c[i].label] \in A
           /\ c[dl[c[i].label]].id = "LABEL" /\ c[dl[c[i].label]].label = c[i].label
           /\ \A k \in A : c[k].id = "LABEL" /\ c[k].label = c[i].label => k = dl[c[i].label],
         Plain(c, A, T)
  PROVE  Runnable(c, A)
BY DEF Runnable, Plain

LEMMA IsRunnable ==
  ASSUME IInv, NEW T, Plain(code, alive, T)
  PROVE  /\ Runnable(code, alive)
         /\ \A i \in alive : IsJump(code[i]) =>
              LabelSlot(code, alive, code[i].label) = decl[code[i].label]
<1>1. /\ code \in [Slot -> Op] /\ alive \in SUBSET Slot /\ \A i \in Slot : OpShape(code[i])
  BY DEF IInv, TypeOK
<1>2. \A i \in alive : IsJump(code[i]) =>
         /\ decl[code[i].label] \in alive
         /\ code[decl[code[i].label]].id = "LABEL" /\ code[decl[code[i].label]].label = code[i].label
         /\ \A k \in alive : code[k].id = "LABEL" /\ code[k].label = code[i].label
                               => k = decl[code[i].label]
  BY DEF IInv, JumpsResolved, LabelResolved, Declares
<1>3. Runnable(code, alive)
  BY <1>1, <1>2, TypedIsRunnable
<1>4. \A i \in alive : IsJump(code[i]) =>
         LabelSlot(code, alive, code[i].label) = decl[code[i].label]
  BY <1>2, LabelIs
<1> QED BY <1>3, <1>4

LEMMA IsRunnableNext ==
  ASSUME IInv', NEW T, Plain(code', alive', T)
  PROVE  Runnable(code', alive')
<1>1. /\ code' \in [Slot -> Op] /\ alive' \in SUBSET Slot
      /\ \A i \in Slot : OpShape(code'[i])
  <2>1. \A i \in Slot : OpShape(code[i])'
    BY DEF IInv, TypeOK
  <2>2. \A i \in Slot : OpShape(code'[i])
    BY <2>1 DEF OpShape
  <2> QED BY <2>2 DEF IInv, TypeOK
<1>2. \A i \in alive' : IsJump(code'[i]) =>
         /\ decl'[code'[i].label] \in alive'
         /\ code'[decl'[code'[i].label]].id = "LABEL"
         /\ code'[decl'[code'[i].label]].label = code'[i].label
         /\ \A k \in alive' : code'[k].id = "LABEL" /\ code'[k].label = code'[i].label
                                => k = decl'[code'[i].label]
  BY DEF IInv, JumpsResolved, LabelResolved, Declares, IsJump
<1> QED BY <1>1, <1>2, TypedIsRunnable

(* Taking ops out of the list keeps it plain. *)
LEMMA FewerPlain ==
  ASSUME NEW c, NEW A, NEW T, Plain(c, A, T), NEW B \in SUBSET A
  PROVE  Plain(c, B, T)
BY DEF Plain

LEMMA SafeInit ==
  ASSUME \A p \in Programs : SafeToOptimise(p), Init
  PROVE  SafeInv /\ MeaningInv
<1>1. PICK p \in Programs :
         /\ code = [s \in Slot |-> IF s % 2 = 0 /\ s \div 2 <= Len(p) THEN p[s \div 2] ELSE Unused]
         /\ alive = {2 * i : i \in DOMAIN p}
         /\ meaning = [env \in Inputs(p) |-> Outcome(code, alive, env)]
  BY DEF Init
<1>2. SafeToOptimise(p) /\ p \in Seq(Op) /\ Len(p) <= MaxOps
      /\ \A i \in DOMAIN p : OpShape(p[i])
  BY LlOptAssumption
<1>3. \A i \in DOMAIN p : /\ i \in Nat /\ 2 * i \in Slot /\ (2 * i) % 2 = 0 /\ (2 * i) \div 2 = i
                         /\ i <= Len(p) /\ 2 * i - 1 \notin alive
  <2>1. Len(p) \in Nat /\ MaxOps \in Nat /\ DOMAIN p = 1 .. Len(p)
    BY <1>2, LlirAssumption
  <2> QED BY <1>1, <1>2, <2>1 DEF Slot
<1>4. \A i \in DOMAIN p : code[2 * i] = p[i]
  BY <1>1, <1>3
<1> DEFINE T == ElseOutputs(p)
<1>5. T \in SUBSET Var
  BY <1>2 DEF ElseOutputs, OpShape
<1>6. Plain(code, alive, T)
  <2> SUFFICES ASSUME NEW i \in DOMAIN p
               PROVE  /\ p[i].id # "PLACE"
                      /\ p[i].id = "IMM" => p[i].a \notin T
                      /\ p[i].id = "CMOV" /\ p[i].b # None =>
                           /\ p[i].out \in T /\ p[i].out # p[i].cond /\ p[i].out # p[i].a
                           /\ p[i].b \notin T /\ 2 * i - 1 \notin alive
    BY <1>1, <1>4 DEF Plain
  <2>1. p[i].id = "CMOV" /\ p[i].b # None => p[i].out \in T
    BY DEF ElseOutputs
  <2> QED BY <1>2, <1>3, <2>1 DEF SafeToOptimise
<1>7. IInv
  BY InitIInv
<1>8. Runnable(code, alive) /\ code \in [Slot -> Op] /\ alive \in SUBSET Slot
  BY <1>6, <1>7, IsRunnable DEF IInv, TypeOK
<1>9. DOMAIN meaning \subseteq Env
      /\ \A env \in DOMAIN meaning : meaning[env] = Outcome(code, alive, env)
  BY <1>1 DEF Inputs
<1>10. SameRuns(code, alive, code, alive)
  BY SameRunsReflexive
<1> QED BY <1>5, <1>6, <1>8, <1>9, <1>10 DEF SafeInv, MeaningInv

(* A pass that keeps the list plain and what the program does.             *)
Keeps(T) == Plain(code', alive', T) /\ SameRuns(code, alive, code', alive')

LEMMA KeepsRemoving ==
  ASSUME IInv, IInv', NEW T, Plain(code, alive, T), code' = code, alive' \subseteq alive
  PROVE  /\ Plain(code', alive', T)
         /\ Runnable(code, alive) /\ Runnable(code, alive')
<1>1. Plain(code', alive', T)
  BY FewerPlain
<1> QED BY <1>1, IsRunnable, IsRunnableNext

LEMMA KeepsInPlace ==
  ASSUME NEW T, code' = code, alive' = alive, Plain(code, alive, T)
  PROVE  Keeps(T)
BY SameRunsReflexive DEF Keeps

LEMMA StepKeeps ==
  ASSUME IInv, IInv', [Next]_vars, NEW T \in SUBSET Var, Plain(code, alive, T)
  PROVE  Keeps(T)
<1>1. CASE NextPass \/ UNCHANGED vars
  BY <1>1, KeepsInPlace DEF NextPass, vars
<1>2. ASSUME NEW i \in Slot, RemoveUnusedLabel(i)
      PROVE  Keeps(T)
  <2>1. i \in alive /\ code[i].id = "LABEL" /\ code' = code
    BY <1>2, VisitsMoves DEF RemoveUnusedLabel, Wants
  <2>2. CASE LabelUsed(code, alive, code[i].label)
    BY <1>2, <2>2, KeepsInPlace DEF RemoveUnusedLabel
  <2>3. CASE ~LabelUsed(code, alive, code[i].label)
    <3>1. alive' = alive \ {i}
      BY <1>2, <2>3 DEF RemoveUnusedLabel
    <3>2. Plain(code', alive', T) /\ Runnable(code, alive) /\ Runnable(code, alive')
      BY <2>1, <3>1, KeepsRemoving
    <3>3. SameRuns(code, alive, code, alive')
      BY <2>1, <2>3, <3>1, <3>2, LabelRemoved
    <3> QED BY <2>1, <3>2, <3>3 DEF Keeps
  <2> QED BY <2>2, <2>3
<1>3. ASSUME NEW i \in Slot, RemoveAfterFlowEnd(i)
      PROVE  Keeps(T)
  <2>1. i \in alive /\ EndsFlow(code[i]) /\ code' = code
        /\ alive' = alive \ Segment(code, alive, i)
    BY <1>3, VisitsMoves DEF RemoveAfterFlowEnd, Wants
  <2>2. Plain(code', alive', T) /\ Runnable(code, alive) /\ Runnable(code, alive')
    BY <2>1, KeepsRemoving
  <2>3. SameRuns(code, alive, code, alive')
    BY <2>1, <2>2, UnreachedRemoved
  <2> QED BY <2>1, <2>2, <2>3 DEF Keeps
<1>4. ASSUME NEW i \in Slot, RemoveEmptyJump(i)
      PROVE  Keeps(T)
  <2>1. i \in alive /\ IsJump(code[i]) /\ code' = code
    BY <1>4, VisitsMoves DEF RemoveEmptyJump, Wants
  <2>2. CASE ~SkipsNothing(i)
    BY <1>4, <2>2, KeepsInPlace DEF RemoveEmptyJump
  <2>3. CASE SkipsNothing(i)
    <3> DEFINE t == LabelSlot(code, alive, code[i].label)
    <3>1. alive' = alive \ {i}
      BY <1>4, <2>3 DEF RemoveEmptyJump
    <3>2. Plain(code', alive', T) /\ Runnable(code, alive) /\ Runnable(code, alive')
      BY <2>1, <3>1, KeepsRemoving
    <3>3. t = decl[code[i].label]
      BY <2>1, IsRunnable
    <3>4. i < t /\ \A j \in Between(alive, i, t) : ~HasEffect(code[j])
      <4>1. t > i /\ \A j \in Between(alive, i, t) : ~HasEffect(code[j])
        BY <2>3, <3>3 DEF SkipsNothing
      <4>2. t \in Nat /\ i \in Nat
        <5>1. t \in alive /\ i \in alive
          BY <2>1, <3>2, JumpLands
        <5>2. alive \subseteq Slot
          BY DEF IInv, TypeOK
        <5> QED BY <5>1, <5>2, SlotsAre
      <4> HIDE DEF t
      <4> QED BY <4>1, <4>2
    <3>5. SameRuns(code, alive, code, alive')
      BY <2>1, <3>1, <3>2, <3>4, EmptyJumpRemoved
    <3> QED BY <2>1, <3>2, <3>5 DEF Keeps
  <2> QED BY <2>2, <2>3
<1>5. ASSUME NEW i \in Slot, RetargetJump(i)
      PROVE  Keeps(T)
  <2> DEFINE s == LabelSlot(code, alive, code[i].label)
             f == FollowingOp(i)
  <2>1. i \in alive /\ IsJump(code[i]) /\ alive' = alive
    BY <1>5, VisitsMoves DEF RetargetJump, Wants
  <2>2. f = NextOf(alive, s)
    BY <2>1, IsRunnable DEF FollowingOp
  <2>3. code \in [Slot -> Op] /\ alive \subseteq Slot
    BY DEF IInv, TypeOK
  <2>4. CASE f \in alive /\ code[f].id = "GOTO"
    <3>1. code' = [code EXCEPT ![i].label = code[f].label]
      BY <1>5, <2>4 DEF RetargetJump
    <3>2. CASE f = i
      <4>1. code' = code
        BY <2>3, <3>1, <3>2 DEF Op
      <4> QED BY <2>1, <4>1, KeepsInPlace
    <3>3. CASE f # i
      <4>1. \A j \in alive : /\ code'[j].id = code[j].id /\ code'[j].out = code[j].out
                             /\ code'[j].cond = code[j].cond
                             /\ code'[j].a = code[j].a /\ code'[j].b = code[j].b
        BY <2>3, <3>1 DEF Op
      <4>2. Plain(code', alive', T)
        BY <2>1, <4>1 DEF Plain
      <4>3. Runnable(code, alive) /\ Runnable(code', alive)
        BY <2>1, <4>2, IsRunnable, IsRunnableNext
      <4>4. Retargets(code, i, f, code')
        BY <3>1 DEF Retargets
      <4>5. SameRuns(code, alive, code', alive)
        <5> HIDE DEF f, s
        <5> QED BY <2>1, <2>2, <2>4, <3>3, <4>3, <4>4, JumpRetargeted DEF s
      <4> QED BY <2>1, <4>2, <4>5 DEF Keeps
    <3> QED BY <3>2, <3>3
  <2>5. CASE ~(f \in alive /\ code[f].id = "GOTO")
    <3>1. code' = code
      BY <1>5, <2>5 DEF RetargetJump
    <3> QED BY <2>1, <3>1, KeepsInPlace
  <2> QED BY <2>4, <2>5
<1>6. ASSUME NEW i \in Slot, InlineImm(i)
      PROVE  Keeps(T)
  <2>1. i \in alive /\ code[i].id = "IMM"
    BY <1>6, VisitsMoves DEF InlineImm, Wants
  <2>2. CASE CopiesItself(code[i])
    <3>1. code' = code /\ alive' = alive \ {i}
      BY <1>6, <2>2 DEF InlineImm
    <3>2. Plain(code', alive', T) /\ Runnable(code, alive) /\ Runnable(code, alive')
      BY <3>1, KeepsRemoving
    <3>3. SameRuns(code, alive, code, alive')
      BY <2>1, <2>2, <3>1, <3>2, SelfCopyRemoved
    <3> QED BY <3>1, <3>2, <3>3 DEF Keeps
  <2>3. CASE ~CopiesItself(code[i])
    <3> DEFINE o == code[i].out
               n == code[i].a
    <3>1. code' = Inlined(code, alive, i) /\ alive' = alive
      BY <1>6, <2>3 DEF InlineImm
    <3>2. o \in Var /\ n \in Val /\ n \notin T
      BY <2>1 DEF IInv, TypeOK, OpShape, Plain
    <3>3. ASSUME NEW j \in alive
          PROVE  /\ code'[j].id = code[j].id /\ code'[j].out = code[j].out
                 /\ code'[j].cond \in {code[j].cond, n}
                 /\ code'[j].a \in {code[j].a, n} /\ code'[j].b \in {code[j].b, n}
                 /\ code'[j].b # None => code[j].b # None
      <4>1. code[j] \in Op /\ j \in Slot
        BY DEF IInv, TypeOK
      <4>2. code'[j] = code[j] \/ code'[j] = Substitute(code[j], o, n)
        BY <3>1, <4>1 DEF Inlined
      <4>3. None \notin Var
        BY LlirAssumption
      <4> HIDE DEF o, n
      <4> QED BY <3>2, <4>1, <4>2, <4>3 DEF Substitute, Op
    <3>4. Plain(code', alive', T)
      <4> HIDE DEF o, n
      <4> SUFFICES ASSUME NEW j \in alive
                   PROVE  /\ code'[j].id # "PLACE"
                          /\ code'[j].id = "IMM" => code'[j].a \notin T
                          /\ code'[j].id = "CMOV" /\ code'[j].b # None =>
                               /\ code'[j].out \in T /\ code'[j].out # code'[j].cond
                               /\ code'[j].out # code'[j].a
                               /\ code'[j].b \notin T /\ j - 1 \notin alive
        BY <3>1 DEF Plain
      <4> QED BY <3>2, <3>3 DEF Plain
    <3>5. Runnable(code, alive) /\ Runnable(code', alive)
      BY <3>1, <3>4, IsRunnable, IsRunnableNext
    <3>6. SameRuns(code, alive, code', alive)
      BY <2>1, <2>3, <3>1, <3>5, CopyInlined
    <3> QED BY <3>1, <3>4, <3>6 DEF Keeps
  <2> QED BY <2>2, <2>3
<1>7. ASSUME NEW i \in Slot, RemoveUnusedOp(i)
      PROVE  Keeps(T)
  <2>1. i \in alive /\ ~HasSideEffect(code[i]) /\ code' = code /\ code[i].id # "UNUSED"
    BY <1>7, VisitsMoves DEF RemoveUnusedOp, Wants, IInv, TypeOK
  <2>2. CASE CopiesItself(code[i]) \/ ~BlockVarUsed(code, alive, code[i].out)
    <3>1. alive' = alive \ {i}
      BY <1>7, <2>2 DEF RemoveUnusedOp
    <3>2. Plain(code', alive', T) /\ Runnable(code, alive) /\ Runnable(code, alive')
      BY <2>1, <3>1, KeepsRemoving
    <3>3. SameRuns(code, alive, code, alive')
      BY <2>1, <2>2, <3>1, <3>2, SelfCopyRemoved, UnusedRemoved
    <3> QED BY <2>1, <3>2, <3>3 DEF Keeps
  <2>3. CASE ~(CopiesItself(code[i]) \/ ~BlockVarUsed(code, alive, code[i].out))
    <3>1. alive' = alive
      BY <1>7, <2>3 DEF RemoveUnusedOp
    <3> QED BY <2>1, <3>1, KeepsInPlace
  <2> QED BY <2>2, <2>3
<1>8. ASSUME NEW i \in Slot, ExpandCmov(i)
      PROVE  Keeps(T)
  <2>1. i \in alive /\ code[i].id = "CMOV" /\ code[i].b # None
    BY <1>8, VisitsMoves DEF ExpandCmov, Wants
  <2>2. code \in [Slot -> Op] /\ alive \subseteq Slot /\ i \in Slot /\ i \in Int
    BY DEF IInv, TypeOK, Slot
  <2>3. i - 1 \in Slot /\ i - 1 # i
    <3>1. i % 2 = 0
      BY <2>1, <2>2 DEF IInv, InsertionSlots
    <3> QED BY <2>2, <3>1, LlirAssumption DEF Slot
  <2>4. Expands(code, alive, i, code', alive') /\ alive' = alive \cup {i - 1}
    BY <1>8 DEF ExpandCmov, Expands
  <2>5. /\ code[i].out \in T /\ code[i].out # code[i].cond /\ code[i].out # code[i].a
        /\ code[i].b \notin T /\ i - 1 \notin alive
    BY <2>1 DEF Plain
  <2>6. /\ \A j \in alive : j # i => code'[j] = code[j]
        /\ code'[i - 1].id = "IMM" /\ code'[i - 1].a = code[i].b
        /\ code'[i].id = "CMOV" /\ code'[i].b = None
    <3>1. /\ \A j \in alive : j # i => code'[j] = code[j]
          /\ code'[i - 1] = MakeOp("IMM", code[i].out, None, None, code[i].b, None)
          /\ code'[i] = [code[i] EXCEPT !.b = None]
      BY <2>2, <2>3, <2>4, <2>5 DEF Expands
    <3>2. code[i] \in Op
      BY <2>2
    <3> QED BY <2>1, <3>1, <3>2 DEF MakeOp, Op
  <2>7. Plain(code', alive', T)
    <3> SUFFICES ASSUME NEW j \in alive'
                 PROVE  /\ code'[j].id # "PLACE"
                        /\ code'[j].id = "IMM" => code'[j].a \notin T
                        /\ code'[j].id = "CMOV" /\ code'[j].b # None =>
                             /\ code'[j].out \in T /\ code'[j].out # code'[j].cond
                             /\ code'[j].out # code'[j].a
                             /\ code'[j].b \notin T /\ j - 1 \notin alive'
      BY DEF Plain
    <3>1. CASE j = i - 1
      BY <2>5, <2>6, <3>1
    <3>2. CASE j = i
      BY <2>6, <3>2
    <3>3. CASE j # i /\ j # i - 1
      <4>1. j \in alive /\ code'[j] = code[j] /\ j \in Int
        BY <2>2, <2>4, <2>6, <3>3 DEF Slot
      <4>2. j - 1 # i - 1
        BY <2>2, <3>3, <4>1
      <4>3. j - 1 \notin alive => j - 1 \notin alive'
        BY <2>4, <4>2
      <4> QED BY <4>1, <4>3 DEF Plain
    <3> QED BY <3>1, <3>2, <3>3
  <2>8. Runnable(code, alive) /\ Runnable(code', alive')
    BY <2>7, IsRunnable, IsRunnableNext
  <2>9. SameRuns(code, alive, code', alive')
    BY <2>1, <2>3, <2>4, <2>5, <2>8, CmovExpanded
  <2> QED BY <2>7, <2>9 DEF Keeps
<1> QED BY <1>1, <1>2, <1>3, <1>4, <1>5, <1>6, <1>7, <1>8 DEF Next, Visit, Terminated

LEMMA StepSafe ==
  IInv /\ SafeInv /\ MeaningInv /\ [Next]_vars => SafeInv' /\ MeaningInv'
<1> SUFFICES ASSUME IInv, SafeInv, MeaningInv, [Next]_vars PROVE SafeInv' /\ MeaningInv'
  OBVIOUS
<1>1. IInv'
  BY StepIInv
<1>2. PICK T \in SUBSET Var : Plain(code, alive, T)
  BY DEF SafeInv
<1>3. Keeps(T)
  BY <1>1, <1>2, StepKeeps
<1>4. SafeInv'
  BY <1>3 DEF SafeInv, Keeps
<1>5. PICK c \in [Slot -> Op], A \in SUBSET Slot :
         /\ Runnable(c, A)
         /\ DOMAIN meaning \subseteq Env
         /\ \A env \in DOMAIN meaning : meaning[env] = Outcome(c, A, env)
         /\ SameRuns(c, A, code, alive)
  BY DEF MeaningInv
<1>6. SameRuns(c, A, code', alive')
  BY <1>3, <1>5, SameRunsTransitive DEF Keeps
<1>7. meaning' = meaning
  BY DEF Next, NextPass, Visit, Visits, RemoveUnusedLabel, RemoveAfterFlowEnd, RemoveEmptyJump,
         RetargetJump, InlineImm, RemoveUnusedOp, ExpandCmov, Terminated, vars
<1>8. MeaningInv'
  BY <1>5, <1>6, <1>7 DEF MeaningInv
<1> QED BY <1>4, <1>8

LEMMA SafeMeans == IInv /\ SafeInv /\ MeaningInv => MeaningPreserved
<1> SUFFICES ASSUME IInv, SafeInv, MeaningInv, NEW env \in DOMAIN meaning
             PROVE  SameOutcome(meaning[env], Outcome(code, alive, env))
  BY DEF MeaningPreserved
<1>1. PICK T \in SUBSET Var : Plain(code, alive, T)
  BY DEF SafeInv
<1>2. Runnable(code, alive)
  BY <1>1, IsRunnable
<1>3. PICK c \in [Slot -> Op], A \in SUBSET Slot :
         /\ Runnable(c, A)
         /\ DOMAIN meaning \subseteq Env
         /\ \A e \in DOMAIN meaning : meaning[e] = Outcome(c, A, e)
         /\ SameRuns(c, A, code, alive)
  BY DEF MeaningInv
<1>4. env \in Env /\ meaning[env] = Outcome(c, A, env)
  BY <1>3
<1> QED BY <1>2, <1>3, <1>4, SameRunsSameOutcome

-----------------------------------------------------------------------------
(* Type correctness of the optimiser, for all programs. *)
THEOREM TypeCorrect == Spec => []TypeOK
<1>1. IInv => TypeOK
  BY DEF IInv
<1> QED BY <1>1, InitIInv, StepIInv, PTL DEF Spec

(* However many rounds the optimiser runs, over a program of any size:     *)
(* no pass leaves a jump without the one label that it names, so the       *)
(* assertion in part1 never fails and no stale label entry is followed.    *)
THEOREM JumpsStayResolved == Spec => []JumpsResolved
<1>1. IInv => JumpsResolved
  BY DEF IInv
<1> QED BY <1>1, InitIInv, StepIInv, PTL DEF Spec

(* However many rounds the optimiser runs, over a program of any size:     *)
(* what it leaves behind a GOTO or a RETURN is a label or nothing, so no   *)
(* op is emitted that control cannot fall into.                            *)
THEOREM NoDeadTailAtEnd == Spec => []NoDeadTail
<1>1. Init => IInv /\ FlowInv
  BY InitIInv, InitFlowInv
<1>2. (IInv /\ FlowInv) /\ [Next]_vars => (IInv /\ FlowInv)'
  BY StepIInv, StepFlowInv
<1> QED BY <1>1, <1>2, CleanWhenDone, PTL DEF Spec

(* For programs of any size, any number of variables, labels and rounds:   *)
(* whatever passes have run, the program makes the same calls, with the    *)
(* same values, and ends as the one that came in would have.               *)
THEOREM MeaningKept ==
  (\A p \in Programs : SafeToOptimise(p)) => (Spec => []MeaningPreserved)
<1> SUFFICES ASSUME \A p \in Programs : SafeToOptimise(p)
             PROVE  Spec => []MeaningPreserved
  OBVIOUS
<1>1. Init => IInv /\ SafeInv /\ MeaningInv
  BY InitIInv, SafeInit
<1>2. (IInv /\ SafeInv /\ MeaningInv) /\ [Next]_vars => (IInv /\ SafeInv /\ MeaningInv)'
  BY StepIInv, StepSafe
<1> QED BY <1>1, <1>2, SafeMeans, PTL DEF Spec

=============================================================================
