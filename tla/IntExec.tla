------------------------------ MODULE IntExec ------------------------------
(***************************************************************************)
(* Functions in flat form as the code generator receives them, with ops on *)
(* integers of several widths, and what they compute.  The meaning of an   *)
(* op is the one its row in the table of ops describes.                    *)
(*                                                                         *)
(* A run starts from the values of the parameters and is observed through  *)
(* its calls, the memory it leaves, and what it returns.  Words have the   *)
(* size of module X86.  Variables of one byte are booleans to begin with.  *)
(***************************************************************************)
EXTENDS X86, FiniteSetsExt

CONSTANTS
  Var,        (* the variables of the function, which are numbers           *)
  None,       (* no variable, no label                                      *)
  TypeSize    (* the size of the type of each variable, in bytes            *)

ASSUME IntExecAssumption ==
  /\ Var \subseteq Nat /\ IsFiniteSet(Var)
  /\ None \notin Var
  /\ TypeSize \in [Var -> {1, 4, 8}]

(* An operand of an op; Absent is a parameter that is not there. *)
V(v) == [kind |-> "VAR", n |-> v]
I(n) == [kind |-> "IMM", n |-> n]
Uninit == [kind |-> "UNINIT", n |-> 0]
Absent == [kind |-> "NONE", n |-> 1]

(* An op: its kind, output, operands (parameters or arguments, in the      *)
(* order of the table of ops), label or callee, and condition code.        *)
MakeOp(id, out, args, label, cc) ==
  [id |-> id, out |-> out, args |-> args, label |-> label, cc |-> cc]

Operand ==
  [kind : {"VAR"}, n : Var] \cup [kind : {"IMM", "UNINIT", "NONE"}, n : Nat]

Uses(op, v) == \E n \in DOMAIN op.args : op.args[n] = V(v)

Compares == {"UGT", "UGTE", "ULT", "ULTE", "SGT", "SGTE", "SLT", "SLTE", "EQ", "NEQ"}

Extensions == {"ZEROEXT", "SIGNEXT", "BITCAST"}

Arithmetics ==
  {"ADD", "SUB", "MUL", "UDIV", "SDIV", "UMOD", "SMOD", "AND", "OR", "BITWISE_AND",
   "BITWISE_OR", "SHL", "SHR", "ASHR", "NOT", "BITWISE_NOT"}

OpId ==
  Compares \cup Extensions \cup Arithmetics
    \cup {"IMM", "CMOV", "PLACE", "LOAD", "STORE", "EA", "LOAD_EA", "STORE_EA", "CALL",
          "TAILCALL", "LABEL", "GOTO", "COND", "RETURN", "X86_CMP", "X86_SETCC", "X86_CMOV",
          "X86_JMPCC"}

Op ==
  [id : OpId, out : Var \cup {None}, args : Seq(Operand), label : {None} \cup Nat,
   cc : ConditionCodes \cup {""}]

HasSideEffect(op) ==
  op.id \in {"STORE", "STORE_EA", "CALL", "LABEL", "GOTO", "COND", "RETURN",
             "X86_CMP", "X86_JMPCC"}

-----------------------------------------------------------------------------
(* A run: the next op, the variables, the memory, what was observed.  It   *)
(* has ended or, after something without a meaning, may do anything.       *)

SizeOf(x) == IF x.kind = "VAR" THEN TypeSize[x.n] ELSE 8

Read(m, x, w) == IF x.kind = "VAR" THEN m.env[x.n] ELSE Cut(x.n, w)

(* The memory at address a; addr is the address of each placed variable. *)
At(m, addr, a) ==
  IF a < 0 THEN m.env[CHOOSE v \in Var : addr[v] = a] ELSE m.heap[a]

StoredAt(m, addr, a, n, w) ==
  IF a < 0 THEN [m EXCEPT !.env[CHOOSE v \in Var : addr[v] = a] = Merge(@, n, w)]
  ELSE [m EXCEPT !.heap[a] = Merge(@, n, w)]

(* base + idx * elsize. *)
EaOf(m, args) ==
  Wrap(Read(m, args[1], 8) + Read(m, args[2], 8) * Read(m, args[3], 8), 8)

Bool(b) == IF b THEN 1 ELSE 0

(* Less than, by the kind of comparison, and its counterparts. *)
Compared(id, a, b, w) ==
  LET ua == Wrap(a, w) ub == Wrap(b, w) sa == Signed(a, w) sb == Signed(b, w)
  IN  CASE id = "UGT"  -> ua > ub  [] id = "UGTE" -> ua >= ub
        [] id = "ULT"  -> ua < ub  [] id = "ULTE" -> ua <= ub
        [] id = "SGT"  -> sa > sb  [] id = "SGTE" -> sa >= sb
        [] id = "SLT"  -> sa < sb  [] id = "SLTE" -> sa <= sb
        [] id = "EQ"   -> ua = ub  [] id = "NEQ"  -> ua # ub

(* Division by 0, a quotient that does not fit and a shift by the width or *)
(* more have no meaning.                                                   *)
Meaningless(id, a, b, w) ==
  \/ id \in {"UDIV", "SDIV", "UMOD", "SMOD"} /\ b = 0
  \/ id \in {"SDIV", "SMOD"} /\ Signed(b, w) = -1 /\ Signed(a, w) = -2 ^ (Bits(w) - 1)
  \/ id \in {"SHL", "SHR", "ASHR"} /\ b >= Bits(w)

Calculated(id, a, b, w) ==
  CASE id = "ADD"  -> Wrap(a + b, w)    [] id = "SUB"  -> Wrap(a - b, w)
    [] id = "MUL"  -> Wrap(a * b, w)
    [] id = "UDIV" -> a \div b          [] id = "UMOD" -> a % b
    [] id = "SDIV" -> Wrap(Quotient(Signed(a, w), Signed(b, w)), w)
    [] id = "SMOD" -> Wrap(Signed(a, w)
                           - Signed(b, w) * Quotient(Signed(a, w), Signed(b, w)), w)
    [] id = "AND"  -> Bool(a # 0 /\ b # 0)
    [] id = "OR"   -> Bool(a # 0 \/ b # 0)
    [] id = "BITWISE_AND" -> BitAnd(a, b)
    [] id = "BITWISE_OR"  -> BitOr(a, b)
    [] id = "SHL"  -> Wrap(a * 2 ^ b, w)
    [] id = "SHR"  -> a \div 2 ^ b
    [] id = "ASHR" -> Wrap(Signed(a, w) \div 2 ^ b, w)
    [] id = "NOT"  -> Bool(a = 0)
    [] id = "BITWISE_NOT" -> 2 ^ Bits(w) - 1 - a

(* The value that op gives its output. *)
Result(m, addr, op) ==
  LET w == TypeSize[op.out]
      a == Read(m, op.args[1], w)
      b == IF Len(op.args) > 1 THEN Read(m, op.args[2], w) ELSE 0
      wide == SizeOf(op.args[1])
  IN  CASE op.id \in {"IMM", "ZEROEXT", "BITCAST"} -> Cut(a, w)
        [] op.id = "SIGNEXT" -> Wrap(Signed(a, wide), w)
        [] op.id \in Compares -> Bool(Compared(op.id, Read(m, op.args[1], wide),
                                               Read(m, op.args[2], wide), wide))
        [] op.id \in Arithmetics -> Calculated(op.id, a, b, w)
        [] op.id = "CMOV" -> IF Read(m, op.args[1], 1) # 0 THEN b ELSE m.env[op.out]
        [] op.id = "PLACE" -> addr[op.args[1].n]
        [] op.id = "LOAD" -> Cut(At(m, addr, Read(m, op.args[1], 8)), w)
        [] op.id = "LOAD_EA" -> Cut(At(m, addr, EaOf(m, op.args)), w)
        [] op.id = "EA" -> Wrap(EaOf(m, op.args), w)

LabelPlace(code, l) == CHOOSE k \in DOMAIN code : code[k].id = "LABEL" /\ code[k].label = l

RefStep(code, m, addr) ==
  LET op   == code[m.at]
      next == [m EXCEPT !.at = @ + 1]
      vals == [k \in DOMAIN op.args |-> Read(m, op.args[k], 8)]
      last == op.args[Len(op.args)]
  IN  CASE op.id = "RETURN" -> [m EXCEPT !.ended = TRUE, !.ret = vals]
        [] op.id = "LABEL" -> next
        [] op.id = "GOTO" -> [m EXCEPT !.at = LabelPlace(code, op.label)]
        [] op.id = "COND" -> IF vals[1] = 0 THEN next
                             ELSE [m EXCEPT !.at = LabelPlace(code, op.label)]
        [] op.id = "CALL" ->
             LET after == [next EXCEPT !.calls = Append(@, vals)]
             IN  IF op.out = None THEN after
                 ELSE [after EXCEPT !.env[op.out] = Cut(Answer(vals), TypeSize[op.out])]
        [] op.id = "STORE" -> StoredAt(next, addr, vals[1], vals[2], SizeOf(last))
        [] op.id = "STORE_EA" ->
             StoredAt(next, addr, EaOf(m, op.args), vals[4], SizeOf(last))
        [] OTHER ->
             IF op.id \in Arithmetics /\ Len(op.args) = 2
                /\ Meaningless(op.id, vals[1], vals[2], TypeSize[op.out])
             THEN [m EXCEPT !.ended = TRUE, !.undefined = TRUE]
             ELSE [next EXCEPT !.env[op.out] = Result(m, addr, op)]

(* The run from m, watched for n steps.  A function that comes to the end  *)
(* of its ops returns nothing.                                             *)
RefRun(code, addr, start, n) ==
  LET run[k \in 0 .. n] ==
        IF k = 0 THEN start
        ELSE LET m == run[k - 1]
             IN  CASE m.ended -> m
                   [] ~m.ended /\ m.at > Len(code) -> [m EXCEPT !.ended = TRUE]
                   [] OTHER -> RefStep(code, m, addr)
  IN  run[n]

=============================================================================
