------------------------------ MODULE SsaExec ------------------------------
(***************************************************************************)
(* The structured form of a function, with nested blocks, and what a       *)
(* program in it does when it runs: the reference for the passes that work *)
(* on it and for lowering.  Runs are observed as those of the flat form.   *)
(*                                                                         *)
(* A program is a sequence of blocks, the root first; an op names the      *)
(* blocks nested in it by their place in the sequence.  A block hands its  *)
(* outputs to the op it is nested in: an IF takes them as its outputs, a   *)
(* loop as the values of its states in the next round.  Before it is made  *)
(* single-assignment (CIR) a program assigns variables again instead, and  *)
(* has loops like the for of C.                                            *)
(***************************************************************************)
EXTENDS LlirExec, SequencesExt

Root == 1

PlainId == {"IMM", "NOT", "OR", "CALL", "RETURN"}
LoopId == {"WHILE", "INFINITE"}
SsaOpId == PlainId \cup LoopId \cup {"IF", "CONTINUE", "BREAK"}

(* An op: its outputs, its parameters a and b (a is the condition of an    *)
(* IF), its arguments (of a CALL, a RETURN, a BREAK or a CONTINUE, and the *)
(* first values of the states of a loop), and its blocks: THEN and ELSE of *)
(* an IF, COND and DO of a loop.                                           *)
MakeSsaOp(id, outs, a, b, args, then, els, cond, do) ==
  [id |-> id, outs |-> outs, a |-> a, b |-> b, args |-> args,
   then |-> then, els |-> els, cond |-> cond, do |-> do]

BlocksOf(op) == {op.then, op.els, op.cond, op.do} \ {None}

MakeBlock(parent, ins, ops, outs) ==
  [parent |-> parent, ins |-> ins, ops |-> ops, outs |-> outs]

SsaOp ==
  [id : SsaOpId, outs : Seq(Var), a : Val \cup {None}, b : Val \cup {None},
   args : Seq(Val), then : Nat \cup {None}, els : Nat \cup {None},
   cond : Nat \cup {None}, do : Nat \cup {None}]

SsaBlock == [parent : Nat, ins : Seq(Var), ops : Seq(SsaOp), outs : Seq(Var)]

(* A block is nested in one op. *)
NestedOnce(p) ==
  \A b, c \in DOMAIN p : \A k \in DOMAIN p[b].ops, j \in DOMAIN p[c].ops :
    BlocksOf(p[b].ops[k]) \cap BlocksOf(p[c].ops[j]) # {} => b = c /\ k = j

(* The blocks nested in block b, itself included. *)
Inside(p, b) ==
  LET within[c \in DOMAIN p] ==
        c = b \/ (p[c].parent \in DOMAIN p /\ within[p[c].parent])
  IN  {c \in DOMAIN p : within[c]}

OpAt(p, place) == p[place.block].ops[place.at]

VarsRead(op) == ({op.a, op.b} \cup ToSet(op.args)) \cap Var

ReplaceIn(s, old, new) == [n \in DOMAIN s |-> IF s[n] = old THEN new ELSE s[n]]

-----------------------------------------------------------------------------
(* Running it.  A machine stands in a stack of places, one per open block. *)

Values(env, xs) == [n \in DOMAIN xs |-> Read(env, xs[n])]

(* All of vs get their value at once. *)
Bind(env, vs, values) ==
  [v \in DOMAIN env |->
     IF \E n \in DOMAIN vs : vs[n] = v
     THEN values[CHOOSE n \in DOMAIN vs : vs[n] = v] ELSE env[v]]

Below(stack, d) == SubSeq(stack, 1, d)
Open(stack, b) == Append(stack, [block |-> b, at |-> 1])
Forward(stack) == [stack EXCEPT ![Len(stack)].at = @ + 1]

(* Another round of the loop that the place at depth d stands on, with     *)
(* these values of its states.                                             *)
Round(p, m, d, values) ==
  LET op == OpAt(p, m.stack[d])
      first == IF op.cond # None THEN op.cond ELSE op.do
  IN  [m EXCEPT !.env = Bind(Bind(@, op.outs, values), p[first].ins, values),
                !.stack = Open(Below(@, d), first)]

(* The innermost loop around the top of the stack. *)
LoopDepth(p, stack) ==
  Max({d \in 1 .. Len(stack) - 1 : OpAt(p, stack[d]).id \in LoopId})

RunPlain(m, op) ==
  LET flat == MakeOp(op.id, IF op.outs = <<>> THEN None ELSE op.outs[1],
                     None, None, op.a, op.b)
      given == Values(m.env, op.args)
  IN  [m EXCEPT
         !.env = EnvAfter(@, flat),
         !.calls = IF op.id = "CALL" THEN Append(@, given[1]) ELSE @,
         !.ret = IF op.id = "RETURN" THEN given[1] ELSE @,
         !.stack = IF op.id = "RETURN" THEN <<>> ELSE Forward(@)]

(* A CFOR starts with its START block and ends a round with its END block. *)
LeaveCfor(p, m, op, b, results) ==
  LET outside == Below(m.stack, Len(m.stack) - 1)
      next == IF b = op.do THEN op.endex ELSE op.cond
  IN  [m EXCEPT !.stack =
         IF b # op.cond THEN Open(outside, next)
         ELSE IF results[1] # 0 THEN Open(outside, op.do) ELSE Forward(outside)]

RunOp(p, m) ==
  LET d == Len(m.stack)
      op == OpAt(p, m.stack[d])
      branch == IF Read(m.env, op.a) # 0 THEN op.then ELSE op.els
      given == Values(m.env, op.args)
      loop == LoopDepth(p, m.stack)
  IN  CASE op.id \in PlainId -> RunPlain(m, op)
        [] op.id = "IF" ->
             [m EXCEPT !.stack = IF branch = None THEN Forward(@) ELSE Open(@, branch)]
        [] op.id \in LoopId -> Round(p, m, d, given)
        [] op.id = "CFOR" -> [m EXCEPT !.stack = Open(@, op.start)]
        [] op.id = "CONTINUE" -> Round(p, m, loop, given)
        [] op.id = "BREAK" ->
             [m EXCEPT !.env = Bind(@, OpAt(p, m.stack[loop]).outs, given),
                       !.stack = Forward(Below(@, loop))]

(* The end of a block is reached. *)
LeaveBlock(p, m) ==
  LET d == Len(m.stack)
      b == m.stack[d].block
      results == Values(m.env, p[b].outs)
      op == OpAt(p, m.stack[d - 1])
      outside == Below(m.stack, d - 1)
  IN  IF d = 1
      THEN [m EXCEPT !.stack = <<>>, !.ret = IF results = <<>> THEN @ ELSE results[1]]
      ELSE IF op.id = "CFOR" THEN LeaveCfor(p, m, op, b, results)
      ELSE IF op.id = "IF"
      THEN [m EXCEPT !.env = Bind(@, op.outs, results), !.stack = Forward(outside)]
      ELSE IF b = op.do THEN Round(p, m, d - 1, results)
      ELSE IF results[1] # 0
      THEN [m EXCEPT !.env = Bind(@, p[op.do].ins, Values(@, op.outs)),
                     !.stack = Open(outside, op.do)]
      ELSE [m EXCEPT !.stack = Forward(outside)]

RunStep(p, m) ==
  LET top == m.stack[Len(m.stack)]
  IN  IF top.at > Len(p[top.block].ops) THEN LeaveBlock(p, m) ELSE RunOp(p, m)

(* The run of program p from env, watched for n steps. *)
SsaOutcome(p, env, n) ==
  LET run[k \in 0 .. n] ==
        IF k = 0
        THEN [stack |-> Open(<<>>, Root), env |-> env, calls |-> <<>>, ret |-> None]
        ELSE LET m == run[k - 1] IN IF m.stack = <<>> THEN m ELSE RunStep(p, m)
      last == run[n]
  IN  [stopped |-> last.stack = <<>>, calls |-> last.calls, ret |-> last.ret]

=============================================================================
