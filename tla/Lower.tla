------------------------------- MODULE Lower -------------------------------
(***************************************************************************)
(* From the structured form to the flat one: WHILE loops become infinite   *)
(* ones that break, an IF whose ELSE branch only leaves the round tests    *)
(* the opposite, so does one with only a THEN branch, and then the blocks  *)
(* are written out one after the other with labels and jumps between them  *)
(* (vx_IrBlock_llir_preLower_loops, vx_opt_if_swapCases,                   *)
(* vx_IrBlock_ll_if_invert, vx_IrBlock_llir_lower).                        *)
(*                                                                         *)
(* Writing out is recursive in the code; here "stack" holds its frames.    *)
(* The result of a branch either is assigned directly by the op that       *)
(* computes it, which is renamed to the output of the IF, or is moved      *)
(* there at the end of the branch.  The states of a loop are variables of  *)
(* their own: the inputs of the loop's block are renamed to them before it *)
(* is written, and its outputs afterwards, in all that was written so far. *)
(*                                                                         *)
(* Variables are numbers, and so are labels, counted as variables are: the *)
(* code writes the declaration of a new label to the table of variables.   *)
(***************************************************************************)
EXTENDS SsaExec

CONSTANTS
  Programs,   (* the structured programs to lower                           *)
  MaxSteps    (* bound: how long runs are watched                           *)

Members(s) == {s[n] : n \in DOMAIN s}

LeaveId == {"BREAK", "CONTINUE"}

(* What the verifier demands of op in block b of program p: as many        *)
(* outputs of a branch as of its IF, and as many first values, inputs and  *)
(* next values as a loop has states.  A condition is asked for one value,  *)
(* and is no place to leave the loop from; who leaves or goes on has a     *)
(* value for each output of the block.                                     *)
Lowerable(p, b, op) ==
  /\ BlocksOf(op) \subseteq DOMAIN p \ {Root, b}
  /\ op.id = "IF" => \A c \in BlocksOf(op) : Len(p[c].outs) = Len(op.outs)
  /\ op.id \in LoopId =>
       /\ op.do \in DOMAIN p /\ op.then = None /\ op.els = None
       /\ Len(op.args) = Len(op.outs)
       /\ Len(p[op.do].ins) = Len(op.outs) /\ Len(p[op.do].outs) = Len(op.outs)
  /\ op.id = "WHILE" =>
       /\ op.cond \in DOMAIN p \ {op.do}
       /\ Len(p[op.cond].ins) = Len(op.outs) /\ p[op.cond].outs # <<>>
       /\ \A k \in DOMAIN p[op.cond].ops : p[op.cond].ops[k].id \notin LeaveId
  /\ op.id \in LeaveId => Len(op.args) >= Len(p[b].outs)

(* Loops are left and gone on with from within (loopOP is asserted): the   *)
(* blocks "loops" are nested in loops, and others do not ask for one.      *)
LeavesWithin(p, loops) ==
  \A b \in DOMAIN p : \A k \in DOMAIN p[b].ops :
    LET op == p[b].ops[k]
    IN  /\ op.id \in LeaveId => b \in loops
        /\ b \in loops \/ op.id \in LoopId \/ BlocksOf(op) \cap loops = {}

Structured(p) ==
  /\ p \in Seq(SsaBlock)
  /\ Root \in DOMAIN p /\ p[Root].outs # <<>>
  /\ \A b \in DOMAIN p : \A k \in DOMAIN p[b].ops : Lowerable(p, b, p[b].ops[k])
  /\ NestedOnce(p)

WellFormed(p) ==
  /\ Structured(p)
  /\ \E loops \in SUBSET (DOMAIN p \ {Root}) : LeavesWithin(p, loops)

(* The variables that have a declaration. *)
VarsOf(p) ==
  UNION {Members(p[b].ins) \cup
         UNION {Members(p[b].ops[k].outs) : k \in DOMAIN p[b].ops} : b \in DOMAIN p}

ASSUME LowerAssumption ==
  /\ Var \cup Label \subseteq Nat \ {0, 1} /\ IsFiniteSet(Var)
  /\ None \notin Nat
  /\ MaxSteps \in Nat
  /\ \A p \in Programs : WellFormed(p) /\ VarsOf(p) # {}

VARIABLES
  blocks,   (* the structured program                                       *)
  phase,    (* "loops", "swap", "ifs", "lower" and "done"                   *)
  turned,   (* the conditions of the IFs whose branches were swapped        *)
  decl,     (* vars[].decl: the place of the op declaring each variable, as *)
            (* long as it is not written out yet                            *)
  nextVar,  (* vars_len: the next variable to be made                       *)
  nextLabel,(* labels_len                                                   *)
  stack,    (* the blocks being written out, the root first                 *)
  dest,     (* the ops written so far                                       *)
  meaning   (* what the program did when it came in, for every input; read  *)
            (* by properties only                                           *)

vars == <<blocks, phase, turned, decl, nextVar, nextLabel, stack, dest, meaning>>

(* NULL, an op already written out, or an input of a block. *)
NoDecl == [block |-> 0, at |-> 0]

Places(p) == {[block |-> b, at |-> k] : b \in DOMAIN p, k \in 1 .. 2 * MaxOps}

(* The table of declarations of program p. *)
DeclsOf(p) ==
  [v \in Var |->
     LET here == {d \in Places(p) : d.at <= Len(p[d.block].ops)
                                     /\ v \in Members(OpAt(p, d).outs)}
     IN  IF here = {} THEN NoDecl ELSE CHOOSE d \in here : TRUE]

(* Faulty variant: ops that move keep their old parent. *)
MovedKeepingParent(table, b, k, newBlock, n) == table

(* The ops of block b from place k on move up by n places, to a new block. *)
Moved(table, b, k, newBlock, n) ==
  [v \in Var |-> IF table[v].block = b /\ table[v].at >= k
                 THEN [block |-> newBlock, at |-> table[v].at + n] ELSE table[v]]

-----------------------------------------------------------------------------
(* Before lowering.  Nested blocks come first, then the ops in order. *)

ThenOnly(op) == op.id = "IF" /\ op.then # None /\ op.els = None

(* Each IF is visited once, although both branches may only leave. *)
ElseLeaves(op) ==
  /\ op.id = "IF" /\ op.a \notin turned
  /\ Len(blocks[op.els].ops) = 1 /\ blocks[op.els].ops[1].id \in LeaveId

Todo ==
  {d \in Places(blocks) :
     /\ d.at <= Len(blocks[d.block].ops)
     /\ \/ phase = "loops" /\ OpAt(blocks, d).id = "WHILE"
        \/ phase = "swap" /\ ElseLeaves(OpAt(blocks, d))
        \/ phase = "ifs" /\ ThenOnly(OpAt(blocks, d))}

Ready(d) ==
  /\ d \in Todo
  /\ \A e \in Todo :
       /\ e.block = d.block => e.at >= d.at
       /\ \A c \in BlocksOf(OpAt(blocks, d)) : e.block \notin Inside(blocks, c)

Imm2(out, value) == MakeSsaOp("IMM", <<out>>, value, None, <<>>, None, None, None, None)

(* while cond do body  becomes  loop { cond; if cond then body else break }: *)
(* the ops of the new loop, and program p with the op in place k of block b *)
(* turned into it.                                                          *)
FirstValues(p, op) ==
  [n \in DOMAIN p[op.cond].ins |-> Imm2(p[op.cond].ins[n], p[op.do].ins[n])]

RoundOps(p, op, results) ==
  LET branch == MakeSsaOp("IF", results, p[op.cond].outs[1], None, <<>>,
                          op.do, Len(p) + 2, None, None)
  IN  FirstValues(p, op) \o p[op.cond].ops \o <<branch>>

LoopTurned(p, b, k) ==
  LET op      == p[b].ops[k]
      newBody == Len(p) + 1
      nested  == [c \in DOMAIN p |->
                   IF p[c].parent = op.cond THEN [p[c] EXCEPT !.parent = newBody] ELSE p[c]]
  IN  [nested EXCEPT
         ![b].ops[k] = [op EXCEPT !.id = "INFINITE", !.cond = None, !.do = newBody],
         ![op.cond] = MakeBlock(0, <<>>, <<>>, <<>>),
         ![op.do].parent = newBody,
         ![op.do].ins = <<>>]

Unrolled(p, b, k, results) ==
  LET op    == p[b].ops[k]
      ins   == p[op.do].ins
      leave == MakeSsaOp("BREAK", <<>>, None, None, ins, None, None, None, None)
  IN  LoopTurned(p, b, k)
        \o <<MakeBlock(b, ins, RoundOps(p, op, results), results),
             MakeBlock(Len(p) + 1, <<>>, <<leave>>, ins)>>

LowerWhile(d) ==
  LET op      == OpAt(blocks, d)
      newBody == Len(blocks) + 1
      results == [n \in DOMAIN blocks[op.do].outs |-> nextVar + n - 1]
      place   == [block |-> newBody, at |-> Len(RoundOps(blocks, op, results))]
      moved   == Moved(decl, op.cond, 1, newBody, Len(FirstValues(blocks, op)))
  IN  /\ phase = "loops" /\ Ready(d)
      /\ Members(results) \subseteq Var
      /\ blocks' = Unrolled(blocks, d.block, d.at, results)
      /\ decl' = [v \in Var |-> IF v \in Members(results) THEN place ELSE moved[v]]
      /\ nextVar' = nextVar + Len(results)
      /\ UNCHANGED <<turned, phase, nextLabel, stack, dest, meaning>>

(* The IF at d is replaced by op, which tests the opposite, behind the NOT *)
(* that computes it.                                                       *)
Invert(d, op) ==
  LET ops == blocks[d.block].ops
      neg == MakeSsaOp("NOT", <<nextVar>>, op.a, None, <<>>, None, None, None, None)
  IN  /\ Ready(d)
      /\ nextVar \in Var
      /\ blocks' = [blocks EXCEPT ![d.block].ops =
           SubSeq(ops, 1, d.at - 1) \o <<neg, [op EXCEPT !.a = nextVar]>>
             \o SubSeq(ops, d.at + 1, Len(ops))]
      /\ decl' = [Moved(decl, d.block, d.at, d.block, 1) EXCEPT ![nextVar] = d]
      /\ nextVar' = nextVar + 1
      /\ UNCHANGED <<phase, nextLabel, stack, dest, meaning>>

Swapped(op) == [op EXCEPT !.then = op.els, !.els = op.then]

(* The new condition is written over the number of the old one, which is   *)
(* right if that was a variable and no constant.                           *)
SwapCases(d) ==
  LET op == OpAt(blocks, d)
  IN  /\ phase = "swap" /\ op.a \in Var
      /\ Invert(d, Swapped(op))
      /\ turned' = turned \cup {nextVar}

(* An IF without ELSE branch tests the opposite. *)
InvertIf(d) ==
  LET op == OpAt(blocks, d)
  IN  /\ phase = "ifs"
      /\ Invert(d, [op EXCEPT !.then = None, !.els = op.then])
      /\ UNCHANGED turned

Frame(role, block, jump, cont, brk, states) ==
  [role |-> role, block |-> block, at |-> 1, jump |-> jump, used |-> {},
   cont |-> cont, brk |-> brk, states |-> states]

NextPhase ==
  /\ Todo = {}
  /\ \/ phase = "loops" /\ phase' = "swap" /\ UNCHANGED stack
     \/ phase = "swap" /\ phase' = "ifs" /\ UNCHANGED stack
     \/ /\ phase = "ifs" /\ phase' = "lower"
        /\ stack' = <<Frame("root", Root, 0, None, None, <<>>)>>
  /\ UNCHANGED <<blocks, turned, decl, nextVar, nextLabel, dest, meaning>>

-----------------------------------------------------------------------------
(* lower_into: the op the innermost frame stands at is written out. *)

Top == stack[Len(stack)]
Outer == SubSeq(stack, 1, Len(stack) - 1)

AtOp(ids) ==
  /\ phase = "lower"
  /\ Top.at <= Len(blocks[Top.block].ops)
  /\ OpAt(blocks, Top).id \in ids

AtEnd(roles) ==
  /\ phase = "lower" /\ Top.role \in roles
  /\ Top.at > Len(blocks[Top.block].ops)

Room(ops) == Len(dest) + Len(ops) <= MaxOps

Jump(id, label, cond) == MakeOp(id, None, label, cond, None, None)
LabelOp(label) == Jump("LABEL", label, None)
MoveOp(out, value) == MakeOp("IMM", out, None, None, value, None)

(* One copy after the other, of value n to output n for the n of a set. *)
Moves(outs, values, which) ==
  LET moves[n \in 0 .. Len(outs)] ==
        IF n = 0 THEN <<>>
        ELSE IF n \in which THEN Append(moves[n - 1], MoveOp(outs[n], values[n]))
        ELSE moves[n - 1]
  IN  moves[Len(outs)]

(* vx_IrBlock_newLabel: the declaration of the variable with the number of *)
(* the label is overwritten, by the LABEL op or by NULL.                   *)
WithLabels(labels) == [v \in Var |-> IF v \in labels THEN NoDecl ELSE decl[v]]

NewLabels(count) == nextLabel .. nextLabel + count - 1

(* Faulty variant: the label for breaks is not counted. *)
TakeLabelsButOne(count) ==
  /\ NewLabels(count) \subseteq Label
  /\ decl' = WithLabels(NewLabels(count))
  /\ nextLabel' = nextLabel + 1

TakeLabels(count) ==
  /\ NewLabels(count) \subseteq Label
  /\ decl' = WithLabels(NewLabels(count))
  /\ nextLabel' = nextLabel + count

(* The ops written so far, with the label of the jump in place k set. *)
Patched(k, label) == [dest EXCEPT ![k].label = label]

Flat(op) ==
  MakeOp(op.id, IF op.outs = <<>> THEN None ELSE op.outs[1], None, None,
         IF op.args = <<>> THEN op.a ELSE op.args[1], op.b)

CopyOp ==
  /\ AtOp(PlainId) /\ Room(<<Top>>)
  /\ dest' = Append(dest, Flat(OpAt(blocks, Top)))
  /\ stack' = Forward(stack)
  /\ UNCHANGED <<blocks, turned, phase, decl, nextVar, nextLabel, meaning>>

(* An IF without branches writes nothing. *)
SkipIf ==
  /\ AtOp({"IF"})
  /\ BlocksOf(OpAt(blocks, Top)) = {}
  /\ stack' = Forward(stack)
  /\ UNCHANGED <<blocks, turned, phase, decl, nextVar, nextLabel, dest, meaning>>

-----------------------------------------------------------------------------
(* into: the branch src of an IF with outputs outs. *)

(* vx_IrBlock_varUsed *)
VarUsedIn(b, v) ==
  \E c \in Inside(blocks, b) :
    \/ v \in Members(blocks[c].outs)
    \/ \E k \in DOMAIN blocks[c].ops :
         LET op == blocks[c].ops[k] IN v \in {op.a, op.b} \cup Members(op.args)

(* Faulty variant: the blocks of later ops are not searched. *)
ReadByParamsOnly(op, v) == v \in {op.a, op.b}

(* Only the parameters of an op are looked at, not its arguments. *)
ReadByParams(op, v) ==
  v \in {op.a, op.b} \/ \E b \in BlocksOf(op) : VarUsedIn(b, v)

(* The results that cannot be assigned by the op that computes them: it is *)
(* not in this branch, or a later op of the branch reads the result.       *)
Used(src, outs, table) ==
  {n \in DOMAIN outs :
     LET v == blocks[src].outs[n]
         ops == blocks[src].ops
     IN  \/ table[v].block # src
         \/ \E k \in table[v].at + 1 .. Len(ops) : ReadByParams(ops[k], v)}

(* The others are renamed where they are computed. *)
WithResults(src, outs, used) ==
  LET direct(v) == {n \in DOMAIN outs \ used : blocks[src].outs[n] = v}
      named(v) == IF direct(v) = {} THEN v ELSE outs[Min(direct(v))]
      renamed(op) == [op EXCEPT !.outs = [m \in DOMAIN @ |-> named(@[m])]]
  IN  [blocks EXCEPT ![src].ops = [k \in DOMAIN @ |-> renamed(@[k])]]

(* Branch src of the IF op is entered from the frames of s; jump is the    *)
(* place of the jump over it.                                              *)
Into(s, role, src, op, jump, table) ==
  LET used == Used(src, op.outs, table)
  IN  /\ blocks' = WithResults(src, op.outs, used)
      /\ stack' = Append(s, [Frame(role, src, jump, s[Len(s)].cont,
                                   s[Len(s)].brk, s[Len(s)].states)
                             EXCEPT !.used = used])

(* After the branch, the results that were not renamed are copied. *)
ResultMoves ==
  Moves(OpAt(blocks, Outer[Len(Outer)]).outs, blocks[Top.block].outs, Top.used)

(* The ELSE branch comes right after the conditional jump. *)
BeginIf ==
  LET op == OpAt(blocks, Top)
      role == IF op.then = None THEN "only" ELSE "els"
  IN  /\ AtOp({"IF"}) /\ op.els # None /\ Room(<<op>>)
      /\ dest' = Append(dest, Jump("COND", None, op.a))
      /\ Into(stack, role, op.els, op, Len(dest'), decl)
      /\ UNCHANGED <<turned, phase, decl, nextVar, nextLabel, meaning>>

(* A jump over the THEN branch, whose label the conditional jump gets. *)
ElseDone ==
  LET op == OpAt(blocks, Outer[Len(Outer)])
      end == ResultMoves \o <<Jump("GOTO", None, None), LabelOp(nextLabel)>>
  IN  /\ AtEnd({"els"}) /\ Room(end)
      /\ dest' = Patched(Top.jump, nextLabel) \o end
      /\ TakeLabels(1)
      /\ Into(Outer, "then", op.then, op, Len(dest') - 1, decl')
      /\ UNCHANGED <<turned, phase, nextVar, meaning>>

(* The last branch of an IF, over which the pending jump goes. *)
BranchDone ==
  LET end == Append(ResultMoves, LabelOp(nextLabel))
  IN  /\ AtEnd({"then", "only"}) /\ Room(end)
      /\ dest' = Patched(Top.jump, nextLabel) \o end
      /\ TakeLabels(1)
      /\ stack' = Forward(Outer)
      /\ UNCHANGED <<blocks, turned, phase, nextVar, meaning>>

-----------------------------------------------------------------------------
(* Loops *)

Renamed(x, old, new) == IF x = old THEN new ELSE x

RenamedAll(xs, old, new) == [n \in DOMAIN xs |-> Renamed(xs[n], old, new)]

(* vx_IrBlock_renameVar, on a flat op and on block b and all nested in it. *)
RenameFlat(op, old, new) ==
  [op EXCEPT !.out = Renamed(@, old, new), !.cond = Renamed(@, old, new),
             !.a = Renamed(@, old, new), !.b = Renamed(@, old, new)]

RenameOp(op, old, new) ==
  [op EXCEPT !.outs = RenamedAll(@, old, new), !.args = RenamedAll(@, old, new),
             !.a = Renamed(@, old, new), !.b = Renamed(@, old, new)]

RenameVar(p, b, old, new) ==
  [c \in DOMAIN p |->
     IF c \notin Inside(p, b) THEN p[c]
     ELSE [p[c] EXCEPT !.ins = RenamedAll(@, old, new),
                       !.outs = RenamedAll(@, old, new),
                       !.ops = [k \in DOMAIN @ |-> RenameOp(@[k], old, new)]]]

(* The variables of a sequence get the names of another one after the      *)
(* other: in block b of program p, in flat code, and at the ends of a      *)
(* block.                                                                  *)
StatesNamed(p, b, olds, news) ==
  LET renamed[n \in 0 .. Len(news)] ==
        IF n = 0 THEN p ELSE RenameVar(renamed[n - 1], b, olds[n], news[n])
  IN  renamed[Len(news)]

CodeNamed(code, olds, news) ==
  LET written[n \in 0 .. Len(news)] ==
        IF n = 0 THEN code
        ELSE [k \in DOMAIN code |-> RenameFlat(written[n - 1][k], olds[n], news[n])]
  IN  written[Len(news)]

EndsNamed(block, olds, news) ==
  LET bounds[n \in 0 .. Len(news)] ==
        IF n = 0 THEN block
        ELSE [bounds[n - 1] EXCEPT !.ins = RenamedAll(@, olds[n], news[n]),
                                   !.outs = RenamedAll(@, olds[n], news[n])]
  IN  bounds[Len(news)]

(* The states of the loop get their first values, its inputs their names,  *)
(* and its labels their numbers; the one for breaks is declared later.     *)
BeginLoop ==
  LET op == OpAt(blocks, Top)
      head == Append(Moves(op.outs, op.args, DOMAIN op.outs), LabelOp(nextLabel))
  IN  /\ AtOp({"INFINITE"}) /\ Room(head)
      /\ dest' = dest \o head
      /\ TakeLabels(2)
      /\ blocks' = StatesNamed(blocks, op.do, blocks[op.do].ins, op.outs)
      /\ stack' = Append(stack, Frame("loop", op.do, 0, nextLabel,
                                      nextLabel + 1, op.outs))
      /\ UNCHANGED <<turned, phase, nextVar, meaning>>

LoopEnd == <<Jump("GOTO", Top.cont, None), LabelOp(Top.brk)>>

(* The outputs of the loop's block become its states, in everything that   *)
(* has been written, and the inputs and outputs of the function.           *)
LoopDone ==
  LET outs == blocks[Top.block].outs
  IN  /\ AtEnd({"loop"}) /\ Room(LoopEnd)
      /\ dest' = CodeNamed(dest, outs, Top.states) \o LoopEnd
      /\ blocks' = [blocks EXCEPT ![Root] = EndsNamed(@, outs, Top.states)]
      /\ decl' = [v \in Var |-> IF v \in Members(outs) THEN NoDecl ELSE decl[v]]
      /\ stack' = Forward(Outer)
      /\ UNCHANGED <<turned, phase, nextVar, nextLabel, meaning>>

(* CONTINUE and BREAK: as many states are set as the block around has      *)
(* outputs.                                                                *)
LeaveRound ==
  LET op == OpAt(blocks, Top)
      label == IF op.id = "CONTINUE" THEN Top.cont ELSE Top.brk
      ops == Append(Moves(Top.states, op.args, DOMAIN blocks[Top.block].outs),
                    Jump("GOTO", label, None))
  IN  /\ AtOp(LeaveId) /\ Room(ops)
      /\ dest' = dest \o ops
      /\ stack' = Forward(stack)
      /\ UNCHANGED <<blocks, turned, phase, decl, nextVar, nextLabel, meaning>>

(* The function returns its outputs. *)
Finish ==
  /\ AtEnd({"root"}) /\ Room(<<Top>>)
  /\ dest' = Append(dest, MakeOp("RETURN", None, None, None,
                                 blocks[Root].outs[1], None))
  /\ phase' = "done"
  /\ stack' = <<>>
  /\ UNCHANGED <<blocks, turned, decl, nextVar, nextLabel, meaning>>

-----------------------------------------------------------------------------
(* The values a run may start from: any for the inputs of the function, the *)
(* same for all other variables, which nothing reads before it is assigned.*)
Inputs(p) ==
  LET ins == Members(p[Root].ins)
  IN  {[v \in Var |-> IF v \in ins THEN given[v] ELSE junk] :
         given \in [ins -> Imm], junk \in Imm}

(* Functions with an IF that has one branch are turned away before they    *)
(* come this far; they enter behind the passes that follow a missing one.  *)
OneBranch(p) ==
  \E b \in DOMAIN p : \E k \in DOMAIN p[b].ops :
    p[b].ops[k].id = "IF" /\ None \in {p[b].ops[k].then, p[b].ops[k].els}

Init ==
  \E p \in Programs :
    /\ blocks = p
    /\ phase = IF OneBranch(p) THEN "ifs" ELSE "loops"
    /\ turned = {}
    /\ decl = DeclsOf(p)
    /\ nextVar = Max(VarsOf(p)) + 1
    /\ nextLabel = 2
    /\ stack = <<>>
    /\ dest = <<>>
    /\ meaning = [env \in Inputs(p) |-> SsaOutcome(p, env, MaxSteps)]

Terminated == phase = "done" /\ UNCHANGED vars

Next ==
  \/ \E d \in Todo : LowerWhile(d) \/ SwapCases(d) \/ InvertIf(d)
  \/ NextPhase
  \/ CopyOp \/ SkipIf \/ BeginIf \/ ElseDone \/ BranchDone
  \/ BeginLoop \/ LoopDone \/ LeaveRound \/ Finish
  \/ Terminated

Spec == Init /\ [][Next]_vars

-----------------------------------------------------------------------------
(* Ops of both forms have the fields of their kind, and every variable,    *)
(* label and place of the bookkeeping is one that exists.                  *)
TypeOK ==
  /\ phase \in {"loops", "swap", "ifs", "lower", "done"} /\ turned \subseteq Var
  /\ \A b \in DOMAIN blocks : \A k \in DOMAIN blocks[b].ops :
       /\ blocks[b].ops[k].id \in SsaOpId
       /\ Members(blocks[b].ops[k].outs) \subseteq Var
       /\ BlocksOf(blocks[b].ops[k]) \subseteq DOMAIN blocks
  /\ \A k \in DOMAIN dest : dest[k] \in Op
  /\ \A v \in Var : decl[v] # NoDecl =>
       decl[v].block \in DOMAIN blocks /\ decl[v].at \in DOMAIN blocks[decl[v].block].ops
  /\ \A d \in DOMAIN stack :
       /\ stack[d].block \in DOMAIN blocks
       /\ stack[d].used \subseteq DOMAIN blocks[stack[d].block].outs
       /\ stack[d].jump \in DOMAIN dest \cup {0}
  /\ nextLabel - 1 \in Label \cup {1}
  /\ nextVar - 1 \in Var

Declared(l) == {k \in DOMAIN dest : dest[k].id = "LABEL" /\ dest[k].label = l}

(* The jumps whose label is not known yet are those of the open branches.  *)
(* All others name a label that is in place, or that of the end of an open *)
(* loop, and no label is in two places: what is left open when a block has *)
(* been written is closed, to the right place, by the frame that opened it.*)
LabelsMatch ==
  /\ \A l \in Label : Cardinality(Declared(l)) <= 1
  /\ \A k \in DOMAIN dest : IsJump(dest[k]) =>
       IF dest[k].label = None THEN \E d \in DOMAIN stack : stack[d].jump = k
       ELSE \/ Declared(dest[k].label) # {}
            \/ \E d \in DOMAIN stack :
                 stack[d].role = "loop" /\ stack[d].brk = dest[k].label

(* What the program means now: that of the structured form until it is     *)
(* lowered, and of the flat one afterwards.  A structured step becomes at  *)
(* most a few flat ones.                                                   *)
FlatMeaning(env) ==
  LET code == [s \in Slot |-> IF s % 2 = 0 /\ s \div 2 <= Len(dest)
                              THEN dest[s \div 2] ELSE Unused]
  IN  OutcomeWithin(6 * MaxSteps, code, {2 * k : k \in DOMAIN dest}, env)

(* For every input, the lowered function makes the same calls with the     *)
(* same values in the same order and returns the same as the structured    *)
(* one, whatever loops and branches it nests; rewriting a WHILE loop or    *)
(* turning an IF around changes none of it on the way.                     *)
MeaningPreserved ==
  /\ phase \in {"loops", "swap", "ifs"} =>
       \A env \in DOMAIN meaning :
         SameOutcome(meaning[env], SsaOutcome(blocks, env, 2 * MaxSteps))
  /\ phase = "done" =>
       \A env \in DOMAIN meaning : SameOutcome(meaning[env], FlatMeaning(env))

=============================================================================
