------------------------------- MODULE SsaOpt -------------------------------
(***************************************************************************)
(* The optimiser of the structured form, vx_opt: blocks are visited from   *)
(* the inside out, and each goes through the same schedule of passes.      *)
(*                                                                         *)
(* Passes hold on to ops by pointer, and so does the table that names the  *)
(* op declaring each variable: an op that was unlinked or replaced stays   *)
(* in that table as it was.  Ops are therefore objects here: "ops" has     *)
(* every op that ever was, and the list of a block has their numbers.      *)
(*                                                                         *)
(* A pass walks the list of its block; copy inlining walks the lists of    *)
(* the nested blocks too.  "at" is the place it has reached.               *)
(***************************************************************************)
EXTENDS SsaExec

CONSTANTS
  Cases,               (* the programs to optimise, and for each whether    *)
                       (* cu->opt.if_eval and cu->info.cmov_opt are set     *)
  ConstevalIterations, (* cu->opt.consteval_iterations, 6 by default        *)
  MaxCmovCost,         (* cu->opt.max_total_cmov_inline_cost                *)
  MaxSteps             (* bound: how long runs are watched                  *)

ComputingId == {"IMM", "NOT", "OR"}

(* What the verifier demands of op in block b of program p: a result and   *)
(* the operands of its kind, as many outputs of a branch as of its IF; and *)
(* blocks are made, and numbered, after those they are nested in.          *)
Optimisable(p, b, op) ==
  /\ BlocksOf(op) \subseteq {c \in DOMAIN p : c > b}
  /\ op.id \in ComputingId => Len(op.outs) = 1
  /\ op.id # "IF" => {op.then, op.els} = {None}
  /\ op.id \notin LoopId => {op.cond, op.do} = {None}
  /\ op.id \in LoopId \cup {"IF"} => BlocksOf(op) # {}
  /\ op.id = "IF" => \A c \in BlocksOf(op) : Len(p[c].outs) = Len(op.outs)
  /\ op.a \in Val <=> op.id \in ComputingId \cup {"IF"}
  /\ op.b \in Val <=> op.id = "OR"
  /\ op.then = op.els => op.then = None
  /\ op.cond = op.do => op.cond = None

(* Every variable of p is an output of one op or an input of one block.    *)
DeclaredOnce(p) ==
  /\ \A b, c \in DOMAIN p : \A k \in DOMAIN p[b].ops, j \in DOMAIN p[c].ops :
       ToSet(p[b].ops[k].outs) \cap ToSet(p[c].ops[j].outs) # {} => b = c /\ k = j
  /\ \A b, c \in DOMAIN p :
       /\ ToSet(p[b].ins) \cap ToSet(p[c].ins) # {} => b = c
       /\ \A k \in DOMAIN p[c].ops : ToSet(p[b].ins) \cap ToSet(p[c].ops[k].outs) = {}

ASSUME SsaOptAssumption ==
  /\ ConstevalIterations \in Nat /\ MaxCmovCost \in Nat /\ MaxSteps \in Nat
  /\ IsFiniteSet(Var) /\ None \notin Nat
  /\ \A c \in Cases : c.ifEval \in BOOLEAN /\ c.cmovOpt \in BOOLEAN
  /\ \A c \in Cases :
       LET p == c.program
       IN  /\ p \in Seq(SsaBlock) /\ Root \in DOMAIN p
           /\ \A b \in DOMAIN p : \A k \in DOMAIN p[b].ops : Optimisable(p, b, p[b].ops[k])
           /\ NestedOnce(p) /\ DeclaredOnce(p)

VARIABLES
  blocks,   (* the blocks; ops are named by their numbers                   *)
  ops,      (* the ops                                                      *)
  decl,     (* vars[].decl: the op declaring each variable, or 0            *)
  todo,     (* the passes still to run, the current one first               *)
  at,       (* where the current pass stands                                *)
  crashed,  (* a NULL pointer was followed, or an assertion did not hold    *)
  meaning   (* what the program did when it came in, for every input; read  *)
            (* by properties only                                           *)

vars == <<blocks, ops, decl, todo, at, crashed, meaning>>

(* The program as a reader of it sees it. *)
Program == [b \in DOMAIN blocks |->
              [blocks[b] EXCEPT !.ops = [k \in DOMAIN @ |-> ops[@[k]]]]]

-----------------------------------------------------------------------------
(* Walking. *)

(* What seq has for the blocks nested in op, one after the other. *)
Inner(op, seq) ==
  LET of(d) == IF d = None THEN <<>> ELSE seq[d]
  IN  of(op.then) \o of(op.els) \o of(op.cond) \o of(op.do)

(* Going through block b and what is nested there, collecting what there   *)
(* is to collect before and after each op and at the end of a block.       *)
Tour(b, before, after, end) ==
  LET tour[c \in DOMAIN blocks] ==
        FlattenSeq([k \in DOMAIN blocks[c].ops |->
          LET u == blocks[c].ops[k]
          IN  before[u] \o Inner(ops[u], tour) \o after[u]])
        \o end[c]
  IN  tour[b]

Nothing == [u \in DOMAIN ops |-> <<>>]
Itself  == [u \in DOMAIN ops |-> <<u>>]
NoEnd   == [c \in DOMAIN blocks |-> <<>>]

(* vx_IrBlock_deepTraverse: the ops in block b, nested ones first. *)
Deep(b) == Tour(b, Nothing, Itself, NoEnd)

Reachable == ToSet(Deep(Root))

(* The blocks in block b, itself included. *)
BlocksIn(b) == {b} \cup UNION {BlocksOf(ops[u]) : u \in ToSet(Deep(b))}

(* vx_IrBlock_varUsed on the root. *)
UsedAnywhere(v) ==
  \/ \E u \in Reachable : v \in VarsRead(ops[u])
  \/ \E b \in BlocksIn(Root) : v \in ToSet(blocks[b].outs)

ImpureId == {"CALL", "RETURN", "BREAK", "CONTINUE"}

(* vx_IrOp_hasSideEffect, for the op and the ops nested in it. *)
Pure(u) ==
  /\ ops[u].id \notin ImpureId
  /\ \A b \in BlocksOf(ops[u]) : \A n \in ToSet(Deep(b)) : ops[n].id \notin ImpureId

(* The op with x for v in all that it reads. *)
ReadsReplaced(op, v, x) ==
  [op EXCEPT !.a = IF @ = v THEN x ELSE @, !.b = IF @ = v THEN x ELSE @,
             !.args = ReplaceIn(@, v, x)]

-----------------------------------------------------------------------------
(* The value of an operand, if it is known: vx_IrBlock_eval_var follows    *)
(* the declarations of copies.                                             *)
Known(x) ==
  LET value[n \in 0 .. Cardinality(Var)] ==
        [y \in Val |->
           IF y \in Imm THEN y
           ELSE IF n = 0 \/ decl[y] = 0 THEN None
           ELSE IF ops[decl[y]].id = "IMM" THEN value[n - 1][ops[decl[y]].a] ELSE None]
  IN  value[Cardinality(Var)][x]

(* vx_Irblock_mightbe and vx_Irblock_alwaysIs with 0: the first answers no *)
(* for a value that is not known.                                          *)
MightBeZero(x) == Known(x) = 0
AlwaysZero(x)  == Known(x) = 0

-----------------------------------------------------------------------------
(* The schedule.  What passes outside of this module do (the rewriting of  *)
(* comparisons and addresses) does not touch the ops of these programs.    *)
Times(n, passes) == FlattenSeq([k \in 1 .. n |-> passes])

OptPre == <<"inline_vars", "vars">> \o Times(ConstevalIterations, <<"constant_eval", "inline_vars">>)

Passes(case) ==
  OptPre \o <<"join_compute">>
         \o (IF case.ifEval THEN <<"reduce_if", "if_opts">> ELSE <<>>)
         \o (IF case.cmovOpt THEN <<"cmov">> ELSE <<>>)
         \o OptPre \o OptPre

(* The blocks from the inside out, the root last. *)
InsideOut == Tour(Root, Nothing, Nothing, [c \in DOMAIN blocks |-> <<c>>])

Schedule(case) ==
  LET passes == Passes(case)
  IN  FlattenSeq([n \in DOMAIN InsideOut |->
        [k \in DOMAIN passes |-> [pass |-> passes[k], block |-> InsideOut[n]]]])

Running(pass) == todo # <<>> /\ ~crashed /\ Head(todo).pass = pass

Block == Head(todo).block

List == blocks[Block].ops

Ahead == {k \in DOMAIN List : k > at}

OpAhead(k) == ops[List[k]]

Unchanged == UNCHANGED <<todo, meaning>>

-----------------------------------------------------------------------------
(* vx_opt_inline_vars: a copy is put in place of the variable it assigns,  *)
(* in the whole block, also where it stands before the copy.  PLACE and    *)
(* RETURN keep their operands; outputs of a block are looked at when the   *)
(* block has an op, and can only become variables.                         *)

Copies == {n \in DOMAIN Deep(Block) : n > at /\ ops[Deep(Block)[n]].id = "IMM"}

InlineVar ==
  /\ Running("inline_vars") /\ Copies # {}
  /\ LET n == Min(Copies)
         copy == ops[Deep(Block)[n]]
         old == copy.outs[1]
     IN  /\ ops' = [u \in DOMAIN ops |->
              IF u \notin ToSet(Deep(Block)) \/ ops[u].id = "RETURN" THEN ops[u]
              ELSE ReadsReplaced(ops[u], old, copy.a)]
         /\ blocks' = [b \in DOMAIN blocks |->
              IF b \notin BlocksIn(Block) \/ blocks[b].ops = <<>> \/ copy.a \notin Var
              THEN blocks[b]
              ELSE [blocks[b] EXCEPT !.outs = ReplaceIn(@, old, copy.a)]]
         /\ at' = n
  /\ Unchanged /\ UNCHANGED <<decl, crashed>>

(* vx_opt_vars *)

CopiesToItself(op) == op.id = "IMM" /\ op.outs # <<>> /\ op.a = op.outs[1]

(* Faulty variant: outputs of blocks do not count as uses. *)
UnusedByOps(k) ==
  /\ Pure(List[k])
  /\ \/ CopiesToItself(OpAhead(k))
     \/ \A v \in ToSet(OpAhead(k).outs) : ~\E u \in Reachable : v \in VarsRead(ops[u])

Unneeded(k) ==
  /\ Pure(List[k])
  /\ \/ CopiesToItself(OpAhead(k))
     \/ \A v \in ToSet(OpAhead(k).outs) : ~UsedAnywhere(v)

UnneededAhead == {k \in Ahead : Unneeded(k)}

RemoveUnneeded ==
  /\ Running("vars") /\ UnneededAhead # {}
  /\ LET k == Min(UnneededAhead)
     IN  /\ blocks' = [blocks EXCEPT ![Block].ops = RemoveAt(@, k)]
         /\ at' = k - 1
  /\ Unchanged /\ UNCHANGED <<ops, decl, crashed>>

(* Faulty variant: the parameters stay. *)
FoldedKeeping(op) ==
  IF op.b \in Imm /\ op.a \in Imm THEN [op EXCEPT !.id = "IMM"] ELSE op

(* vx_opt_constant_eval: operands are replaced by their values, and the op *)
(* by its value if it has one.  The operands are read from an array that   *)
(* was just freed; what the C library writes into it on that occasion does *)
(* not reach them.                                                         *)
Evaluated(x) == IF x = None \/ Known(x) = None THEN x ELSE Known(x)

Folded(op) ==
  LET a == Evaluated(op.a)
      b == Evaluated(op.b)
      value == IF op.id = "NOT" THEN IF a = 0 THEN 1 ELSE 0
               ELSE IF a = 0 /\ b = 0 THEN 0 ELSE 1
  IN  IF {a, b} \ {None} \subseteq Imm
      THEN [op EXCEPT !.id = "IMM", !.a = value, !.b = None]
      ELSE [op EXCEPT !.a = a, !.b = b]

FoldableAhead == {k \in Ahead : OpAhead(k).id \in {"NOT", "OR"}}

Fold ==
  /\ Running("constant_eval") /\ FoldableAhead # {}
  /\ LET k == Min(FoldableAhead)
     IN  ops' = [ops EXCEPT ![List[k]] = Folded(@)] /\ at' = k
  /\ Unchanged /\ UNCHANGED <<blocks, decl, crashed>>

-----------------------------------------------------------------------------
(* vx_opt_join_compute *)

SameComputation(m, u) == [ops[m] EXCEPT !.outs = <<>>] = [ops[u] EXCEPT !.outs = <<>>]
                           /\ Len(ops[m].outs) = Len(ops[u].outs)

(* The op that the block b is nested in: its place. *)
PlaceOf(b) ==
  CHOOSE d \in UNION {{[block |-> c, at |-> k] : k \in DOMAIN blocks[c].ops} : c \in BlocksIn(Root)} :
    b \in BlocksOf(ops[blocks[d.block].ops[d.at]])

(* The ops of block c in front of place k. *)
Before(c, k) == SubSeq(blocks[c].ops, 1, k - 1)

(* Ops, and what is nested in them, in the order they are looked at. *)
OutsideIn(us) ==
  LET tour == [d \in DOMAIN blocks |-> Tour(d, Itself, Nothing, NoEnd)]
  IN  FlattenSeq([n \in DOMAIN us |-> <<us[n]>> \o Inner(ops[us[n]], tour)])

(* Where an equal computation is looked for: in front of the op in its     *)
(* block and in blocks nested there, then in front of the op around the    *)
(* block, and so on outwards.                                              *)
Searched(k) ==
  LET around[b \in BlocksIn(Root)] ==
        IF b = Root THEN <<>>
        ELSE Before(PlaceOf(b).block, PlaceOf(b).at) \o around[PlaceOf(b).block]
  IN  OutsideIn(Before(Block, k)) \o around[Block]

Matches(k) == {n \in DOMAIN Searched(k) : SameComputation(Searched(k)[n], List[k])}

FirstMatch(k) == Searched(k)[Min(Matches(k))]

JoinableAhead == {k \in Ahead : Pure(List[k]) /\ Matches(k) # {}}

CopyOf(v, o) == MakeSsaOp("IMM", <<o>>, v, None, <<>>, None, None, None, None)

(* Faulty variant: the joined op stays behind its copy. *)
JoinedKeeping(list, k, new) == InsertAt(list, k, new)

Joined(list, k, new) == [list EXCEPT ![k] = new]

(* The op gives way to a copy of what the first match computed, which is   *)
(* asserted to be another one.                                             *)
Join ==
  /\ Running("join_compute") /\ JoinableAhead # {}
  /\ LET k == Min(JoinableAhead)
         m == FirstMatch(k)
     IN  /\ m # List[k]
         /\ ops' = Append(ops, CopyOf(ops[m].outs[1], OpAhead(k).outs[1]))
         /\ blocks' = [blocks EXCEPT ![Block].ops = Joined(@, k, Len(ops) + 1)]
         /\ at' = k
  /\ Unchanged /\ UNCHANGED <<decl, crashed>>

-----------------------------------------------------------------------------
(* vx_opt_reduce_if.  What it does to an IF with nothing in its branches   *)
(* is left out: such an IF has no effect and no outputs, so vx_opt_vars    *)
(* has removed it.                                                         *)

IfsAhead == {k \in Ahead : OpAhead(k).id = "IF"}

If == OpAhead(Min(IfsAhead))

AlwaysThen(op) == op.then # None /\ ~MightBeZero(op.a)

AlwaysElse(op) == op.els # None /\ AlwaysZero(op.a)

(* Faulty variant: the outputs keep their names. *)
SplicedUnnamed(branch, k) ==
  /\ blocks' = [blocks EXCEPT
       ![Block].ops = SubSeq(@, 1, k - 1) \o blocks[branch].ops \o SubSeq(@, k + 1, Len(@))]
  /\ UNCHANGED <<ops, decl>>

(* The ops of the branch take the place of the IF in place k.  Before, its *)
(* outputs are renamed to those of the branch, one after the other.        *)
Spliced(branch, k) ==
  LET old == OpAhead(k).outs
      new == blocks[branch].outs
      to(v) == IF v \in ToSet(old) THEN new[Min({n \in DOMAIN old : old[n] = v})] ELSE v
      here == BlocksIn(Block)
      all(s) == [n \in DOMAIN s |-> to(s[n])]
      names == [b \in DOMAIN blocks |->
                 IF b \notin here THEN blocks[b]
                 ELSE [blocks[b] EXCEPT !.ins = all(@), !.outs = all(@)]]
  IN  /\ blocks' = [names EXCEPT
           ![Block].ops = SubSeq(@, 1, k - 1) \o blocks[branch].ops \o SubSeq(@, k + 1, Len(@))]
      /\ ops' = [u \in DOMAIN ops |->
           IF u \notin ToSet(Deep(Block)) THEN ops[u]
           ELSE [ops[u] EXCEPT !.outs = all(@), !.a = to(@), !.b = to(@), !.args = all(@)]]
      /\ decl' = [v \in Var |->
           IF v \in ToSet(old) THEN 0
           ELSE IF v \in ToSet(new) /\ decl[v] = 0 THEN List[k] ELSE decl[v]]

TakeThen ==
  /\ Running("reduce_if") /\ IfsAhead # {} /\ AlwaysThen(If)
  /\ Spliced(If.then, Min(IfsAhead))
  /\ at' = Min(IfsAhead) - 1
  /\ Unchanged /\ UNCHANGED crashed

TakeElse ==
  /\ Running("reduce_if") /\ IfsAhead # {} /\ ~AlwaysThen(If) /\ AlwaysElse(If)
  /\ Spliced(If.els, Min(IfsAhead))
  /\ at' = Min(IfsAhead) - 1
  /\ Unchanged /\ UNCHANGED crashed

(* An IF that stays loses the outputs nothing uses, in its branches too.   *)
KeptIf(op) ==
  LET used == {n \in DOMAIN op.outs : UsedAnywhere(op.outs[n])}
      trim(s) == [n \in 1 .. Cardinality(used) |->
                   s[CHOOSE k \in used : Cardinality({j \in used : j <= k}) = n]]
  IN  /\ ops' = [ops EXCEPT ![List[Min(IfsAhead)]].outs = trim(@)]
      /\ blocks' = [b \in DOMAIN blocks |->
           IF b \in {op.then, op.els} THEN [blocks[b] EXCEPT !.outs = trim(@)]
           ELSE blocks[b]]

KeepIf ==
  /\ Running("reduce_if") /\ IfsAhead # {}
  /\ ~AlwaysThen(If) /\ ~AlwaysElse(If)
  /\ KeptIf(If)
  /\ at' = Min(IfsAhead)
  /\ Unchanged /\ UNCHANGED <<decl, crashed>>

-----------------------------------------------------------------------------
(* vx_opt_if_opts.  reduce_if has put a branch in the place of every IF    *)
(* that has both, so an IF that is still there lacks one, and the pass     *)
(* follows the pointer to it.  Without an IF only the removal of dead code *)
(* is left: what comes after an op that ends the flow.                     *)

EndsFlowId == {"RETURN", "BREAK", "CONTINUE", "INFINITE"}

BranchMissing ==
  /\ Running("if_opts") /\ IfsAhead # {}
  /\ crashed' = TRUE
  /\ Unchanged /\ UNCHANGED <<blocks, ops, decl, at>>

DeadAhead == {k \in Ahead : \E e \in 1 .. k - 1 : OpAhead(e).id \in EndsFlowId}

RemoveDead ==
  /\ Running("if_opts") /\ IfsAhead = {} /\ DeadAhead # {}
  /\ blocks' = [blocks EXCEPT ![Block].ops = SubSeq(@, 1, Min(DeadAhead) - 1)]
  /\ Unchanged /\ UNCHANGED <<ops, decl, at, crashed>>

(* vx_opt_cmov: an IF that may become a CMOV has its condition asserted to *)
(* be a block, which it never is.                                          *)

InlineCost(id) == IF id \in {"IMM", "NOT", "OR"} THEN 1 ELSE 3

(* vx_IrBlock_inlineCost *)
BlockCost(b) == SumFunction([n \in DOMAIN Deep(b) |-> InlineCost(ops[Deep(b)[n]].id)])

CmovCandidates ==
  {k \in Ahead :
     /\ OpAhead(k).id = "IF" /\ Len(OpAhead(k).outs) = 1
     /\ OpAhead(k).then # None /\ OpAhead(k).els # None
     /\ Pure(List[k])
     /\ BlockCost(OpAhead(k).then) + BlockCost(OpAhead(k).els) <= MaxCmovCost}

Cmov ==
  /\ Running("cmov") /\ CmovCandidates # {}
  /\ crashed' = TRUE
  /\ Unchanged /\ UNCHANGED <<blocks, ops, decl, at>>

-----------------------------------------------------------------------------
(* The pass that is running has nothing more to do. *)
PassOver ==
  LET pass == Head(todo).pass
  IN  CASE pass = "inline_vars"   -> Copies = {}
        [] pass = "vars"          -> UnneededAhead = {}
        [] pass = "constant_eval" -> FoldableAhead = {}
        [] pass = "join_compute"  -> JoinableAhead = {}
        [] pass = "reduce_if"     -> IfsAhead = {}
        [] pass = "if_opts"       -> IfsAhead = {} /\ DeadAhead = {}
        [] pass = "cmov"          -> CmovCandidates = {}

NextPass ==
  /\ todo # <<>> /\ ~crashed /\ PassOver
  /\ todo' = Tail(todo) /\ at' = 0
  /\ UNCHANGED <<blocks, ops, decl, crashed, meaning>>

Done == (todo = <<>> \/ crashed) /\ UNCHANGED vars

-----------------------------------------------------------------------------
(* The values a run may start from: any for the inputs of the function.    *)
Inputs(p) ==
  {[v \in Var |-> IF v \in ToSet(p[Root].ins) THEN given[v] ELSE 0] :
     given \in [ToSet(p[Root].ins) -> Imm]}

(* The number of the op in place k of block b. *)
NumberOf(p, b, k) ==
  k + Len(FlattenSeq([c \in 1 .. b - 1 |-> p[c].ops]))

Init ==
  \E case \in Cases :
    LET p == case.program
    IN  /\ blocks = [b \in DOMAIN p |->
              [p[b] EXCEPT !.ops = [k \in DOMAIN @ |-> NumberOf(p, b, k)]]]
        /\ ops = FlattenSeq([b \in DOMAIN p |-> p[b].ops])
        /\ decl = [v \in Var |->
              LET declaring == {u \in DOMAIN ops : v \in ToSet(ops[u].outs)}
              IN  IF declaring = {} THEN 0 ELSE Min(declaring)]
        /\ todo = Schedule(case)
        /\ at = 0
        /\ crashed = FALSE
        /\ meaning = [env \in Inputs(p) |-> SsaOutcome(p, env, MaxSteps)]

Next ==
  \/ InlineVar \/ RemoveUnneeded \/ Fold \/ Join
  \/ TakeThen \/ TakeElse \/ KeepIf
  \/ BranchMissing \/ RemoveDead \/ Cmov
  \/ NextPass \/ Done

Spec == Init /\ [][Next]_vars

-----------------------------------------------------------------------------
(* Ops have the parameters and blocks of their kind (an IMM one value, a   *)
(* NOT one, an OR two), lists name ops that exist and name each once, and  *)
(* so does the table of declarations.                                      *)
TypeOK ==
  /\ \A u \in DOMAIN ops :
       /\ ops[u].id \in SsaOpId
       /\ ToSet(ops[u].outs) \subseteq Var
       /\ BlocksOf(ops[u]) \subseteq DOMAIN blocks
       /\ ops[u].a \in Val <=> ops[u].id \in {"IMM", "NOT", "OR", "IF"}
       /\ ops[u].b \in Val <=> ops[u].id = "OR"
  /\ \A b \in DOMAIN blocks :
       /\ ToSet(blocks[b].ops) \subseteq DOMAIN ops
       /\ IsInjective(blocks[b].ops)
       /\ ToSet(blocks[b].ins) \cup ToSet(blocks[b].outs) \subseteq Var
  /\ \A v \in Var : decl[v] \in DOMAIN ops \cup {0}
  /\ crashed \in BOOLEAN /\ at \in Nat

(* No variable is an output or an input twice, whatever was joined or      *)
(* renamed: the optimised form is still single-assignment, which is        *)
(* verified when vx_opt returns (vx_IrBlock_verify).                       *)
SingleAssignment ==
  \A v \in Var :
    Cardinality({u \in Reachable : v \in ToSet(ops[u].outs)})
      + Cardinality({b \in BlocksIn(Root) : v \in ToSet(blocks[b].ins)}) <= 1

(* Everything that is read has been declared on the way there: by an op    *)
(* before it in its block, or before the ops its block is nested in, or as *)
(* an input of one of these blocks.  Removed ops are not missed, copies    *)
(* stay in the scope of what they copy, and no name of a replaced IF is    *)
(* left over.                                                              *)
ScopesRespected ==
  LET declared(b, k) ==
        ToSet(blocks[b].ins)
          \cup UNION {ToSet(ops[blocks[b].ops[j]].outs) : j \in 1 .. k - 1}
      scoped[b \in DOMAIN blocks, seen \in SUBSET Var] ==
        /\ ToSet(blocks[b].outs) \subseteq seen \cup declared(b, Len(blocks[b].ops) + 1)
        /\ \A k \in DOMAIN blocks[b].ops :
             LET op == ops[blocks[b].ops[k]]
                 known == seen \cup declared(b, k)
             IN  /\ VarsRead(op) \subseteq known
                 /\ \A n \in BlocksOf(op) : scoped[n, known]
  IN  scoped[Root, {}]

(* Whatever has been done to the program so far, for every input it makes  *)
(* the same calls with the same values in the same order and returns the   *)
(* same as the program that came in.                                       *)
MeaningPreserved ==
  ~crashed => \A env \in DOMAIN meaning :
                SameOutcome(meaning[env], SsaOutcome(Program, env, MaxSteps))

=============================================================================
