# A verification project for vxcc

vxcc is a compiler back end in C. A front end hands it functions in a
structured IR; it turns them into SSA, optimises them, flattens them into a list
of ops with labels and jumps (the flat form, "LLIR" in the code), optimises
that, shares slots between variables and prints assembly. Everything runs in one
thread and one call of `vx_CU_compile` (`ir/ir.c:384`), so what is hard here is
not interleaving of threads. It is interleaving of *passes*: some twenty
rewriters share one mutable op list and a handful of side tables (who declares a
variable, who declares a label, where a variable is alive), they run in a fixed
order, several of them many times, each one edits the list while it walks it,
and each relies on what the earlier ones left in the tables.

The project models passes as state machines over that shared state, judges them
by a reference interpreter of the IR (a pass may not change what a program does)
and by the consistency of the tables, judges the code generator by running what it
writes on a model of the processor, and proves the table invariants for programs of
every size.

Paths below are relative to the repository's root (`ir/passes.c`), and
`PROJECT.json` maps every definition to the lines it stands for.

## 1. Inventory

| Component | State | Operations | Interacts with |
|---|---|---|---|
| Arena (`ir/fastalloc.c`) | chunk list, current chunk, bytes left | `fastalloc`, `fastrealloc`, `faststrdup` (`fastfreeall` has no caller) | every data structure of the compiler |
| IR data (`ir/ir.h`, `ir/ir.c`, `ir/builder.c`, `ir/analysis.c`, `ir/transform.c`) | op lists, nested blocks, root tables `vars[]` and `labels[]` | insert, remove, rename, queries | every pass |
| Driver (`ir/ir.c:384-497`, `ir/passes.c`) | the unit's blocks | three stages, `FROM_CIR`, `FROM_IR`, `FROM_LLIR`, then printing | all passes |
| SSA construction (`ir/transform/normalize.c`, `single_assign*.c`) | op lists, variable table | normalise, rename assignments, outputs of IFs and states of loops | verifier, SSA optimiser |
| SSA optimiser (`ir/opt/*.c` run by `vx_opt`) | op lists of nested blocks | constant folding, copy inlining, if/loop reduction, joins, CMOV, comparison rewriting | lowering |
| Lowering (`ir/transform/ssair_llir_lower.c`, `lower_loops.c`, `ll_if_invert.c`, `ir/opt/swap_if_cases.c`) | flat list, label table | IF, INFINITE, CONTINUE, BREAK to labels and jumps | flat optimiser |
| Flat optimiser (`vx_opt_ll`, `ir/passes.c:68-86`) | flat list, label table | dead code, jump threading, copy inlining, unused ops, CMOV expansion | slot sharing |
| Preparation (`vx_llir_prep_lower`, `ir/passes.c:88-99`) | flat list, declarations, lifetimes, renamed set | declarations, lifetimes, merging of variables, copy inlining, operand order | code generator |
| Tail calls (`ll_finalize.c`, `ir/opt/tailcall.c`, `vx_IrOp_isTail`) | op list | CALL to TAILCALL | code generator |
| x86 code generator (`targets/x86/*`) | locations of variables, scratch registers, frame | register assignment, emission | assembler |
| Verifier (`ir/verify*.c`) | none | errors of a function, after which compilation ends | driver |
| Reader and writer (`s-expr/*`) | rest of the text, open lists, types and functions known so far | text to tree, tree to unit, and back | driver |
| CLI, dumps, target tables | none that lasts | text in, text out | driver |

What is hard in each, and what makes it correct:

- *Arena.* Growth in place, chunk changes, a failing `malloc`, and sizes of zero
  or above a chunk. Correct: allocations never share a byte, stay inside their
  chunk, and keep their contents across reallocations.
- *Flat optimiser.* Passes unlink ops while standing on them, and follow a label
  table filled before the first of them. Correct: the program behaves as before,
  no jump dangles, dead code goes, the schedule ends.
- *Preparation.* Lifetimes are sets of list positions, computed once and united
  by hand as variables are renamed. Correct: no live value is overwritten, the
  lifetimes go on covering every mention, every variable mentioned at the end has
  a type, the walk ends.
- *Comparison rewriting.* A NOT takes over a comparison that the same walk may
  have rewritten; constants move by one. Correct: same truth values.
- *Lowering.* Results and loop states are moved one after the other, where the
  structured program assigns them at once; labels are declared through the
  wrong table (`ir/ir.c:300`). Correct: same behaviour as the structured program.
- *Reader and writer.* A token ends at a character that belongs to the next one,
  the end of the text closes all lists, functions are found by name among those read
  before. Correct: what was written is what is read, a text that was cut is either
  refused or a unit that ends earlier.
- *SSA construction.* Branches are renamed while they are walked, what is carried
  around a loop is guessed from who assigns it, and new numbers come from a table that
  must know all old ones. Correct: single assignment, every use behind its assignment,
  values keep their types through IFs and loops, same behaviour, and the verifier
  accepts the result.
- *SSA optimiser.* Blocks are spliced and renamed while they
  are walked; the table of declarations goes on naming ops that were unlinked;
  equal computations are joined across branches. Correct: single assignment, every
  use in the scope of its declaration, same behaviour.
- *Code generator.* One home per variable for the whole function, fixed registers of
  divisions, shifts and calls, two scratch registers, flags that live from a comparison
  to its use, the red zone. Correct: homes are apart, moves of parameters do not
  overwrite each other, what is written assembles and does what the function means.

`PROJECT.json` lists the hazards one by one at their lines, with the properties
that cover them and what the runs leave out.

## 2. Modules

| Module | What it is |
|---|---|
| `SsaExec` | the structured form, blocks in ops, and its reference interpreter |
| `Cir` | functions as a frontend hands them over, searches and renaming, the verifier |
| `MakeSsa` | the passes of `ir.c:405-414` that make a function single-assignment |
| `Reader` | units as text: the writer, the tokeniser, and the reader of units |
| `FrontEnd` | `Reader` and `MakeSsa` together: from text or API calls to verified functions |
| `SsaOpt` | `vx_opt`, the optimiser of the structured form |
| `Lower` | from the structured to the flat form: loops, IFs, labels and jumps |
| `Llir` | the flat form: ops, attributes of ops, walking the list, copy inlining |
| `LlirExec` | the reference interpreter of a flat program |
| `LlOpt` | `vx_opt_ll`, one action per visit of a pass to an op |
| `SlotShare` | `vx_llir_prep_lower`, likewise |
| `X86` | the processor, as far as generated integer code uses it |
| `IntExec` | functions in flat form with integers of several widths, and what they compute |
| `RegAlloc` | homes of variables, parameters, the frame |
| `Emit` | the instructions for each kind of op |
| `CodeGen` | the x86 back end: `vx_llir_x86`, `RegAlloc`, `Emit` |
| `Comparisons` | `vx_opt_comparisions` over one block |
| `Heap` | what users of the arena rely on: separate blocks of bytes |
| `FastAlloc` | the arena; implements `Heap` |
| `SsaPrograms` | notation for structured programs, shared by three MC modules |
| `MC...` | the programs or inputs on which each is checked |
| `...Proofs` | the theorems about each |

### Llir and LlirExec

The linked list `block->first`, `op->next` is a set `alive` of positions (slots)
over a function `code` from slots to ops; the next pointer of an op is the least
alive slot above it. The k-th op of the incoming program sits in slot 2k, and
2k-1 is free for the one insertion the passes make. An unlinked op keeps its
successor in the C code (`builder.c:413`) so that a loop standing on it can go
on; a slot that left `alive` still has slots above it, so the walk goes on
exactly the same way.

Op kinds are those the passes treat differently. NOT stands for every op with
one output and no side effect, OR for the commutative ones. `LlirExec` runs a
program from values of its variables and records its calls, in order, and how it
ends. Immediates are 0 and 1, enough to tell operands apart and to drive
conditions; `Fuel` is the number of machine states a program has, so that a run
which has not stopped by then never stops. Two runs look the same if both stop
with the same calls and result, or neither stops and one's calls begin the
other's.

Note that `HasEffect` follows the op table: LABEL and PLACE are both marked
`hasEffect` false (`ir/ops.cdef:156`), although `ir/analysis.c:325` says "false
for nop and label true for everything else". A jump over a PLACE is therefore
taken for an empty one; the model follows the table.

### LlOpt

`step` and `cur` are the pass being run and the slot its loop visited last. Each
action is one visit: `RemoveUnusedLabel` and `RemoveAfterFlowEnd` are the two
loops of `dce.c`, `RemoveEmptyJump` and `RetargetJump` those of `ll_jumps.c`,
`InlineImm` is an iteration of `vx_opt_ll_inlineVars` with its whole inner loop,
`RemoveUnusedOp` an iteration of `vx_opt_vars`, `ExpandCmov` one of
`cmov_expand.c`. `NextPass` is a loop that reaches the end of the list. `decl`
is `as_root.labels[].decl`, which `vx_IrBlock_llir_fix_decl` has just filled and
these passes read and never write. `Schedule`
is built from `cu->opt.consteval_iterations` and the four jump rounds as the
code builds it.

`meaning` remembers what the incoming program did; only properties read it.

### SlotShare

`FixDecl` and `Lifetimes` are one step each (each fills tables and reads nothing
it writes). The double loop of `share_slots.c` is taken one decision at a time:
`Turn` is the outer loop, `Absorb` a merge that lets the variable stay and jumps
to `recheck`, `Join` one in which the other variable takes it over, `PassOver` a
variable with no partner. `Partners` is the whole condition of the inner loop
with its order (`Min`), including the override for lifetimes that touch.
Variables are numbers because the code's order of merging depends on them. The arrays
of lifetimes are one place longer than the list (`Places`), as `vx_IrBlock_countOps`
has it; nothing writes that place, so `Lifetimes` puts anything there.

### Heap and FastAlloc

A pointer is a chunk and an offset. `Alloc`, `StrDup`, `Shrink`, `GrowInPlace`,
`Move` and `AllocFails` are the ways through the three functions; `Write` is the
owner of an allocation writing to it. New memory holds any of `Junk`.
`Heap` knows only the contents of each allocation; the refinement mapping `View`
reads them out of the chunks.

### Comparisons

One action per case of the switch; `Leave` is the fall through. An immediate is
a value of the compared type, so `constant + 1` wraps in its width, as the
comparison that is emitted does. `meaning` is the set of assignments to the
variables that the block allowed when it came in.

### Cir, MakeSsa, Reader and FrontEnd

`FrontEnd` is what `vxcc vs2asm` does up to the optimiser: `Reader` makes a unit of
a text, then `BeginFunction` hands its functions to `MakeSsa` one after the other,
until one has `errors` (`ir.c:411`). A unit may also be built through the API; the
difference that matters is `above`, the `parent_op` of a block, which the reader
leaves NULL (`ir_serial.c:158`) and the searches of `analysis.c` go by.

`Reader` writes with one operator per `emitS` function. A text is a sequence of
characters; a keyword or a number counts as one, names are spelled, because only they
can fill the token buffer. `snode_parse` is a recursion per list that is open; `open`
holds what its frames hold, the nodes read so far, and `OpenList`, `CloseList`,
`SkipSpace`, `ReadString`, `ReadAtom` and `EndRead` are the branches of its loop. The
outer tree is then gone through element by element (`BeginUnit`, `ReadOpt`,
`ReadType`, `ReadFunction`, in their order); `Refuse` is `exit`, where an element
misses something that the `parseS` function asserts or dereferences.

`Cir` extends the ops of `SsaExec` by types, for loops, and `above`. A walk through
nested blocks is a sequence of places (`Walk`), so that the searches
(`vx_IrBlock_varDeclRec`, `vx_IrBlock_vardeclOutBefore`) are first elements of it. `Errors` is `vx_ir_verify`.

`MakeSsa` runs the passes of `passes` in turn over the places in `todo`: `Fix`
(`vx_CIrBlock_fix`), `Normalize` (a for loop taken apart), `JoinBranches` or
`LeaveLocal` (`megic` for one output of one op in a branch), `AddLoopState` or
`LeaveLoop` (a WHILE), `OwnOutputs` (`mksa_final` at one op) and `Verify`. What a pass
looks at is collected when it starts, because the C loops go on from the op they stand
on, which none of these passes removes; outputs that are renamed meanwhile are seen
renamed.

`MeaningPreserved` runs the function on `SsaExec` after each of these steps, with
`Uninit` for what nothing has assigned; using that is an outcome of its own.

### SsaExec and SsaOpt

A structured program is a sequence of blocks, the root first; an op names the
blocks nested in it. `SsaExec` runs it on a stack of places and observes the same
things as `LlirExec`, so that the two forms can be compared.

`SsaOpt` is `vx_opt` (`ir/passes.c:14-54`). Passes hold ops by pointer, so ops are
objects with numbers (`ops`), lists of blocks hold numbers, and `decl`
(`as_root.vars[].decl`) goes on naming an op that a pass has unlinked, as the C
table does. `todo` is the schedule, a sequence of passes at blocks from the inside
out, and `at` is where the current pass stands. `InlineVar` is an iteration of
`inline_vars.c` with its walk through nested blocks, `RemoveUnneeded` of `vars.c`,
`Fold` of `constant_eval.c`, `Join` of `join_compute.c`, `RemoveDead` of
`dce.c`, `Cmov` of `cmov.c`. `TakeThen`, `TakeElse` and `KeepIf` are the three outcomes of
`reduce_if.c`; two ways into a NULL pointer or a failed assertion are
`BranchMissing` (`if_opts.c:29`, an IF whose missing branch is looked into) and the
second half of `Cmov` (`cmov.c:61`). After a crash nothing runs and
`MeaningPreserved` demands nothing. Every walk through nested blocks (`deepTraverse`,
the schedule, the search of `join_compute.c`) is a `Tour`: what is collected before and
after each op, and at the end of a block.

Parts of the schedule cannot do anything to these programs, and have no action:
`vx_opt_vars` has already removed every IF that `if_opts` would find empty;
`reduce_if` splices every IF with two branches before `if_opts` would move code out of
it; `reduce_loops` and `loop_simplify` look for ops that no pass makes of these;
`simple_patterns` and `comparisions` do not touch them (the latter is module
`Comparisons`). `constant_eval` reads fields of an op after it was freed; with the
allocator it is linked with the values are still there, and the model takes those.

### Lower

`Lower` follows `ir.c:431-434`. `LowerWhile` is `vx_IrBlock_llir_preLower_loops` at
one WHILE, `SwapCases` is `vx_opt_if_swapCases` at one IF (`turned` holds the
conditions it has made, so that it visits each IF once), `InvertIf` is `vx_IrBlock_ll_if_invert` at one IF; the order between
blocks that are not nested in each other is left open, which only decides the
numbers of new variables. The other passes that `vx_opt_preLower` runs in between are
not part of it. IFs with a single branch do not come this far through
`vx_CU_compile` (the verifier turns them away, and `swap_if_cases` follows a NULL
ELSE); `ll_if_invert` and lowering handle them, and functions that have one enter in
the phase "ifs". Then `lower_into` runs as a stack of frames: `CopyOp`, `SkipIf`,
`BeginIf`, `ElseDone`, `BranchDone`, `BeginLoop`, `LoopDone`, `LeaveRound` (CONTINUE
and BREAK) and `Finish` are the stretches of code between two recursive calls. A
frame holds what the call holds: its block and place, the jump that waits for its
label, the results to be moved at its end (`usedarr`), the two labels and the
states of the loop around. `Used` and `WithResults` are the first loop of `into`,
which decides from the table of declarations whether a result is renamed where it
is computed or moved at the end of the branch; `LoopDone` renames the outputs of the
loop's block to its states in all that has been written. `decl` is
`as_root.vars[].decl`, right when lowering starts, reduced to what `into` can see of
it: the place of an op that is still in its block, or nothing (NULL, a LABEL, an op
already written: all are "not in src"). `vx_IrBlock_newLabel` overwrites it at the
number of the label (`WithLabels`), so variables and labels are numbers from one
range.

The call that ends the compiler ("you forgot to run ll_if_invert") is the absence
of an action: reaching it would be a deadlock.

### X86, IntExec, RegAlloc, Emit, CodeGen

`X86` is no part of the compiler but the judge of what it writes: registers, flags, a
stack and a heap, and each instruction in use, with the rules that matter for
widths (a byte written to a register leaves the rest alone, four bytes clear it), for
flags (`xor` and arithmetic set them, `mov`, `lea` and `not` do not) and for calls
(caller-saved registers hold anything afterwards). `Encodable` is what the assembler
takes. `IntExec` is the other side, what a function means by the rows of `ops.cdef`.

`CodeGen` is the sequence of phases of `vx_llir_x86` and `vx_cg_x86stupid_gen`:

| Phase | Code | Actions |
|---|---|---|
| fuse, tests | `llir_conditionals.c`: comparisons become `X86_CMP` and `X86_SETCC`; what depends on one uses the flags while they last, the rest tests the variable, with a condition code that is found second (section 4) | `Fuse`, `TestVariable` |
| unused | `vx_opt_vars` once more | `RemoveUnused` |
| setup, registers, parameters, stack | scratch registers, the variable returned last, registers for the hottest variables, places of parameters, stack slots | the actions of `RegAlloc` |
| prologue, moves | which calls are tail calls (`ll_finalize.c`), frame, parameters to their homes | `Prologue`, `MoveParams` |
| emit | one op after the other | `EmitOp` |

`Emit` has one operator per `emit` function of `cg.c`. Scratch registers are released
in the reverse order of their use there, so a register's life is the scope of an
operand: `WithScratch(free, w, Body)`. Running out of them, like every other assertion,
writes the pseudo-instruction `assert`, which is not `Encodable`.

`IsTail` follows `vx_IrOp_isTail` from GOTO to label to GOTO; where that recursion
does not end, `Prologue` is not enabled. Lowering appends a RETURN to every function
(`ssair_llir_lower.c:247`), behind which no call is a tail call: functions that end in
a call come from frontends that hand over flat code. They return what the call
returns.

In the last state `asm` is run on `X86` for every choice of `Inputs` and for registers
and memory that hold `Junk`, and compared with `IntExec`.

## 3. Runs

| Run | Shows | Bounds, and why they suffice |
|---|---|---|
| `FrontEnd` | nothing of a text is lost or read twice, what is written reads back, cut texts are refused or end earlier, only names of later functions are refused; the table of variables covers them, single assignment, assignment before use, types agree, the verifier accepts, meaning kept by every step | 247 functions in families, in 259 units through the API: straight code; branches that assign in all the ways two branches can; several IFs and types; branches with variables of their own; loops with one and two states, conditions that compute, local variables; for loops, nested, in front of and behind other assignments; IFs in a loop. 37 units of text with options, types and two functions calling none, themselves, each other, with names that hold blanks and parentheses and are exactly as long as the buffer (`BufferMax` 4 stands for 512), and every prefix of the text of one unit that does not end inside a number. `MaxNumber` 60 and 39 variables are more than any of these needs; runs are watched for `MaxSteps` = 40 structured steps |
| `MakeSsaBranch` | violation, see below | one IF whose ELSE branch is empty |
| `SsaOpt` | types of ops and tables, single assignment, names in scope, meaning kept by every step of every pass | 633 functions in families: straight code with copies, constants and repeated computations; IFs that stay; IFs whose condition is known, with branches that return; IFs in IFs; one-branch IFs; loops with states that are used or not; loops left and continued from a branch; endless loops. 2 iterations of the inner passes (the second finds what the first made; there is one block per IF in between), `MaxCmovCost` 4 separates branches that are cheap enough from others, runs are watched for 20 structured steps |
| `SsaIf` | violation, see below | one IF |
| `LlOpt` | types, jumps resolved, meaning kept, no dead tail | every body of 5 ops over 2 labels, 4 kinds of jump, 2 calls and a changing condition, then RETURN, with the real 4 jump rounds: two labels and five ops hold a jump chain, a loop, an empty jump and dead code at once; and every body of 4 ops over 3 variables, one label and one jump, with copies and CMOVs. Labels are interchangeable and so are the values of calls, so one of each renaming is taken. 1 iteration of inlining before and after CMOV expansion (further ones repeat the same two passes on the same kinds of program) |
| `SlotShare` | types, lifetimes cover, meaning kept, types known, end of the walk | every body of 5 ops over a parameter and 3 locals, of one size, one forward jump; each local assigned before use. Three locals allow a merge, then a merge with the merged. The place that is never written is set or not for each local on its own |
| `SlotShareBranch` | violation, see below | one if/else |
| `FastAlloc` | types, no overlap, inside chunks, refinement of `Heap` | requests of 0, 1 and 2 bytes with chunks of 1, so that a request fits exactly, not at all, or is larger than a chunk (doubled, and then shared by two allocations); 2 allocations, 2 chunks, 2 retired entries, one string |
| `Comparisons` | results kept | every comparison of an argument and two-bit constants, then two NOTs in a chain or side by side |
| `Lower` | types, labels and jumps matched at every step, meaning kept by each rewriting and by the whole | 94 programs in families: two-branch IFs with every kind of result (renamed, read again, read in a nested block, not of the branch, two results), one-branch and empty IFs, WHILE with one and two states, endless loops left and continued from the branches of an IF, loops in loops and in branches, IFs whose ELSE branch only leaves the round. Every combination of two constructs that hand labels, states or results to each other occurs. Runs are watched for `MaxSteps` = 30 structured steps, `MaxOps` bounds the flat program |
| `CodeGen` | types, homes distinct, moves of parameters apart, stack slots owned, operands where instructions can take them, output assembles, meaning kept | 160 functions in families: sums, widths, comparisons, loops, memory, calls, tail calls behind jumps, labels and branches. Two parameters leave all in registers, six and seven spill, so each kind of op meets register, memory and immediate operands. Bytes have 2 bits, words of 4 bytes 3, words of 8 bytes 4: every rule about widths still tells values apart. `Inputs` 0, 1, 2, 7, 8, 15 are the edges of signed and unsigned words, a byte that is 2 is not 0. Two values of `Junk`, so that what depends on either differs from the reference at least once. `RedZone` 24 stands for 128 (three slots, so that functions on both sides of it exist); `RefSteps` 20 ops are watched, `MaxFrame` 64 bytes of stack |
| `CodeGenFlags` | violation, see below | one conditional move |

Programs enter with the shape earlier stages give them: every used label
declared once, a RETURN at the end (`ssair_llir_lower.c:247-262`; the tail calls of
`CodeGen` are the exception).

Fairness: `SlotShare` assumes weak fairness of the whole next-state
relation and nothing about individual actions. The compiler is one thread that
runs straight through its schedule and waits for nothing, so while a step is
possible it takes one. What `Finishes` then says is about the merge of variables: that
it comes to an end although each merge jumps back to look at the same variable again.
The models stutter when the schedule is done (`Terminated`).
`FastAlloc` has no liveness property; it checks for deadlock like the others,
the owner of an allocation can always act. In `FrontEnd`, `SsaOpt`, `LlOpt`, `Lower` and `CodeGen`
every step takes the schedule forward by construction; that they never stop half-way is the absence of a
deadlock, which all runs check.

### Against the compiled code

The inputs of these runs were also given to the compiled C, through small drivers that
are not part of this directory, and what came out was compared with the final states of
the models:

| Run | Compared | Result |
|---|---|---|
| `FrontEnd` | 1026 texts, whole and cut: refused or not, and the unit as `vs2vs` writes it | equal |
| `FrontEnd` | 271 functions made single-assignment: blocks, types, table size, verdict | equal |
| `SsaOpt` | 633 functions, and on which of them the compiler stops | equal |
| `Lower` | 94 functions | equal |
| `LlOpt` | 5522 programs | equal |
| `SlotShare` | 1856 programs, with fresh memory filled with different bytes | always one of the outcomes the model has |
| `CodeGen` | assembly of 160 functions, line by line | equal, but for one frame of between 24 and 128 bytes (`RedZone`) |

The comparison is what brought up the place of a lifetime that is never written
(section 4).

## 4. Disagreements found

Four of them have a run of their own, in which one property is violated.

- **`SsaIf`** (`ir/eval.c:33`). `vx_Irblock_mightbe` is true for a value known to be
  0 and false for one that is not known; `reduce_if.c:31` reads false as "never 0" and
  puts the THEN branch in place of every IF whose condition is not a known 0. `if_eval` is
  set by default (`ir/ir.c:141`), and `tests/max1.c3` is such a program.
- **`MakeSsaBranch`** (`ir/transform/single_assign_conditional.c:42`). `megic` renames
  the variable in the branch that does not assign it as well, and that branch hands out
  the new name, which nothing assigns: `v = y; if (x) v = 1; else {}` loses `y`.
  `frontend_dev_doc.md:89` promises that frontends may assign a variable many times.
- **`SlotShareBranch`** (`ir/lifetimes.c:16`). A variable defined before an if/else
  and read after it has no lifetime in either branch, because the GOTO between them
  ends the search for the next mention; a local of a branch is merged with it and
  overwrites it. In the trace that is the branch in front of the GOTO.
- **`CodeGenFlags`** (`targets/x86/cg.c:419`). The immediate 0 is written as `xor`,
  which sets the flags; the table of ops (`ir/ops.cdef:23`) does not mark IMM with
  `x86_affect_flags`, so a CMOV behind it uses the flags of the comparison before it.
  CMOV expansion puts such an IMM in front of `c ? a : 0`.

One is part of the model and costs no property: `vx_IrBlock_countOps` (`ir/ir.c:32`)
counts one op too many, and the merge of variables reads the last place of each
lifetime, which was never written. Which variables are merged, and with it the code that
comes out, depends on what the memory held; `SlotShare` shows that the code is right
whatever that was. Of the 1856 programs of that run 428 come out in more than one way.

The others are described here and kept out of the programs of the passing runs, where
the property named would fail:

- A loop that reads a state after the next one has been computed
  (`ir/transform/ssair_llir_lower.c:199`; `MeaningPreserved` of `Lower`). The output of
  the loop's block is renamed to the state, so `n = !s; call(s)` becomes `s = !s;
  call(s)`. `ir/ops.cdef:608` says the outputs overwrite the states after the block.
- A comparison with a constant at the edge of its type (`ir/opt/comparisions.c:54`, also
  94 and 101; `ResultsKept`). `a <= MAX` becomes `a < MAX + 1`, which wraps to 0: always
  true becomes never.
- `while (1)` (`ir/opt/swap_if_cases.c:49`; `MeaningPreserved` of `Lower`). Copy inlining
  has put the constant into the IF that leaves the loop, and the number of the inverted
  condition is written over its value, while it stays a constant: the IF now tests a
  number that is not 0, and the loop is left before its first round.
- A leaf on a target with the flag `no-redzone` (`targets/x86/cg.c:1685`; `SlotsOwned`).
  It lowers the stack pointer by what its slots leave of a red zone it does not have, 128 -
  `stackOff`, and not by `stackOff`: 96 bytes of slots get 32. The attempt to
  prove `SlotsOwned` stopped there.
- A COND or CMOV that no comparison could be fused with
  (`targets/x86/llir_conditionals.c:84`; `HomesFit`, `Assembles`). It keeps its variable as the
  parameter COND and gets `ne` as a second parameter of that name; printing finds the
  first and takes the number of the variable for text. In the programs of `CodeGen`
  such a condition is variable 97, which reads as `a`: after a comparison with 0 that
  is the right test.
- A LOAD_EA whose index and element size are both variables (`targets/x86/cg.c:1144`;
  `HomesFit`, `MeaningPreserved`), which `simple_patterns.c:90` makes of a load from
  `p + i * n`. It takes the branch that is meant for EA: the address goes to the output
  and nothing is loaded. `cg.c:1143` says of the other branch that it is always taken. A
  STORE_EA like that has no output, and the compiler reads through a null pointer.

Passing runs are about the programs outside these cases, and outside of others that
have no run:

- `FrontEnd`: every IF has an ELSE branch (`verify_common.c:49` turns others away,
  and `megic` gives an ELSE that it makes itself each output twice) and both branches
  assign the same outer variables; no IF in a branch (`single_assign_conditional.c:85`
  never gets there), none in a loop that assigns a variable from outside (line 49 renames
  it in the block outside); parameters are not assigned in branches and loops, and
  conditions of loops assign only what they use themselves; two loops side by side have
  no local variable in common; no BREAK or CONTINUE, which get no states. As text: no
  IF in a loop (its blocks do not know the op they are in), no
  names longer than the buffer, BITWISE_NOT (written "not", like NOT) or floats
  (written with six decimals), and a CALL of a function without a type, on which an
  assertion of the verifier fails.
- `SsaOpt`: with `if_eval`, only conditions that are known when `reduce_if` comes to
  the block (inner blocks are done before constants of outer ones have been folded);
  no computation in a branch that is repeated behind the IF (`join_compute.c:38` looks
  at the order of ops, not at blocks); with `if_eval`, no code behind an INFINITE loop
  (`ops.cdef:606` marks it as the end of the flow although BREAK leaves it); no endless
  loop without effect and result, which `vx_opt_vars` removes. One-branch IFs that stay
  (`if_opts.c:29`) and candidates of `cmov.c:61` stop the compiler, and are in the run
  as programs on which it does.
- `Lower`: only loops that compute the next states after all reads of
  the old ones, one state where a loop is left by BREAK or CONTINUE, as many outputs
  of the block around them as states, no branch result that is also passed to a CALL
  (the search of `ssair_llir_lower.c:42` looks at parameters only) and no two outputs of
  an IF with one variable; conditions are variables.
- `LlOpt`: no CMOV that reads its own output (`cmov_expand.c:17` turns `x = CMOV c y
  else e` into `x = e; x = CMOV c y`; copy inlining produces such a CMOV from `y = x; x =
  CMOV c y e`), and no PLACE (`inline_vars.c:103` inlines a copy of a variable past a
  STORE through its address, although `frontend_dev_doc.md:92` has this as the way to
  point to a local).
- `SlotShare`: no ELSE branch and no backward jump.
- `Comparisons`: no constant at the edge (`HasNeighbour`).
- `CodeGen`: nothing in a caller-saved register is live across a call (`cg.c` saves
  none); between a comparison and its use no second condition, LABEL or UGT (the last
  is not marked as setting flags) and no IMM 0; no NOT, which is written as the
  bitwise one; a function that lowers the stack pointer does not return (the epilogue
  only pops the frame pointer), and no seventh parameter is read; divisions signed, and
  divisions and shifts with operands outside the registers they use themselves; no
  `imul`, conditional move or extension into memory, no sum of a register and a
  stack slot, and no LOAD_EA or STORE_EA with two unknown factors; immediates that are stored have a type (`cg.c:1070` asserts it); no call in
  front of a label with a GOTO to itself, and functions without RETURN end in a call and
  need no frame.

## 5. Theorems

All are proved for every value of the constants, from the named assumptions
about constants in the modules. Most of the properties are not inductive as they
stand; what the invariant adds is named with each.

- **`LlOptProofs`**: `TypeCorrect`, `JumpsStayResolved`, `NoDeadTailAtEnd` and `MeaningKept`. The
  invariant of the first two is `TypeOK /\ InsertionSlots /\ JumpsResolved`.
  `InsertionSlots` says which odd slots can be in use: without it `ExpandCmov` might
  overwrite a label. `JumpsResolved` is inductive with it: a label goes only when no
  jump names it, an op that goes is otherwise no label, and a jump that is
  redirected takes the label of a GOTO that was resolved. `NoDeadTail` speaks of the
  end only. In between, dead code appears when `dce_labels` takes the label
  between the end of a straight run and what follows, so `FlowInv` says that the list is
  clean in every pass but two: unknown during `dce_labels`, clean up to its cursor during
  `dce_flow`. `Paired(Schedule)`, a lemma about the
  schedule for any number of rounds, closes it: `dce_flow` always follows.
  `MeaningKept` is `MeaningPreserved` for programs that are `SafeToOptimise`: no PLACE,
  and no conditional move that reads, or can be made by copy inlining to read, the
  variable it assigns. These are programs section 4 leaves out, and the run evaluates
  that all of its own are safe. `MeaningInv` says of each input that the run
  of the program that came in and that of the present one are paired by a simulation;
  `SafeInv` keeps the shape of safe programs while ops change. A step that changes
  nothing a run can see is one lemma of `LlirExecProofs` each.
- **`LlirExecProofs`**: facts about runs of flat programs, whatever pass they are used for.
  A run is a function from step numbers to machine states (`PathExists`);
  `OutcomeIs` shows that the interpreter answers with the last state of one, and `NeverStops`
  that `Fuel` steps are enough (`FuelIs`): a run that long which has not stopped has been twice
  at the same op with the same variables, by the pigeonhole principle, and so never
  stops. From that, `SameRunsSameOutcome`: two programs whose runs are related by a
  simulation, in which the one may take steps while the other waits, have the same
  outcome, also where neither stops. Then, for each rewriting a simulation: ops that are
  never reached go (`UnreachedRemoved`), and ops whose effect is not seen (`UnseenRemoved`: labels,
  jumps to what follows, copies to itself, outputs nothing reads), a copy is inlined as far
  as the variable keeps the value (`CopyInlined`), a jump to a jump goes all the way
  (`JumpRetargeted`), a conditional move becomes a branch (`CmovExpanded`).
- **`SlotShareProofs`**: `TypeCorrect`, `LifetimesStayTrue`, `TypesKnownAtEnd` and
  `SharingKeepsMeaning`. The invariant of the first two adds `Unmerged` (nothing is merged before lifetimes are known) and `PlaceShape`
  (a PLACE names a variable). Renaming moves the mentions of one variable to
  another, and uniting the lifetimes covers them: the argument needs that the
  two are different and that a merged variable is never considered again. For types,
  `TypesInv` adds `UsesDeclared`: a use has an op above it that outputs the variable, or is
  of a parameter. Merging, inlining of copies and swapping of operands all keep
  that, so that the last `fix_decl` finds an output of each variable used.
  `SharingKeepsMeaning` is `MeaningPreserved` for programs of any size that are
  `SafeToShare`: jumps lead forward to a label that is declared once, a local is assigned
  on every way to where it is read and mentioned on one side only of a GOTO or RETURN, and nothing
  is placed. Those are the programs of run `SlotShare`; ELSE branches, which section 4
  shows to go wrong, and loops are outside. Whatever the memory of the unwritten places
  of the lifetimes held, the result is right. `ShareInv` says for the time of the merges that
  there are the program `c` that came in and a name `h` for each of its variables such that
  the list is `c` with its variables renamed (`RenamesAll`), and that of two with one name the last
  mention of the one lies above the first assignment of the other (`Separate`). That follows for
  the next merge from the lifetimes, which are united with it (`Covers`,
  `AliveBetween`: a variable is alive from its first to its last mention). Two runs, one of
  `c` and one of the renamed list, then agree on every variable that is still read
  (`Matches`, `Needed`), not on all of them: what a merge overwrites nobody reads any
  more, because in a program without jumps back what lies above is never
  run again. The passes after it are rewritings of `LlirExecProofs`.
- **`FastAllocProofs`**: `TypeCorrect`, `AllocationsSeparate`,
  `AllocationsInside`, `ImplementsHeap`. The invariant adds `RestIsFree`: no
  allocation reaches beyond the point where the next one is cut. Overlap is
  excluded by it for new allocations and for growth in place; `Heap` steps
  follow action by action, with `CopyFacts` for what a copy leaves alone.
- **`ComparisonsProofs`**: `PassKeepsResults`, for every width and every block
  whose constants have a neighbour (the assumption is false exactly on
  the programs that go wrong, see section 4). The inverse, the mirror image and the
  step to a strict order are lemmas about `Compares`; `ReplaceKeepsIInv` turns
  them into facts about the block.
- **`LowerProofs`**: `Types` and `LabelsStayMatched`, for programs of any size and any
  nesting. `LowerInv`, which the run `Lower` was also given as an invariant, has these
  parts: the tables are in range and name ops that are there (`Tables`); the program stays
  what the verifier accepts while WHILEs and IFs are rewritten (`Structured`: outputs,
  states and arguments in equal numbers, each block nested in one op); a label that is
  written or jumped to is older than the next one to be made (`LabelsNew`);
  the break label of an open loop is declared nowhere yet and belongs to that loop alone
  (`BreaksOpen`); a jump has a label that is declared or the break label of an open loop,
  or is the one an open branch waits to close (`JumpsLead`); each frame stands at a block
  that is nested in the op the frame below stands at, and knows the labels of the loop
  around (`Frames`). The last part is an existential: there is a set of blocks, "inside
  of loops", that holds every BREAK and CONTINUE and no root (`LeavesWithin`), and frames in it
  have labels (`LoopsKnown`). Each rewriting names the new set. It is
  needed because only so `LeaveRound` never takes a label that is None.
- **`SsaOptProofs`**: `Types` and `DeclaredOnceAlways`, for programs of any size and any
  nesting. `SingleAssignment` is lost when an op is linked in twice, or a name is given to
  two. The first needs that blocks and ops form a tree, while passes take branches out of
  IFs and put them in their place: a block is nested in one op that exists (`NestedApart`),
  an op that can be reached is in one list that can be reached (`ListsApart`), nested
  blocks have higher numbers (`ListRight`), and what is visited after a block is not
  nested in it (`Pending`), so that no pass is at a block that was spliced away. The
  second needs for `Join` that the copy declares what the op in whose place it comes
  declared, which has one output (`OpRight`), and for `Spliced` that the IF alone declares
  its outputs: renaming them changes no other declaration, and the IF goes in the same
  step. What a tour collects is defined
  by recursion over nested blocks: `RecursionExists` shows that such a definition has its
  solution where blocks only nest downwards, by well-founded induction with the property
  given as a set; `FlatMembers` and `FlatInOrder` say what a sequence of sequences holds
  in which order. `StepKeeps` then says once for all steps what they must
  respect, and each pass is an instance. TLC was given `OptInv` on run `SsaOpt`
  before it was proved.
- **`CodeGenProofs`**, with what it needs of `RegAlloc`: `Types`, `HomesStayApart`,
  `MovesInOrder`, `SlotsOwnedButOne`, `SlotsAreOwned` and `AssemblesWhatFits`, for every
  function and every choice of what is used most. `AllocInv` says for each phase which registers can be homes
  by then: a register in `avail` is nobody's home and occurs there once (`PoolFree`), argument
  registers are homes only of the parameter that came in them or lie beyond the
  last that parameters and calls use, a parameter that waits in `toMove` has a home in a register
  of the pool, in RAX or in none (`OnTheWay`), and stack slots lie below `stackOff` and end where the
  next begins. `CodeGen` adds what comes before and after; its steps change homes no more.
  `SlotsOwned` itself is false for a leaf on a target without red zone (section
  4), so that the theorem makes an exception of it, and the second one has the target
  flag off, as in the runs. `Assembles` holds where `OperandsFit` does: operands have a
  place, are wide enough where nothing extends them, an address has at most one part in
  memory, one unknown factor and a scale the processor has, a product or a conditional move goes to a
  register, a condition code is one. Functions without this exist and run into
  assertions of `cg.c` (section 4), so it is a hypothesis; the run `CodeGen` checks
  as `HomesFit` that allocation leaves all its functions so. The proof goes from
  single instructions (`TwoEncodable`, `LeaEncodable`) over the ways to write a move, an
  operation and an address, each with the scratch registers it may take, to
  one step for each kind of op, and `WritingInv` carries it along the function:
  what is written so far was written from homes that no longer change.

What the assumptions about programs say, and who sees to it:

- `Lower`: the counts of outputs, states and first values are those the verifier compares
  (`ir/verify_common.c:27-109`), and the nesting that `parent` records
  (`verify_common.c:197`); BREAK and CONTINUE stand in a loop (`loopOP` is asserted in
  `ssair_llir_lower.c`), not directly in the condition of a WHILE, and have a
  value for each output of their block. That conditions and bodies of loops take as many
  inputs as there are states is not verified; `MakeSsa` makes them so. The
  root returns something and there is at least one variable: a function with none gives
  `into` nothing to move and has no table to overwrite.
- `SsaOpt`: each branch of an IF has as many outputs as the IF
  (`ir/verify_common.c:27-70`), a variable is declared once (`ir/verify_ssa.c:12-29`), a
  block is nested in one op (`verify_common.c:197`). That a block has a higher number than
  the one around it is how programs are written down here, not a demand on them.
- `SlotShare`: what is not a parameter is assigned above its first use (`AssignedAbove`),
  as lowering writes blocks in the order of the text. Dead-code removal may break it
  in one layout: a loop behind a RETURN, kept because its own jump names its
  label, with a variable assigned in the dead code above the label. That code is never
  run, but its variable has no type any more. `SafeToShare` is a hypothesis of
  `SharingKeepsMeaning` alone.
- `RegAlloc`: parameters are different variables; a call has no more arguments than
  there are registers for them (`cg.c:725` asserts it); a RETURN returns as many values as the function has.
- `LlOpt`: labels are declared once, jumps name declared ones: what `LabelsStayMatched`
  says of the end of lowering; ops have the operands of their kind (`OpShape`).

Model-checked only: `MeaningPreserved` of all modules but `LlOpt` and `SlotShare`;
`HomesFit` of `CodeGen`, which is about the functions of the run; `ScopesRespected` of
`SsaOpt`, which does not hold for every program (a repeated computation may be joined
with one in a branch, section 4); and the properties of `FrontEnd`.
`MeaningPreserved` of the structured form speaks of an interpreter that is a recursive function
over nested blocks, with a bound on its steps that is no bound of the program: two
programs that mean the same may be cut at different points. The library's
induction theorems take an operator, which the provers at hand cannot instantiate; where
an induction was needed (runs, nested blocks) it is done over a set, as in `CountingUp`.
`FrontEnd` reads text with RECURSIVE operators, which costs the prover its arithmetic
backend in every module above.
`Finishes` is liveness under fairness, outside the proof system's reach, as is
anything about ENABLED.

## 6. Left out, and the plan

Not modelled: the text of dumps and assembly, the command line and its vendored
argument parser, the Rust bindings and build scripts, target option tables
(input/output without state that later steps depend on). In the arena,
`fastfreeall` (no caller) and a failing `realloc` of the chunk list. In `Reader`, floats,
labels, symbol references, condition codes and types as values, function types (writing
one ends the program) and how a number is spelled. In the verifier, labels, and
`vx_CIrBlock_verify` (no caller). In `SsaOpt`,
`simple_patterns` (addresses and bit masks) and arithmetic of a width. In `Lower`, types,
and CMOV, which is copied like any other op; `rets_to_args.c` is in no build list. In
`SlotShare`, register classes (only sizes are compared, as in the code) and the heat that
binary ops add, which none of the modelled ops has. In `CodeGen`, floats and vector
registers, BITTEST and BITEXTRACT, volatile LOAD and STORE, calls through variables or
symbols, and text.

Next, in this order:

1. The composition `MakeSsa`, `SsaOpt`, `Lower`, `LlOpt` on one function, with the rest of
   `vx_opt_preLower` (`opt_pre`, joins) in its place between them, so that what a stage
   leaves is what the next one gets. The property is the same outcome over all stages.
2. `simple_patterns` and `constant_eval` on words, with the widths of `IntExec`.
3. The driver over several functions up to the output, with output sections.

Runs of one component on more programs are merged into its existing run, so that
every run goes on asking one question.
