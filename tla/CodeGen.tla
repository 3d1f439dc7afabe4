------------------------------ MODULE CodeGen ------------------------------
(***************************************************************************)
(* The x86 back end on one function: vx_llir_x86, then                     *)
(* vx_cg_x86stupid_gen.                                                    *)
(*                                                                         *)
(* Comparisons become instructions that set the flags, and the branches    *)
(* and conditional moves that depend on them use the flags while these are *)
(* still the right ones ("fuse"); the others test the variable ("tests").  *)
(* Ops whose result is not used go ("unused").  Then RegAlloc finds homes, *)
(* calls at the end of a function without a frame become tail calls, and   *)
(* the prologue, the moves of parameters and the ops are written.          *)
(*                                                                         *)
(* What is written is run on the processor of X86, and compared with what  *)
(* the function meant when it came in.                                     *)
(***************************************************************************)
EXTENDS RegAlloc, Emit

CONSTANTS
  Inputs,     (* the values of parameters that are tried                    *)
  Junk,       (* what registers and memory may hold that nobody set         *)
  RefSteps    (* bound: the ops of a run that is watched                    *)

ASSUME CodeGenAssumption == Inputs \cup Junk \subseteq Word /\ RefSteps \in Nat

VARIABLE asm  (* the instructions written so far                            *)

vars == <<allocVars, asm>>

-----------------------------------------------------------------------------
(* Comparisons. *)

ConditionCode(id) ==
  CASE id = "UGT" -> "a" [] id = "UGTE" -> "ae" [] id = "ULT" -> "b" [] id = "ULTE" -> "be"
    [] id = "SGT" -> "g" [] id = "SGTE" -> "ge" [] id = "SLT" -> "l" [] id = "SLTE" -> "le"
    [] id = "EQ"  -> "e" [] id = "NEQ"  -> "ne"

(* The ops that the table of ops marks with x86_affect_flags. *)
AffectsFlags(op) ==
  op.id \in Extensions \cup Arithmetics \cup (Compares \ {"UGT"}) \cup {"CALL", "X86_CMP"}

Conditional == {"CMOV", "COND"}

(* The op with the flags in place of its condition. *)
OnFlags(op, cc) ==
  MakeOp(IF op.id = "CMOV" THEN "X86_CMOV" ELSE "X86_JMPCC", op.out, Tail(op.args), op.label, cc)

(* Faulty variant: whatever happens to the flags in between. *)
FusedAnywhere(k) ==
  {j \in DOMAIN ops : j > k /\ ops[j].id \in Conditional /\ ops[j].args[1].n = ops[k].out}

(* The ops on the result of comparison k before the flags change. *)
Fused(k) ==
  {j \in DOMAIN ops :
     /\ j > k /\ ops[j].id \in Conditional /\ ops[j].args[1].n = ops[k].out
     /\ \A i \in k + 1 .. j - 1 : ~AffectsFlags(ops[i])}

NextOf(ids) == {k \in DOMAIN ops : k > cur /\ ops[k].id \in ids}

Fuse ==
  /\ phase = "fuse" /\ NextOf(Compares) # {}
  /\ LET k  == Min(NextOf(Compares))
         cc == ConditionCode(ops[k].id)
         on == [j \in DOMAIN ops |->
                  CASE j = k -> [ops[k] EXCEPT !.id = "X86_CMP", !.out = None]
                    [] j # k -> IF j \in Fused(k) THEN OnFlags(ops[j], cc) ELSE ops[j]]
     IN  /\ ops' = InsertAt(on, k + 1, MakeOp("X86_SETCC", ops[k].out, <<>>, None, cc))
         /\ cur' = k + 1
  /\ UNCHANGED <<fn, noRedZone, phase, allocation, asm>>

(* The condition code "ne" is added behind the variable or constant that   *)
(* has the same name and is found first; what is read as a condition code  *)
(* is then the number of that variable, or the constant, as text.          *)
TextOf(n) ==
  CASE n = 97 -> "a" [] n \in {98, 99} -> "b" [] n \in {101, 122} -> "e"
    [] n = 103 -> "g" [] n = 108 -> "l" [] OTHER -> ""

TestVariable ==
  /\ phase = "tests" /\ NextOf(Conditional) # {}
  /\ LET k == Min(NextOf(Conditional))
     IN  /\ ops' = InsertAt([ops EXCEPT ![k] = OnFlags(@, TextOf(@.args[1].n))], k,
                            MakeOp("X86_CMP", None, <<ops[k].args[1], I(0)>>, None, ""))
         /\ cur' = k + 1
  /\ UNCHANGED <<fn, noRedZone, phase, allocation, asm>>

Unused(k) ==
  /\ k > cur /\ ~HasSideEffect(ops[k])
  /\ \/ \A j \in DOMAIN ops : ~Uses(ops[j], ops[k].out)
     \/ ops[k].id = "IMM" /\ ops[k].args[1] = V(ops[k].out)

UnusedOps == {k \in DOMAIN ops : Unused(k)}

RemoveUnused ==
  /\ phase = "unused" /\ UnusedOps # {}
  /\ ops' = RemoveAt(ops, Min(UnusedOps))
  /\ cur' = Min(UnusedOps) - 1
  /\ UNCHANGED <<fn, noRedZone, phase, allocation, asm>>

NextPhase ==
  /\ \/ phase = "fuse" /\ NextOf(Compares) = {} /\ phase' = "tests"
     \/ phase = "tests" /\ NextOf(Conditional) = {} /\ phase' = "unused"
     \/ phase = "unused" /\ UnusedOps = {} /\ phase' = "setup"
  /\ cur' = 0
  /\ UNCHANGED <<given, allocation, asm>>

-----------------------------------------------------------------------------
(* Tail calls: vx_IrBlock_ll_finalize. *)

(* What vx_IrOp_nextWithEffect finds: the ops behind k but for those that  *)
(* are marked as doing nothing.                                            *)
WithEffectBehind(k) == {j \in DOMAIN ops : j > k /\ ops[j].id \notin {"LABEL", "PLACE"}}

(* Where the search of vx_IrOp_isTail for the end of the function stands   *)
(* after n GOTOs; 0 when it has given up.                                  *)
SearchFrom(k, n) ==
  LET at[i \in 0 .. n] ==
        IF i = 0 THEN k
        ELSE LET behind == IF at[i - 1] = 0 THEN {} ELSE WithEffectBehind(at[i - 1])
             IN  IF behind # {} /\ ops[Min(behind)].id = "GOTO"
                 THEN LabelPlace(ops, ops[Min(behind)].label) ELSE 0
  IN  at[n]

IsTail(k) ==
  \E n \in DOMAIN ops :
    /\ SearchFrom(k, n - 1) # 0
    /\ WithEffectBehind(SearchFrom(k, n - 1)) = {}

(* From a label with a GOTO to itself the search goes on for ever. *)
SearchEnds(k) == SearchFrom(k, Len(ops)) = 0

TailCalls == IF NeedEpilog THEN {} ELSE {k \in Calls : IsTail(k)}

-----------------------------------------------------------------------------
(* Writing the function. *)

Prologue ==
  /\ phase = "prologue"
  /\ NeedEpilog \/ \A k \in Calls : SearchEnds(k)
  /\ ops' = [k \in DOMAIN ops |->
              IF k \in TailCalls THEN [ops[k] EXCEPT !.id = "TAILCALL"] ELSE ops[k]]
  /\ asm' = (IF NeedEpilog THEN Enter ELSE <<>>)
            \o (IF NeedProlog THEN <<Instr("reserve", NoLoc, Imm(8, Reserved))>> ELSE <<>>)
  /\ phase' = "moves"
  /\ UNCHANGED <<fn, noRedZone, cur, allocation>>

MoveParams ==
  /\ phase = "moves"
  /\ asm' = asm \o FlattenSeq([n \in DOMAIN toMove |->
              Move(scratch, toMove[n].argLoc, location[toMove[n].var], FALSE)])
  /\ phase' = "emit"
  /\ UNCHANGED <<given, cur, allocation>>

(* Where an operand is; immediates get width w. *)
Loc(w, x) ==
  CASE x.kind = "VAR"    -> location[x.n]
    [] x.kind = "IMM"    -> Imm(w, x.n)
    [] x.kind = "UNINIT" -> Invalid
    [] x.kind = "NONE"   -> NoLoc

Label(l) == [type |-> "LABEL", label |-> l]

Binaries ==
  [MUL |-> "imul", AND |-> "and", BITWISE_AND |-> "and", OR |-> "or", BITWISE_OR |-> "or"]

ShiftOps == [SHL |-> "shl", SHR |-> "shr", ASHR |-> "sar"]

EmitCall(op) ==
  LET args == [n \in DOMAIN op.args |-> Loc(SizeOf(op.args[n]), op.args[n])]
  IN  IF Len(args) > Len(ArgRegs) THEN Assertion
      ELSE IF op.id = "TAILCALL" THEN TailCall(scratch, args)
      ELSE Call(scratch, args, IF op.out = None THEN NoLoc ELSE location[op.out])

(* What is written for an op. *)
Emitted(op) ==
  LET free == scratch
      o    == location[op.out]
      x(n, w) == Loc(w, op.args[n])
      a == x(1, o.width)
      b == x(2, o.width)
      w == IF op.id = "EA" THEN o.width ELSE 8
      own(n) == x(n, SizeOf(op.args[n]))
  IN  CASE op.id = "RETURN"   -> Return(free, [n \in DOMAIN op.args |-> location[op.args[n].n]],
                                     NeedEpilog)
        [] op.id \in {"IMM", "BITCAST", "ZEROEXT"} -> Move(free, a, o, FALSE)
        [] op.id = "SIGNEXT"  -> Move(free, a, o, TRUE)
        [] op.id = "LOAD"     -> Load(free, x(1, 8), o)
        [] op.id = "STORE"    -> Store(free, x(1, 8), own(2))
        [] op.id = "PLACE"    -> Move(free, location[op.args[1].n].address, o, FALSE)
        [] op.id = "EA"       -> EaInto(free, x(1, w), x(2, w), x(3, w), o)
        [] op.id = "LOAD_EA"  -> LoadEa(free, x(1, w), x(2, w), x(3, w), o)
        [] op.id = "STORE_EA" -> StoreEa(free, x(1, w), x(2, w), x(3, w), own(4))
        [] op.id \in {"UDIV", "SDIV", "UMOD", "SMOD"} ->
             ModDiv(free, o, a, b, op.id \in {"SDIV", "SMOD"}, op.id \in {"UMOD", "SMOD"})
        [] op.id \in {"ADD", "SUB"} -> AddSub(free, a, b, o, op.id)
        [] op.id \in DOMAIN ShiftOps -> Shift(free, a, b, ShiftOps[op.id])
        [] op.id \in DOMAIN Binaries -> Binary(free, a, b, o, Binaries[op.id])
        [] op.id \in {"NOT", "BITWISE_NOT"} -> Unary(free, a, o, "not")
        [] op.id = "X86_CMP"   -> Cmp(free, x(1, 8), x(2, 8))
        [] op.id = "X86_SETCC" -> StoreCond(free, o, op.cc)
        [] op.id = "X86_CMOV"  -> CondMove(a, o, op.cc)
        [] op.id = "X86_JMPCC" -> <<CondInstr("j", op.cc, Label(op.label), NoLoc)>>
        [] op.id = "GOTO"      -> <<CondInstr("j", "mp", Label(op.label), NoLoc)>>
        [] op.id = "LABEL"     -> <<Instr("label", Label(op.label), NoLoc)>>
        [] op.id \in {"CALL", "TAILCALL"} -> EmitCall(op)

EmitOp ==
  /\ phase = "emit" /\ cur < Len(ops)
  /\ asm' = asm \o Emitted(ops[cur + 1])
  /\ cur' = cur + 1
  /\ UNCHANGED <<given, phase, allocation>>

EmitEnds ==
  /\ phase = "emit" /\ cur = Len(ops)
  /\ phase' = "done"
  /\ UNCHANGED <<given, cur, allocation, asm>>

-----------------------------------------------------------------------------
Init == AllocInit /\ phase = "fuse" /\ asm = <<>>

Done == phase = "done" /\ UNCHANGED vars

Next ==
  \/ Fuse \/ TestVariable \/ RemoveUnused \/ NextPhase
  \/ (AllocStep /\ UNCHANGED asm)
  \/ Prologue \/ MoveParams \/ EmitOp \/ EmitEnds
  \/ Done

Spec == Init /\ [][Next]_vars

-----------------------------------------------------------------------------
(* Homes are operands of the right width, and the pool, the lines and the  *)
(* lists of the allocator hold what they are lists of.                     *)
TypeOK ==
  /\ phase \in {"fuse", "tests", "unused", "setup", "registers", "parameters", "stack",
                "prologue", "moves", "emit", "done"}
  /\ \A v \in Var : \/ location[v] = NoLoc
                    \/ /\ location[v].type \in {"REG", "MEM"} /\ LocEncodable(location[v])
                       /\ location[v].width = TypeSize[v]
  /\ \A k \in DOMAIN ops : ops[k].out \in Var \cup {None}
  /\ ToSet(hot) \subseteq Var /\ ToSet(avail) \subseteq Regs
  /\ \A n \in DOMAIN toMove : toMove[n].var \in ToSet(Ins)
  /\ stackOff \in Nat /\ anyPlaced \in BOOLEAN

(* The operands that instruction selection can take, by where they are and *)
(* how wide they are; the widths of Emitted are those of the operands here. *)
InPlace(l) == l.type \in {"REG", "MEM"}

Given(l) == l.type \in {"REG", "MEM", "IMM"}

(* A register is extended by the move into it, memory only from 4 bytes.   *)
Reaches(src, dst, signExt) ==
  /\ Given(src) /\ InPlace(dst)
  /\ \/ src.width >= dst.width
     \/ dst.type = "REG" /\ src.type # "IMM"
     \/ src.width = 4 /\ dst.width = 8 /\ ~signExt

(* Operands are not extended, and there is no product in memory. *)
Computes(x, y, o, op) ==
  /\ Given(x) /\ Given(y) /\ InPlace(o)
  /\ x.width >= o.width /\ y.width >= o.width
  /\ op = "imul" => o.type = "REG"

Scale(l) == l.type = "IMM" /\ l.bits \in {1, 2, 4, 8}

(* At most one part is in memory, and the address is one of the processor. *)
Addresses(base, idx, elsize) ==
  /\ Given(base) /\ (idx = NoLoc \/ Given(idx)) /\ (elsize = NoLoc \/ Given(elsize))
  /\ \A m, n \in InMemory(<<base, idx, elsize>>) : m = n
  /\ InPlace(idx) => elsize = NoLoc \/ Scale(elsize)
  /\ InPlace(elsize) => Scale(idx)

(* The same, or a sum, or a sum with a product that takes instructions of  *)
(* its own.                                                                *)
Adds(base, idx, elsize, o) ==
  \/ Addresses(base, idx, elsize)
  \/ elsize = NoLoc /\ Computes(base, idx, o, "add")
  \/ /\ Given(base) /\ base.width >= o.width
     /\ Computes(idx, elsize, Reg(o.width, "RAX"), "imul")
     /\ ~(idx.type = "MEM" /\ elsize.type = "MEM")
     /\ \/ InPlace(idx) /\ InPlace(elsize)
        \/ base.type = "MEM" /\ "MEM" \in {idx.type, elsize.type}

Parameters(op) ==
  CASE op.id \in {"IMM", "BITCAST", "ZEROEXT", "SIGNEXT", "LOAD", "PLACE", "NOT", "BITWISE_NOT",
                  "X86_CMOV"} -> 1
    [] op.id \in {"LABEL", "GOTO", "RETURN", "CALL", "TAILCALL", "X86_SETCC", "X86_JMPCC"} -> 0
    [] op.id \in {"EA", "LOAD_EA"} -> 3
    [] op.id = "STORE_EA" -> 4
    [] OTHER -> 2

Fits(op) ==
  LET o == location[op.out]
      x(n, w) == Loc(w, op.args[n])
      a == x(1, o.width)
      b == x(2, o.width)
      w == IF op.id = "EA" THEN o.width ELSE 8
      own(n) == x(n, SizeOf(op.args[n]))
      writes == op.out # None /\ InPlace(o)
      passed(n) == own(n) = Invalid \/ Given(own(n))
      computes(i) == Computes(a, b, o, i)
  IN  /\ Len(op.args) >= Parameters(op)
      /\ CASE op.id = "RETURN" ->
                \A n \in DOMAIN op.args :
                  op.args[n].kind = "VAR" /\ InPlace(location[op.args[n].n])
           [] op.id \in {"IMM", "BITCAST", "ZEROEXT", "SIGNEXT"} ->
                writes /\ (a = Invalid \/ Reaches(a, o, op.id = "SIGNEXT"))
           [] op.id = "LOAD" -> writes /\ Given(x(1, 8))
           [] op.id = "STORE" -> Given(x(1, 8)) /\ passed(2)
           [] op.id = "PLACE" ->
                /\ writes /\ o.width # 1 /\ op.args[1].kind = "VAR"
                /\ location[op.args[1].n].type = "MEM"
           [] op.id = "EA" ->
                writes /\ o.width # 1 /\ Adds(x(1, w), x(2, w), x(3, w), o)
           [] op.id = "LOAD_EA" -> writes /\ Addresses(x(1, w), x(2, w), x(3, w))
           [] op.id = "STORE_EA" -> Addresses(x(1, w), x(2, w), x(3, w)) /\ passed(4)
           [] op.id \in {"UDIV", "SDIV", "UMOD", "SMOD"} ->
                /\ writes /\ Given(a) /\ InPlace(b)
                /\ op.id \in {"SDIV", "SMOD"} => a.width \in {4, 8}
           [] op.id \in {"ADD", "SUB"} ->
                /\ writes /\ Given(a)
                /\ IF ~Equal(o, a) /\ a.type = "REG" /\ (op.id = "ADD" \/ b.type # "REG")
                   THEN b.type \in {"REG", "IMM"} /\ o.width # 1
                   ELSE computes("add")
           [] op.id \in DOMAIN ShiftOps -> writes /\ InPlace(a) /\ Given(b)
           [] op.id \in DOMAIN Binaries -> writes /\ computes(Binaries[op.id])
           [] op.id \in {"NOT", "BITWISE_NOT"} ->
                writes /\ Given(a) /\ a.width >= o.width
           [] op.id = "X86_CMP" -> Given(x(1, 8)) /\ Given(x(2, 8))
           [] op.id = "X86_SETCC" ->
                writes /\ (o.width = 1 \/ o.type = "REG") /\ op.cc # ""
           [] op.id = "X86_CMOV" ->
                writes /\ o.type = "REG" /\ InPlace(a) /\ a.width = o.width /\ op.cc # ""
           [] op.id = "X86_JMPCC" -> op.cc # ""
           [] op.id \in {"CALL", "TAILCALL"} ->
                /\ \A n \in DOMAIN op.args : passed(n)
                /\ op.out # None => InPlace(o)
           [] OTHER -> op.id \in {"GOTO", "LABEL"}

(* All that is to be written has such operands; the parameters that move   *)
(* have a home.                                                            *)
OperandsFit ==
  /\ \A k \in DOMAIN ops : Fits(ops[k])
  /\ \A n \in DOMAIN toMove : InPlace(location[toMove[n].var])

(* Allocation leaves every operand where instruction selection can take it *)
(* (the assertions of the emit functions in cg.c): what is placed is in    *)
(* memory, what an instruction writes has a home, and no instruction needs *)
(* more than two scratch registers.                                        *)
HomesFit == Allocated => OperandsFit

(* The assembler takes all that is written for ops whose operands the      *)
(* passes before may leave in these places: sizes agree, at most one       *)
(* operand is in memory, and no assertion stops the code generator.        *)
Assembles == \A k \in DOMAIN asm : Encodable(asm[k])

-----------------------------------------------------------------------------
(* What the function computes.  A parameter of one byte is a boolean.      *)

Values(w) == IF w = 1 THEN {0, 1} ELSE {Wrap(n, w) : n \in Inputs}

(* A parameter that no op reads does not matter. *)
ParamValues ==
  LET choices(v) == IF \E k \in DOMAIN fn.ops : Uses(fn.ops[k], v) THEN Values(TypeSize[v])
                    ELSE {0}
  IN  {p \in [DOMAIN Ins -> Inputs \cup {0, 1}] : \A i \in DOMAIN Ins : p[i] \in choices(Ins[i])}

(* The stack address of each placed variable; RBP is 8 below the return    *)
(* address.                                                                *)
AddressOfVar == [v \in Var |-> IF location[v].type = "MEM"
                               THEN -8 - location[v].address.off.bits ELSE 1]

FirstHeap == [a \in Word |-> (3 * a + 1) % 16]

Reference(params, junk) ==
  RefRun(fn.ops, AddressOfVar,
         [at |-> 1, heap |-> FirstHeap, calls |-> <<>>, ret |-> <<>>,
          ended |-> FALSE, undefined |-> FALSE,
          env |-> [v \in Var |-> IF v \in ToSet(Ins)
                                 THEN params[CHOOSE i \in DOMAIN Ins : Ins[i] = v]
                                 ELSE Wrap(junk, TypeSize[v])]],
         RefSteps)

(* Registers hold the arguments, with anything in the bytes that are not   *)
(* part of one.                                                            *)
MachineStart(params, junk) ==
  LET passed == {i \in DOMAIN Ins : i <= Len(ArgRegs)}
  IN  [at |-> 1, heap |-> FirstHeap, calls |-> <<>>, ended |-> FALSE, fault |-> FALSE,
       stack |-> [a \in -MaxFrame .. 0 |-> junk], flags |-> Compare(junk, 0, 8),
       regs |-> [r \in Regs |->
                   IF r \in {"RBP", "RSP"} THEN 0
                   ELSE IF \E i \in passed : ArgRegs[i] = r
                   THEN LET i == CHOOSE i \in passed : ArgRegs[i] = r
                        IN  Merge(junk, params[i], TypeSize[Ins[i]])
                   ELSE junk]]

(* The machine some instructions later. *)
Advanced(m, n, junk) ==
  LET run[k \in 0 .. n] ==
        IF k = 0 THEN m
        ELSE LET l == run[k - 1] IN IF l.ended THEN l ELSE Execute(asm, l, junk)
  IN  run[n]

(* An op becomes a few instructions at most. *)
Machine(params, junk) ==
  LET run[k \in 0 .. RefSteps] ==
        IF k = 0 THEN MachineStart(params, junk)
        ELSE LET m == run[k - 1] IN IF m.ended THEN m ELSE Advanced(m, 6, junk)
  IN  run[RefSteps]

Prefix(s, t) == IsPrefix(s, t) \/ IsPrefix(t, s)

(* The same is observed: calls with the same arguments, the same memory    *)
(* and results if the function returns, and no end otherwise.              *)
SameObserved(ref, m) ==
  LET sizes == [n \in DOMAIN ref.ret |->
                  SizeOf(fn.ops[Max({k \in DOMAIN fn.ops : fn.ops[k].id = "RETURN"})].args[n])]
      result == <<m.regs["RAX"], m.regs["RDX"]>>
  IN  IF ref.ended
      THEN /\ m.ended /\ m.calls = ref.calls /\ m.heap = ref.heap
           /\ \A n \in DOMAIN ref.ret : Cut(result[n], sizes[n]) = ref.ret[n]
      ELSE ~m.ended /\ Prefix(m.calls, ref.calls)

(* The processor, running what was written, is observed to do what the     *)
(* function means, whatever the arguments and whatever registers and       *)
(* memory hold that the caller did not set, wherever that meaning is       *)
(* defined.                                                                *)
MeaningPreserved ==
  phase = "done" =>
    \A params \in ParamValues, junk \in Junk :
      LET ref == Reference(params, junk) m == Machine(params, junk)
      IN  ref.undefined \/ (~m.fault /\ SameObserved(ref, m))

=============================================================================
