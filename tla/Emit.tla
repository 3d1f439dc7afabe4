-------------------------------- MODULE Emit --------------------------------
(***************************************************************************)
(* Instruction selection of the x86 back end: the instructions written for *)
(* each kind of op, given where its operands are.                          *)
(*                                                                         *)
(* Operands that an instruction cannot take are brought to a scratch       *)
(* register first.  There are two; "free" is the sequence of those not in  *)
(* use, and the code that runs out of them, like every other assertion of  *)
(* the source, is the pseudo-instruction "assert".  Scratch registers are  *)
(* released in the reverse order, which here is the end of an operand's    *)
(* scope: WithScratch(free, w, Body) is Body with a register of its own.   *)
(*                                                                         *)
(* The Location objects of the source are compared by address in places    *)
(* (a # o); every variable has one object, and copies differ in width.     *)
(***************************************************************************)
EXTENDS X86, SequencesExt

Assertion == <<Bare("assert")>>

(* The undefined operand: nothing needs to be set. *)
Invalid == [type |-> "INVALID", width |-> 0]

WithScratch(free, w, Body(_, _)) ==
  IF free = <<>> THEN Assertion ELSE Body(Reg(w, Head(free)), Tail(free))

(* Two operands name the same place, whatever their widths. *)
Equal(a, b) ==
  /\ a.type = b.type
  /\ \/ a.type = "REG" /\ a.reg = b.reg
     \/ a.type = "IMM" /\ a.bits = b.bits
     \/ a.type = "MEM" /\ a.address = b.address

-----------------------------------------------------------------------------
(* Moves. *)

Zero(dst) ==
  IF dst.type = "REG"
  THEN LET r == [dst EXCEPT !.width = IF @ = 8 THEN 4 ELSE @]
       IN  <<Instr("xor", r, r)>>
  ELSE <<Instr("mov", dst, Imm(dst.width, 0))>>

(* From register or immediate to anything, or from memory to a register. *)
SimpleMove(src0, dst, signExt) ==
  LET src == [src0 EXCEPT !.width = IF @ > dst.width THEN dst.width ELSE @]
  IN  CASE src.width = dst.width -> <<Instr("mov", dst, src)>>
        [] src.width # dst.width /\ signExt -> <<Instr("movsx", dst, src)>>
        [] src.width = 4 /\ dst.width = 8 /\ ~signExt ->
             <<Instr("mov", [dst EXCEPT !.width = 4], src)>>
        [] OTHER -> <<Instr("movzx", dst, src)>>

Lea(free, src, dst) ==
  IF dst.type = "MEM"
  THEN WithScratch(free, dst.width, LAMBDA s, rest :
         <<Instr("lea", s, src)>> \o SimpleMove(s, dst, FALSE))
  ELSE <<Instr("lea", dst, src)>>

(* Faulty variant: memory is moved to memory at once. *)
MoveDirect(free, src, dst, signExt) ==
  CASE src.type = "INVALID" -> <<>>
    [] src.type = "IMM" /\ src.bits = 0 -> Zero(dst)
    [] src.type = "EA" -> Lea(free, src, dst)
    [] OTHER -> IF Equal(src, dst) THEN <<>> ELSE SimpleMove(src, dst, signExt)

Move(free, src, dst, signExt) ==
  CASE src.type = "INVALID" -> <<>>
    [] src.type = "IMM" /\ src.bits = 0 -> Zero(dst)
    [] src.type # "INVALID" /\ Equal(src, dst) -> <<>>
    [] src.type = "EA" -> Lea(free, src, dst)
    [] src.type = "MEM" /\ dst.type = "MEM" /\ ~Equal(src, dst) ->
         WithScratch(free, src.width, LAMBDA s, rest :
           SimpleMove(src, s, signExt) \o SimpleMove(s, dst, signExt))
    [] OTHER -> SimpleMove(src, dst, signExt)

(* Body with l, or with a register that l was loaded into. *)
AsPrimitive(free, l, Body(_, _)) ==
  IF l.type = "MEM"
  THEN WithScratch(free, l.width, LAMBDA s, rest :
         SimpleMove(l, s, FALSE) \o Body(s, rest))
  ELSE Body(l, free)

(* Body with l at the given width.  A register that is too short is not    *)
(* loaded into the scratch register: the move goes the other way.          *)
AsSize(free, w, l, Body(_, _)) ==
  CASE l.width = w -> Body(l, free)
    [] l.width # w /\ (l.type \in {"MEM", "IMM"} \/ l.width > w) ->
         Body([l EXCEPT !.width = w], free)
    [] OTHER -> WithScratch(free, w, LAMBDA s, rest :
                  SimpleMove(s, l, FALSE) \o Body(s, rest))

-----------------------------------------------------------------------------
(* Arithmetic. *)

(* Faulty variant: the destination is overwritten while it is an operand. *)
BinaryIntoOver(free, a, b, o, op) ==
  (IF a = o THEN <<>> ELSE Move(free, a, o, FALSE)) \o
  (IF o.type = "MEM"
   THEN AsPrimitive(free, b, LAMBDA y, rest : <<Instr(op, o, y)>>)
   ELSE <<Instr(op, o, b)>>)

(* o = a op b, when the widths agree and not both a and b are in memory. *)
BinaryInto(free, a, b, o, op) ==
  LET onto(x) == IF o.type = "MEM"
                 THEN AsPrimitive(free, x, LAMBDA y, rest : <<Instr(op, o, y)>>)
                 ELSE <<Instr(op, o, x)>>
  IN  CASE a = o -> <<Instr(op, o, b)>>
        [] a # o /\ b = o ->
             WithScratch(free, o.width, LAMBDA s, rest :
               Move(rest, a, s, FALSE) \o <<Instr(op, s, b)>> \o Move(rest, s, o, FALSE))
        [] OTHER -> Move(free, a, o, FALSE) \o onto(b)

Binary(free, a, b, o, op) ==
  LET sized(f, x, y) ==
        AsSize(f, o.width, x, LAMBDA u, f1 :
          AsSize(f1, o.width, y, LAMBDA v, f2 : BinaryInto(f2, u, v, o, op)))
  IN  IF a.type = "MEM" /\ b.type = "MEM"
      THEN AsPrimitive(free, b, LAMBDA y, rest : sized(rest, a, y))
      ELSE sized(free, a, b)

(* ADD and SUB of a register to somewhere else are an address computation. *)
AddSub(free, a, b, o, id) ==
  IF ~Equal(o, a) /\ a.type = "REG" /\ (id = "ADD" \/ b.type # "REG")
  THEN Move(free, Ea(o.width, a, IF id = "ADD" THEN 1 ELSE -1, b, NoLoc), o, FALSE)
  ELSE Binary(free, a, b, o, IF id = "ADD" THEN "add" ELSE "sub")

Unary(free, v, o, op) ==
  CASE v = o -> <<Instr(op, o, NoLoc)>>
    [] v # o /\ o.type = "MEM" ->
         WithScratch(free, v.width, LAMBDA s, rest :
           Move(rest, v, s, FALSE) \o <<Instr(op, s, NoLoc)>> \o Move(rest, s, o, FALSE))
    [] OTHER -> Move(free, v, o, FALSE) \o <<Instr(op, o, NoLoc)>>

(* The quotient stays in RAX; only a remainder is moved to o.  RAX and RDX *)
(* would be saved if a scratch register were in use there; none is.        *)
ModDiv(free, o, a, b, sign, mod) ==
  Move(free, a, Reg(a.width, "RAX"), FALSE)
  \o (CASE ~sign -> <<>>
        [] sign /\ a.width \in {4, 8} ->
             <<Instr("cqo", Reg(a.width, "RDX"), Reg(a.width, "RAX"))>>
        [] OTHER -> Assertion)
  \o <<Instr(IF sign THEN "idiv" ELSE "div", NoLoc, b)>>
  \o (IF mod THEN Move(free, Reg(o.width, "RDX"), o, FALSE) ELSE <<>>)

(* The operand is shifted where it is. *)
Shift(free, a, b, op) ==
  Move(free, b, Reg(1, "RCX"), FALSE) \o <<Instr(op, a, NoLoc)>>

-----------------------------------------------------------------------------
(* Comparisons.  Immediate operands come with the width of a pointer. *)

Cmp(free, a, b) ==
  LET zero(x) == <<Instr("cmp", x, Imm(x.width, 0))>>
      against(x, y, f) ==
        IF y.type = "IMM" /\ y.bits = 0 THEN zero(x)
        ELSE AsPrimitive(f, y, LAMBDA v, rest : <<Instr("cmp", x, v)>>)
      same(y, f) ==
        IF a.type = "IMM"
        THEN WithScratch(f, a.width, LAMBDA s, rest :
               Move(rest, a, s, FALSE) \o against(s, y, rest))
        ELSE against(a, y, f)
  IN  AsSize(free, a.width, b, same)

StoreCond(free, o, cc) ==
  IF o.width = 1 THEN <<CondInstr("set", cc, o, NoLoc)>>
  ELSE WithScratch(free, 1, LAMBDA s, rest :
         <<CondInstr("set", cc, s, NoLoc)>> \o Move(rest, s, o, FALSE))

CondMove(src, o, cc) ==
  IF src.type # "INVALID" /\ src.width = o.width
  THEN <<CondInstr("cmov", cc, o, src)>> ELSE Assertion

-----------------------------------------------------------------------------
(* Memory. *)

Load(free, addr, o) ==
  AsPrimitive(free, addr, LAMBDA p, rest : Move(rest, Mem(o.width, p), o, FALSE))

Store(free, addr, val) ==
  AsPrimitive(free, addr, LAMBDA p, rest : Move(rest, val, Mem(val.width, p), FALSE))

(* Body with the address base + idx * elsize, all three made primitive. *)
WithEa(free, base, idx, elsize, Body(_, _)) ==
  AsPrimitive(free, base, LAMBDA x, f1 :
    AsPrimitive(f1, idx, LAMBDA y, f2 :
      AsPrimitive(f2, elsize, LAMBDA z, f3 : Body(Ea(8, x, 1, y, z), f3))))

InMemory(locs) == {n \in DOMAIN locs : locs[n].type = "MEM"}

NotImm(locs) == {n \in DOMAIN locs : locs[n].type \notin {"IMM", "NONE"}}

(* A product that the address of an instruction can express. *)
OneFactor(idx, elsize) == \A m, n \in NotImm(<<idx, elsize>>) : m = n

(* Any other one is computed at width w, and the sum goes to o. *)
SumInto(free, w, base, idx, elsize, o) ==
  WithScratch(free, w, LAMBDA s, rest :
    Binary(rest, idx, elsize, s, "imul") \o Binary(rest, base, s, o, "add"))

EaInto(free, base, idx, elsize, o) ==
  IF OneFactor(idx, elsize) /\ \A m, n \in InMemory(<<base, idx, elsize>>) : m = n
  THEN WithEa(free, base, idx, elsize, LAMBDA ea, rest : Move(rest, ea, o, FALSE))
  ELSE CASE elsize = NoLoc -> Binary(free, base, idx, o, "add")
         [] elsize # NoLoc -> SumInto(free, o.width, base, idx, elsize, o)

(* The address is computed like that of EA, and nothing is loaded from it. *)
LoadEa(free, base, idx, elsize, o) ==
  IF OneFactor(idx, elsize)
  THEN WithEa(free, base, idx, elsize, LAMBDA ea, rest :
         Move(rest, Mem(o.width, ea), o, FALSE))
  ELSE SumInto(free, 8, base, idx, elsize, o)

(* Likewise, but there is no o: the compiler reads through a null pointer. *)
StoreEa(free, base, idx, elsize, val) ==
  IF OneFactor(idx, elsize)
  THEN WithEa(free, base, idx, elsize, LAMBDA ea, rest :
         Move(rest, val, Mem(val.width, ea), FALSE))
  ELSE Assertion

-----------------------------------------------------------------------------
(* Calls and returns. *)

ArgLoads(free, args) ==
  FlattenSeq([n \in DOMAIN args |-> Move(free, args[n], Reg(args[n].width, ArgRegs[n]), FALSE)])

(* Arguments are loaded one after the other; the answer is in RAX.  The    *)
(* source operand of the call says how many arguments there are.           *)
Call(free, args, ret) ==
  ArgLoads(free, args)
  \o <<Instr("call", NoLoc, Imm(8, Len(args)))>>
  \o (IF ret = NoLoc THEN <<>> ELSE Move(free, Reg(ret.width, "RAX"), ret, FALSE))

TailCall(free, args) == ArgLoads(free, args) \o <<Instr("jmp", NoLoc, Imm(8, Len(args)))>>

Leave == <<Instr("pop", Reg(8, "RBP"), NoLoc)>>

Return(free, values, needEpilog) ==
  LET load(n, r) == IF Len(values) < n THEN <<>>
                    ELSE Move(free, values[n], Reg(values[n].width, r), FALSE)
  IN  load(1, "RAX") \o load(2, "RDX")
      \o (IF needEpilog THEN Leave ELSE <<>>) \o <<Bare("ret")>>

Enter == <<Instr("push", Reg(8, "RBP"), NoLoc), Instr("mov", Reg(8, "RBP"), Reg(8, "RSP"))>>

=============================================================================
