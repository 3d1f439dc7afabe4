-------------------------------- MODULE X86 --------------------------------
(***************************************************************************)
(* The processor that the assembly text is for, as far as the generated    *)
(* integer code uses it.  Nothing here is part of the compiler: it is what *)
(* the code generator relies on, and the judge of what it writes.          *)
(*                                                                         *)
(* Words are short: a byte has two bits, a word of 4 bytes three and one   *)
(* of 8 bytes four.  That keeps what matters about widths: a byte written  *)
(* to a register leaves the rest of it alone, 4 bytes clear the rest, and  *)
(* a byte that is 2 is not 0 although its lowest bit is.  Addresses in the *)
(* stack are negative numbers, in bytes, counted from the return address   *)
(* of the function; other addresses are words.                             *)
(***************************************************************************)
EXTENDS Integers, Sequences

CONSTANTS
  ArgRegs,    (* the registers of integer arguments, in order               *)
  MaxFrame    (* bound: the bytes of stack that a run may use               *)

ASSUME X86Assumption ==
  /\ ArgRegs \in Seq({"RDI", "RSI", "RDX", "RCX", "R8", "R9"})
  /\ \A i, j \in DOMAIN ArgRegs : ArgRegs[i] = ArgRegs[j] => i = j
  /\ MaxFrame \in Nat

Regs == {"RAX", "RDX", "RCX", "RBP", "RSP", "R10", "R11"}
          \cup {ArgRegs[i] : i \in DOMAIN ArgRegs}

(* What a called function need not preserve; of the registers that the     *)
(* generated code uses this is all but the two of the frame.               *)
CallerSaved == Regs \ {"RBP", "RSP"}

Bits(w) == CASE w = 1 -> 2 [] w = 4 -> 3 [] OTHER -> 4

Wrap(n, w) == n % 2 ^ Bits(w)

(* A word kept whole, so that a stack address stays one, or its low part. *)
Cut(n, w) == IF w = 8 /\ n < 0 THEN n ELSE Wrap(n, w)

Signed(n, w) ==
  IF Wrap(n, w) < 2 ^ (Bits(w) - 1) THEN Wrap(n, w) ELSE Wrap(n, w) - 2 ^ Bits(w)

Word == 0 .. 2 ^ Bits(8) - 1

Bit(n, k) == (n \div 2 ^ k) % 2

BitAnd(m, n) ==
  LET sum[k \in 0 .. 4] ==
        IF k = 0 THEN 0 ELSE sum[k - 1] + 2 ^ (k - 1) * Bit(m, k - 1) * Bit(n, k - 1)
  IN  sum[4]

BitOr(m, n) == m + n - BitAnd(m, n)

(* Division that cuts off the fraction. *)
Quotient(m, n) ==
  LET abs(k) == IF k < 0 THEN -k ELSE k
      q      == abs(m) \div abs(n)
  IN  IF (m < 0) = (n < 0) THEN q ELSE -q

-----------------------------------------------------------------------------
(* Operands.  An address (of a MEM operand, or computed by LEA) is         *)
(* base + sign * off * mul; off and mul may be absent.                     *)

NoLoc == [type |-> "NONE"]

Reg(w, r)  == [type |-> "REG", width |-> w, reg |-> r]
Imm(w, n)  == [type |-> "IMM", width |-> w, bits |-> n]
Mem(w, a)  == [type |-> "MEM", width |-> w, address |-> a]
Ea(w, base, sign, off, mul) ==
  [type |-> "EA", width |-> w, base |-> base, sign |-> sign, off |-> off, mul |-> mul]

Instr(op, dst, src) == [op |-> op, cc |-> "", dst |-> dst, src |-> src]
CondInstr(op, cc, dst, src) == [op |-> op, cc |-> cc, dst |-> dst, src |-> src]
Bare(op) == Instr(op, NoLoc, NoLoc)

TwoOperand == {"add", "sub", "imul", "and", "or", "xor"}

AddressEncodable(a) ==
  IF a.type # "EA" THEN a.type \in {"REG", "IMM"}
  ELSE /\ a.base.type \in {"REG", "IMM"}
       /\ a.off.type \in {"NONE", "REG", "IMM"}
       /\ a.off.type = "REG" => a.sign = 1
       /\ a.mul.type \in {"NONE", "IMM", "REG"}
       /\ a.off.type = "REG" /\ a.mul.type = "IMM" => a.mul.bits \in {1, 2, 4, 8}
       /\ a.mul.type = "REG" => a.off.type = "IMM" /\ a.off.bits \in {1, 2, 4, 8}

LocEncodable(l) ==
  \/ l.type \in {"REG", "IMM"}
  \/ (l.type = "MEM" /\ AddressEncodable(l.address))

ConditionCodes == {"e", "ne", "b", "ae", "be", "a", "l", "ge", "le", "g"}

(* Is there such an instruction? *)
Encodable(i) ==
  /\ i.op # "assert"
  /\ i.op \in {"j", "cmov", "set"} => i.cc \in ConditionCodes \cup {"mp"}
  /\ i.op \in TwoOperand \cup {"mov", "cmp"} =>
       /\ i.dst.type \in {"REG", "MEM"} /\ LocEncodable(i.dst)
       /\ LocEncodable(i.src)
       /\ ~(i.dst.type = "MEM" /\ i.src.type = "MEM")
       /\ i.src.type # "IMM" => i.dst.width = i.src.width
       /\ i.op = "imul" => i.dst.type = "REG"
  /\ i.op \in {"movsx", "movzx", "cmov"} =>
       /\ i.dst.type = "REG" /\ LocEncodable(i.src) /\ i.src.type # "IMM"
  /\ i.op = "lea" => /\ i.dst.type = "REG" /\ i.dst.width # 1
                    /\ i.src.type = "EA" /\ AddressEncodable(i.src)
  /\ i.op \in {"not", "shl", "shr", "sar", "set"} =>
       i.dst.type \in {"REG", "MEM"} /\ LocEncodable(i.dst)
  /\ i.op \in {"div", "idiv"} => i.src.type \in {"REG", "MEM"} /\ LocEncodable(i.src)

-----------------------------------------------------------------------------
(* The machine: the number of the next instruction, the registers, the     *)
(* stack, the other memory, the flags (z: equal, l: less as signed         *)
(* numbers, c: below as unsigned ones), what was observed, and whether the *)
(* run has ended, with or without a fault.                                 *)

AddressOf(m, a) ==
  LET part(l) == IF l.type = "REG" THEN m.regs[l.reg]
                 ELSE IF l.type = "IMM" THEN l.bits ELSE 0
      factor  == IF a.mul.type = "NONE" THEN 1 ELSE part(a.mul)
  IN  IF a.type # "EA" THEN Cut(part(a), 8)
      ELSE LET n == part(a.base) + a.sign * part(a.off) * factor
           IN  IF part(a.base) < 0 THEN n ELSE Wrap(n, 8)

Reachable(m, l) ==
  l.type = "MEM" => AddressOf(m, l.address) \in -MaxFrame .. 2 ^ Bits(8) - 1

Fetch(m, a) == IF a < 0 THEN m.stack[a] ELSE m.heap[a]

Value(m, l) ==
  CASE l.type = "REG" -> Cut(m.regs[l.reg], l.width)
    [] l.type = "IMM" -> Cut(l.bits, l.width)
    [] l.type = "MEM" -> Cut(Fetch(m, AddressOf(m, l.address)), l.width)

(* The word old with its low part replaced by n. *)
Merge(old, n, w) ==
  IF w = 8 THEN n ELSE Wrap(old, 8) - Wrap(old, w) + Wrap(n, w)

Put(m, l, n) ==
  LET a == AddressOf(m, l.address)
  IN  IF l.type = "REG"
      THEN [m EXCEPT !.regs[l.reg] = IF l.width = 4 THEN Wrap(n, 4) ELSE Merge(@, n, l.width)]
      ELSE IF a < 0 THEN [m EXCEPT !.stack[a] = Merge(@, n, l.width)]
      ELSE [m EXCEPT !.heap[a] = Merge(@, n, l.width)]

(* Flags of a comparison, and of a result. *)
Compare(a, b, w) ==
  [z |-> Wrap(a, w) = Wrap(b, w), l |-> Signed(a, w) < Signed(b, w), c |-> Wrap(a, w) < Wrap(b, w)]

Holds(cc, f) ==
  CASE cc = "e"  -> f.z         [] cc = "ne" -> ~f.z
    [] cc = "b"  -> f.c         [] cc = "ae" -> ~f.c
    [] cc = "be" -> f.c \/ f.z  [] cc = "a"  -> ~(f.c \/ f.z)
    [] cc = "l"  -> f.l         [] cc = "ge" -> ~f.l
    [] cc = "le" -> f.l \/ f.z  [] cc = "g"  -> ~(f.l \/ f.z)
    [] cc = "mp" -> TRUE

Computed(op, a, b, w) ==
  CASE op = "add"  -> Wrap(a + b, w)      [] op = "sub" -> Wrap(a - b, w)
    [] op = "imul" -> Wrap(a * b, w)      [] op = "and" -> BitAnd(a, b)
    [] op = "or"   -> BitOr(a, b)         [] op = "xor" -> 0
    [] op = "not"  -> 2 ^ Bits(w) - 1 - a [] op = "shl" -> Wrap(a * 2 ^ b, w)
    [] op = "shr"  -> a \div 2 ^ b        [] op = "sar" -> Wrap(Signed(a, w) \div 2 ^ b, w)

Shifts == {"shl", "shr", "sar"}

(* An instruction that computes its destination from it and the source. *)
Arithmetic(m, i) ==
  LET w == i.dst.width
      b == IF i.op \in Shifts THEN Wrap(m.regs["RCX"], 1)
           ELSE IF i.op = "not" THEN 0 ELSE Value(m, i.src)
      r == Computed(i.op, Value(m, i.dst), Cut(b, w), w)
  IN  [Put(m, i.dst, r) EXCEPT !.flags = IF i.op = "not" THEN @ ELSE Compare(r, 0, w)]

Faulty(m) == [m EXCEPT !.ended = TRUE, !.fault = TRUE]

(* idiv and div divide RDX:RAX.  The double word is represented by its low *)
(* half, right if RDX holds what cqo leaves, or 0 for div.                 *)
Division(m, i) ==
  LET w       == i.src.width
      num(n)  == IF i.op = "idiv" THEN Signed(n, w) ELSE Wrap(n, w)
      a       == num(m.regs["RAX"])
      b       == num(Value(m, i.src))
      high    == IF i.op = "idiv" /\ a < 0 THEN 2 ^ Bits(w) - 1 ELSE 0
      q       == Quotient(a, b)
      fits    == num(q) = q
  IN  IF b = 0 \/ ~fits \/ Wrap(m.regs["RDX"], w) # high THEN Faulty(m)
      ELSE Put(Put(m, Reg(w, "RAX"), Wrap(q, w)), Reg(w, "RDX"), Wrap(a - b * q, w))

Push(m, n) ==
  IF m.regs["RSP"] - 8 < -MaxFrame THEN Faulty(m)
  ELSE [m EXCEPT !.regs["RSP"] = @ - 8, !.stack[m.regs["RSP"] - 8] = n]

Pop(m, r) == [m EXCEPT !.regs = [@ EXCEPT ![r] = m.stack[m.regs["RSP"]],
                                         !["RSP"] = @ + 8]]

(* What a called function returns, for each list of arguments. *)
Answer(args) ==
  LET sum[k \in 0 .. Len(args)] == IF k = 0 THEN 1 ELSE sum[k - 1] + k * args[k]
  IN  Wrap(sum[Len(args)], 8)

(* A function called with args: it answers, and leaves nothing in what is  *)
(* not preserved: the registers, and the stack below the stack pointer.    *)
Called(m, args, junk) ==
  [m EXCEPT !.calls = Append(@, args),
            !.regs = [r \in Regs |-> IF r = "RAX" THEN Answer(args)
                                     ELSE IF r \in CallerSaved THEN junk ELSE @[r]],
            !.stack = [a \in DOMAIN @ |-> IF a < m.regs["RSP"] THEN junk ELSE @[a]],
            !.flags = Compare(junk, 0, 8)]

(* A jump to another function, which returns to the caller of this one. *)
LeftFor(m, args, junk) ==
  IF m.regs["RSP"] = 0 /\ m.regs["RBP"] = 0
  THEN [Called(m, args, junk) EXCEPT !.ended = TRUE] ELSE Faulty(m)

LabelAt(asm, l) ==
  CHOOSE k \in DOMAIN asm : asm[k].op = "label" /\ asm[k].dst = l

(* One instruction.  The caller's frame is the word 0 in RBP, and its      *)
(* return address lies at 0.                                               *)
Execute(asm, m, junk) ==
  LET i == asm[m.at]
      n == [m EXCEPT !.at = @ + 1]
      moved(x) == Put(n, i.dst, x)
  IN  IF \/ m.at \notin DOMAIN asm
         \/ ~Encodable(i)
         \/ ~Reachable(m, i.dst) \/ ~Reachable(m, i.src)
      THEN Faulty(m)
      ELSE CASE i.op \in {"mov", "movzx"} -> moved(Value(m, i.src))
             [] i.op = "movsx" -> moved(Wrap(Signed(Value(m, i.src), i.src.width), i.dst.width))
             [] i.op = "lea"   -> moved(AddressOf(m, i.src))
             [] i.op \in TwoOperand \cup Shifts \cup {"not"} -> Arithmetic(n, i)
             [] i.op = "cmp"   -> [n EXCEPT !.flags =
                                     Compare(Value(m, i.dst), Value(m, i.src), i.dst.width)]
             [] i.op = "set"   -> moved(IF Holds(i.cc, m.flags) THEN 1 ELSE 0)
             [] i.op = "cmov"  -> IF Holds(i.cc, m.flags) THEN moved(Value(m, i.src)) ELSE n
             [] i.op = "j"     -> IF Holds(i.cc, m.flags)
                                  THEN [m EXCEPT !.at = LabelAt(asm, i.dst)] ELSE n
             [] i.op = "label" -> n
             [] i.op = "cqo"   -> moved(IF Signed(Value(m, i.src), i.src.width) < 0
                                        THEN 2 ^ Bits(i.src.width) - 1 ELSE 0)
             [] i.op \in {"div", "idiv"} -> Division(n, i)
             [] i.op = "reserve" -> [n EXCEPT !.regs["RSP"] = @ - i.src.bits]
             [] i.op = "push"  -> Push(n, Value(m, i.dst))
             [] i.op = "pop"   -> Pop(n, i.dst.reg)
             [] i.op = "call"  -> Called(n, [k \in 1 .. i.src.bits |->
                                              Wrap(m.regs[ArgRegs[k]], 8)], junk)
             [] i.op = "jmp"   -> LeftFor(m, [k \in 1 .. i.src.bits |->
                                               Wrap(m.regs[ArgRegs[k]], 8)], junk)
             [] i.op = "ret"   -> IF m.regs["RSP"] = 0 /\ m.regs["RBP"] = 0
                                  THEN [n EXCEPT !.ended = TRUE] ELSE Faulty(m)

=============================================================================
