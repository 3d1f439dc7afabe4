------------------------------ MODULE RegAlloc ------------------------------
(***************************************************************************)
(* Where the x86 back end keeps the variables of a function: the first     *)
(* half of vx_cg_x86stupid_gen.  Registers go to the variables that are    *)
(* used most, parameters stay where the caller put them unless a call in   *)
(* the function needs that register, and the rest goes to the stack.       *)
(*                                                                         *)
(* One home per variable holds for the whole function, so correctness      *)
(* rests on homes being apart from each other and from the registers that  *)
(* instructions use in passing, and on the order of the moves that bring   *)
(* parameters to their homes.                                              *)
(***************************************************************************)
EXTENDS IntExec

CONSTANTS
  RedZone,    (* the bytes below the stack pointer that a leaf may use      *)
  NoRedZone,  (* the values that the target flag "no-redzone" takes         *)
  Functions   (* the functions to compile                                   *)

(* The ops of a function have the parameters that the passes read without  *)
(* looking; a RETURN returns what the function is declared to return, and  *)
(* a call passes no more arguments than there are registers (asserted,     *)
(* cg.c:725).                                                              *)
WellFormed(op, outs) ==
  /\ op \in Op
  /\ op.id \in {"CMOV", "COND"} => op.args # <<>>
  /\ op.id = "RETURN" => Len(op.args) = outs
  /\ op.id \in {"CALL", "TAILCALL"} => Len(op.args) <= Len(ArgRegs)

ASSUME RegAllocAssumption ==
  /\ RedZone \in Nat
  /\ NoRedZone \subseteq BOOLEAN
  /\ \A f \in Functions :
       /\ f.ins \in Seq(Var)
       /\ \A i, j \in DOMAIN f.ins : f.ins[i] = f.ins[j] => i = j
       /\ f.heat \in [Var -> Nat] /\ f.outs \in Nat
       /\ f.ops \in Seq(Op) /\ \A k \in DOMAIN f.ops : WellFormed(f.ops[k], f.outs)

VARIABLES
  fn,         (* the function: its parameters ins, how many values it       *)
              (* returns, its ops as they came in, the heat of each variable *)
  ops,        (* the ops now                                                *)
  phase,      (* the part of the back end that runs                         *)
  cur,        (* the parameter or variable it dealt with last               *)
  scratch,    (* SCRATCH_REG and SCRATCH_REG2                               *)
  pinned,     (* optLastRetFirstArg: the variable of the last RETURN        *)
  avail,      (* availableRegisters, from the next one on                   *)
  hot,        (* varsHotFirst, from the next one on                         *)
  location,   (* varData[].location                                         *)
  toMove,     (* the parameters that are not at home yet, and where they are *)
  stackOff,   (* bytes of stack in use                                      *)
  anyPlaced,  (* something is on the stack                                  *)
  noRedZone   (* the target flag                                            *)

allocation == <<scratch, pinned, avail, hot, location, toMove, stackOff, anyPlaced>>
given == <<fn, ops, noRedZone>>
allocVars == <<given, phase, cur, allocation>>

Ins == fn.ins

(* What vx_IrBlock_llir_fix_decl recorded for the ops that came in. *)
Typed == {Ins[i] : i \in DOMAIN Ins} \cup {fn.ops[k].out : k \in DOMAIN fn.ops}

EverPlaced(v) ==
  \E k \in DOMAIN fn.ops : fn.ops[k].id = "PLACE" /\ fn.ops[k].args[1] = V(v)

-----------------------------------------------------------------------------
Calls == {k \in DOMAIN ops : ops[k].id \in {"CALL", "TAILCALL"}}

IsLeaf == Calls = {}

(* How many argument registers the calls of the function load. *)
CalledIntArgs == Max({0} \cup {Len(ops[k].args) : k \in Calls})

Returns == {k \in DOMAIN ops : ops[k].id = "RETURN"}

(* The variable that a leaf function may keep in RAX. *)
UseRax ==
  IF IsLeaf /\ fn.outs > 0 /\ Returns # {} /\ ops[Max(Returns)].args[1].kind = "VAR"
  THEN ops[Max(Returns)].args[1].n ELSE None

(* Faulty variant: only the parameters of the function itself count. *)
ReservedArgsOwn == Len(Ins)

(* Faulty variant: only those that calls need count. *)
ReservedArgsCalled == CalledIntArgs

(* Argument registers that stay out of the pool. *)
ReservedArgs == Max({Len(Ins), CalledIntArgs})

(* The pool: the argument registers that are not needed, the last first.   *)
Pool(useRax) ==
  LET extra == Len(ArgRegs) - ReservedArgs
  IN  (IF useRax THEN <<>> ELSE <<"R11">>)
      \o [n \in 1 .. extra |-> ArgRegs[Len(ArgRegs) + 1 - n]]

Hotter(v, w) == fn.heat[v] > fn.heat[w] \/ (fn.heat[v] = fn.heat[w] /\ v < w)

(* The used variables: the hot ones first, in the order of their numbers. *)
HotFirst ==
  LET used == {v \in Var : fn.heat[v] > 0}
      nth(n) == CHOOSE v \in used : Cardinality({w \in used : Hotter(w, v)}) = n - 1
  IN  [n \in 1 .. Cardinality(used) |-> nth(n)]

Setup ==
  /\ phase = "setup"
  /\ pinned' = UseRax
  /\ scratch' = <<IF UseRax # None THEN "R11" ELSE "RAX", "R10">>
  /\ avail' = Pool(UseRax # None)
  /\ hot' = HotFirst
  /\ anyPlaced' = \E v \in Var : EverPlaced(v)
  /\ phase' = "registers"
  /\ UNCHANGED <<given, cur, location, toMove, stackOff>>

-----------------------------------------------------------------------------
(* Registers for the hot variables. *)

(* Faulty variant: it may be one whose address is taken. *)
MayHaveRegisterPlaced(v) == v \in Typed

MayHaveRegister(v) == v \in Typed /\ ~EverPlaced(v)

(* The first variable in line that may have a register gets the next one;  *)
(* those before it will not get any.                                       *)
AssignRegister ==
  /\ phase = "registers" /\ avail # <<>> /\ hot # <<>>
  /\ LET fit == {n \in DOMAIN hot : MayHaveRegister(hot[n])}
     IN  IF fit = {} THEN location' = location /\ hot' = <<>>
         ELSE /\ location' = [location EXCEPT ![hot[Min(fit)]] =
                                Reg(TypeSize[hot[Min(fit)]], Head(avail))]
              /\ hot' = SubSeq(hot, Min(fit) + 1, Len(hot))
  /\ avail' = Tail(avail)
  /\ UNCHANGED <<given, phase, cur, scratch, pinned, toMove, stackOff, anyPlaced>>

(* The variable that is returned goes to RAX, whatever it had. *)
PinReturn ==
  /\ phase = "registers" /\ (avail = <<>> \/ hot = <<>>)
  /\ location' = IF pinned = None THEN location
                 ELSE [location EXCEPT ![pinned] = Reg(TypeSize[pinned], "RAX")]
  /\ phase' = "parameters"
  /\ cur' = 0
  /\ UNCHANGED <<given, scratch, pinned, avail, hot, toMove, stackOff, anyPlaced>>

-----------------------------------------------------------------------------
(* Parameters, in order. *)

StackVar(size) == Mem(size, Ea(size, Reg(8, "RBP"), -1, Imm(8, size + stackOff), NoLoc))

NextParam ==
  /\ phase = "parameters" /\ cur < Len(Ins)
  /\ cur' = cur + 1
  /\ UNCHANGED <<given, phase, scratch, pinned, avail, hot>>

Param == Ins[cur + 1]
InRegister == cur < Len(ArgRegs)

(* Faulty variant: the whole register, whatever the type. *)
ArgHomeWide == Reg(8, ArgRegs[cur + 1])

ArgHome == Reg(TypeSize[Param], ArgRegs[cur + 1])

LaterMove(from) == toMove' = Append(toMove, [var |-> Param, argLoc |-> from])

OnStack(v) ==
  /\ location' = [location EXCEPT ![v] = StackVar(TypeSize[v])]
  /\ stackOff' = stackOff + TypeSize[v]
  /\ anyPlaced' = TRUE

(* Its address is taken, so it must be in memory. *)
PlaceParam ==
  /\ NextParam /\ InRegister /\ EverPlaced(Param)
  /\ OnStack(Param)
  /\ LaterMove(ArgHome)

(* No call needs its register. *)
KeepParam ==
  /\ NextParam /\ InRegister /\ ~EverPlaced(Param) /\ cur >= CalledIntArgs
  /\ location' = [location EXCEPT ![Param] = ArgHome]
  /\ UNCHANGED <<toMove, stackOff, anyPlaced>>

(* Some call needs its register: it moves to the home it has, or gets. *)
MoveParam ==
  /\ NextParam /\ InRegister /\ ~EverPlaced(Param) /\ cur < CalledIntArgs
  /\ LaterMove(ArgHome)
  /\ UNCHANGED <<location, stackOff, anyPlaced>>

(* It has no register.  The stack slot is one of this function, not the    *)
(* one in which the caller passed it.                                      *)
SpillParam ==
  /\ NextParam /\ ~InRegister
  /\ OnStack(Param)
  /\ UNCHANGED toMove

ParamsEnd ==
  /\ phase = "parameters" /\ cur = Len(Ins)
  /\ phase' = "stack"
  /\ cur' = 0
  /\ UNCHANGED <<given, allocation>>

-----------------------------------------------------------------------------
(* The stack, for the variables that are left. *)

Homeless ==
  {v \in Var : location[v] = NoLoc /\ v \in Typed /\ fn.heat[v] # 0}

Spill ==
  /\ phase = "stack" /\ Homeless # {}
  /\ OnStack(Min(Homeless))
  /\ UNCHANGED <<given, phase, cur, scratch, pinned, avail, hot, toMove>>

(* Faulty variant: a function that calls relies on the red zone. *)
NeedPrologAnywhere == stackOff > RedZone \/ (stackOff > 0 /\ noRedZone)

NeedProlog ==
  \/ stackOff > 0 /\ ~IsLeaf
  \/ stackOff > RedZone
  \/ stackOff > 0 /\ noRedZone

NeedEpilog == anyPlaced \/ NeedProlog

(* By how much the prologue lowers the stack pointer. *)
Reserved ==
  IF ~NeedProlog THEN 0
  ELSE IF IsLeaf /\ noRedZone THEN RedZone - stackOff ELSE stackOff

SpillingEnds ==
  /\ phase = "stack" /\ Homeless = {}
  /\ phase' = "prologue"
  /\ UNCHANGED <<given, cur, allocation>>

-----------------------------------------------------------------------------
AllocStep ==
  \/ Setup \/ AssignRegister \/ PinReturn
  \/ PlaceParam \/ KeepParam \/ MoveParam \/ SpillParam \/ ParamsEnd
  \/ Spill \/ SpillingEnds

AllocInit ==
  /\ fn \in Functions
  /\ ops = fn.ops
  /\ noRedZone \in NoRedZone
  /\ cur = 0
  /\ scratch = <<>> /\ pinned = None
  /\ avail = <<>> /\ hot = <<>>
  /\ location = [v \in Var |-> NoLoc]
  /\ toMove = <<>>
  /\ stackOff = 0
  /\ anyPlaced = FALSE

-----------------------------------------------------------------------------
(* Bytes of the stack below RBP that the home of v takes. *)
StackBytes(v) ==
  IF location[v].type # "MEM" THEN {}
  ELSE LET off == location[v].address.off.bits
       IN  off - TypeSize[v] + 1 .. off

(* Allocation is over: every home is final. *)
Allocated == phase \in {"prologue", "moves", "emit", "done"}

(* Two variables never share a home, and no home is one of the registers   *)
(* that instructions use in passing.  Five sources hand out homes (pool,   *)
(* RAX for the result, argument registers, slots of placed parameters,     *)
(* slots of the rest), later ones overriding earlier ones.                 *)
HomesDistinct ==
  Allocated =>
    \A v \in Var :
      /\ location[v].type = "REG" =>
           /\ location[v].reg \notin {scratch[1], scratch[2], "RBP", "RSP"}
           /\ \A w \in Var \ {v} :
                location[w].type = "REG" => location[w].reg # location[v].reg
      /\ \A w \in Var \ {v} : StackBytes(v) \cap StackBytes(w) = {}

(* Values are moved between registers one after the other, at the entry of *)
(* the function and before a call.  None of these moves overwrites the     *)
(* source of a later one: no home is an argument register that is still to *)
(* be read, and no argument is in a register that is loaded before it.     *)
MovesDoNotCollide ==
  Allocated =>
    /\ \A m, n \in DOMAIN toMove : m < n =>
         ~(/\ location[toMove[m].var].type = "REG"
           /\ location[toMove[m].var].reg = toMove[n].argLoc.reg)
    /\ \A k \in Calls : \A m, n \in DOMAIN ops[k].args :
         m < n /\ ops[k].args[n].kind = "VAR" =>
           LET home == location[ops[k].args[n].n]
           IN  ~(home.type = "REG" /\ home.reg = ArgRegs[m])

(* Every stack slot is in memory that the function owns: above the stack   *)
(* pointer, or within the red zone of a function that calls nothing.       *)
SlotsOwned ==
  Allocated =>
    LET redzone == IF IsLeaf /\ ~noRedZone THEN RedZone ELSE 0
    IN  \A v \in Var : \A b \in StackBytes(v) : b <= Reserved + redzone

=============================================================================
