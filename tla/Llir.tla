-------------------------------- MODULE Llir --------------------------------
(***************************************************************************)
(* The flat, low-level form of a function (LLIR) that the back half of the *)
(* compiler works on: one root block whose ops are a singly linked list,   *)
(* with jumps to labels and variables that may be assigned several times.  *)
(*                                                                         *)
(* The linked list is modelled by its set of positions.  A function        *)
(* "code" maps every position (a slot) to the op that sits there and       *)
(* "alive" holds the slots that are reachable from block->first; the next  *)
(* pointer of an op is the least alive slot above it.  Removing an op      *)
(* takes its slot out of "alive"; as in the C code the removed op keeps    *)
(* its own successor, so that an iteration standing on it can go on.  The  *)
(* k-th op of the program that enters the back half sits in slot 2k, and   *)
(* slot 2k-1 is where an op can later be inserted in front of it.          *)
(***************************************************************************)
EXTENDS Integers, FiniteSetsExt

CONSTANTS
  Var,      (* the variables of the root block                          *)
  Label,    (* the labels of the root block                             *)
  None,     (* an absent parameter, output or label                     *)
  MaxOps    (* the number of ops a program may have before the passes   *)

ASSUME LlirAssumption ==
  /\ MaxOps \in Nat \ {0} /\ IsFiniteSet(Var)
  /\ None \notin Var \cup Label \cup {0, 1}
  /\ Var \cap {0, 1} = {}

Slot == 1 .. 2 * MaxOps

(* The slot "after the last op": a next pointer that is NULL. *)
End == 2 * MaxOps + 1

(* An operand: a variable, or an immediate (two values tell operands apart). *)
Imm == {0, 1}
Val == Var \cup Imm

(* The kinds of op that the passes tell apart.  NOT stands for every op    *)
(* that computes one output from its operands and has no side effect, OR   *)
(* for the commutative ones; UNUSED fills a slot no op occupies yet.       *)
OpId == {"IMM", "NOT", "OR", "CMOV", "PLACE", "STORE", "CALL",
         "LABEL", "GOTO", "COND", "RETURN", "UNUSED"}

(* One op: its output, the label it declares or jumps to, its condition    *)
(* and its operands a and b (THEN and ELSE of a CMOV, address and value of *)
(* a STORE, the argument of a CALL, the returned value of a RETURN).       *)
Op == [id : OpId, out : Var \cup {None}, label : Label \cup {None},
       cond : Val \cup {None}, a : Val \cup {None}, b : Val \cup {None}]

MakeOp(id, out, label, cond, a, b) ==
  [id |-> id, out |-> out, label |-> label, cond |-> cond, a |-> a, b |-> b]

Unused == MakeOp("UNUSED", None, None, None, None, None)

(* An op has the fields its kind has. *)
OpShape(op) ==
  /\ op.id \in {"IMM", "NOT", "OR", "CMOV", "PLACE"} => op.out \in Var
  /\ op.id \notin {"IMM", "NOT", "OR", "CMOV", "PLACE"} => op.out = None
  /\ op.id \in {"IMM", "CMOV", "CALL"} => op.a \in Val
  /\ op.id \in {"LABEL", "GOTO", "COND"} => op.label \in Label
  /\ op.id = "UNUSED" => op = Unused

-----------------------------------------------------------------------------
(* The attribute table of the ops. *)

HasEffect(op) == op.id \notin {"LABEL", "PLACE"}

EndsFlow(op) == op.id \in {"GOTO", "RETURN"}

HasSideEffect(op) ==
  op.id \in {"STORE", "CALL", "LABEL", "GOTO", "COND", "RETURN"}

IsJump(op) == op.id \in {"GOTO", "COND"}

(* Whether variable v is an operand of the op, or its output. *)
VarUsed(op, v) == v \in {op.cond, op.a, op.b}

VarInOuts(op, v) == op.out = v

-----------------------------------------------------------------------------
(* Walking the list. *)

(* The slots that follow slot i, and the one its next pointer names. *)
After(alive, i) == {j \in alive : j > i}

NextOf(alive, i) ==
  IF After(alive, i) = {} THEN End ELSE Min(After(alive, i))

(* The slots strictly between two others. *)
Between(alive, i, j) == {k \in alive : i < k /\ k < j}

(* Is some jump of the program to label l? *)
LabelUsed(code, alive, l) ==
  \E j \in alive : IsJump(code[j]) /\ code[j].label = l

(* Is variable v an operand anywhere in the program?  (The outputs of an   *)
(* LLIR root block are empty: lowering turned them into a RETURN.)         *)
BlockVarUsed(code, alive, v) == \E j \in alive : VarUsed(code[j], v)

(* The slots from i on (i excluded) up to the next label: the ops that     *)
(* control reaches from i only by falling through.                         *)
Segment(code, alive, i) ==
  {j \in After(alive, i) :
     \A k \in Between(alive, i, j) \cup {j} : code[k].id # "LABEL"}

(* The op of slot j with every operand that is variable v replaced by x. *)
Substitute(op, v, x) ==
  [op EXCEPT !.cond = IF @ = v THEN x ELSE @,
             !.a    = IF @ = v THEN x ELSE @,
             !.b    = IF @ = v THEN x ELSE @]

-----------------------------------------------------------------------------
(* Copy inlining (vx_opt_ll_inlineVars), run by the optimiser and again     *)
(* after slots are shared.                                                 *)

(* Faulty variant: the copy outlives an assignment to its source. *)
InlineReachPastSource(code, alive, i) ==
  {j \in Segment(code, alive, i) :
     \A k \in Between(alive, i, j) : ~VarInOuts(code[k], code[i].out)}

(* The ops in which the output o of the copy in slot i may be replaced by  *)
(* its value n: those after it up to the next label, the first op that     *)
(* assigns o or n included (its operands are read before it assigns).      *)
InlineReach(code, alive, i) ==
  LET o == code[i].out
      n == code[i].a
  IN  {j \in Segment(code, alive, i) : \A k \in Between(alive, i, j) :
         ~VarInOuts(code[k], o) /\ ~VarInOuts(code[k], n)}

(* The program after that: PLACE and RETURN keep their operands. *)
Inlined(code, alive, i) ==
  [j \in Slot |->
     IF j \in InlineReach(code, alive, i) /\ code[j].id \notin {"PLACE", "RETURN"}
     THEN Substitute(code[j], code[i].out, code[i].a) ELSE code[j]]

CopiesItself(op) == op.id = "IMM" /\ op.a = op.out

=============================================================================
