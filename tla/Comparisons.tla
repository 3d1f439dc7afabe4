---------------------------- MODULE Comparisons ----------------------------
(***************************************************************************)
(* The pass vx_opt_comparisions over one basic block: it walks the ops in  *)
(* order and turns comparisons into the few forms that the code generator  *)
(* handles best, in place.  What it does to an op depends on what it did   *)
(* to earlier ones: a NOT looks up the op that computed its operand as     *)
(* that op is now.                                                         *)
(*                                                                         *)
(* Values have the width of the compared type: 2 * Half of them, the upper *)
(* half negative when signed.  Every variable has one assignment (the pass *)
(* runs on the SSA form).                                                  *)
(***************************************************************************)
EXTENDS Integers, Sequences

CONSTANTS
  Var,       (* the variables of the block                                  *)
  None,      (* an operand an op does not have                              *)
  Half,      (* 2 to the power of the width less one                        *)
  Programs   (* the blocks to rewrite                                       *)

Imm == 0 .. 2 * Half - 1
Val == Var \cup Imm

CompareId == {"EQ", "NEQ", "ULT", "ULTE", "UGT", "UGTE",
              "SLT", "SLTE", "SGT", "SGTE"}

(* The operand of a NOT is a. *)
Op == [id : CompareId \cup {"NOT"}, out : Var, a : Val, b : Val \cup {None}]

ASSUME ComparisonsAssumption ==
  /\ Half \in Nat \ {0}
  /\ Var \cap Imm = {}
  /\ None \notin Val
  /\ \A p \in Programs :
       /\ p \in Seq(Op)
       /\ \A i \in DOMAIN p : p[i].id \in CompareId <=> p[i].b # None

VARIABLES
  ops,      (* the ops of the block                                         *)
  cur,      (* how many of them the pass has visited                        *)
  meaning   (* the assignments to the variables that the block allowed when *)
            (* it came in; read by properties only                          *)

vars == <<ops, cur, meaning>>

-----------------------------------------------------------------------------
(* What the ops compute. *)

Signed(v) == IF v >= Half THEN v - 2 * Half ELSE v

Compares(id, x, y) ==
  CASE id = "EQ"   -> x = y
    [] id = "NEQ"  -> x # y
    [] id = "ULT"  -> x < y
    [] id = "ULTE" -> x <= y
    [] id = "UGT"  -> x > y
    [] id = "UGTE" -> x >= y
    [] id = "SLT"  -> Signed(x) < Signed(y)
    [] id = "SLTE" -> Signed(x) <= Signed(y)
    [] id = "SGT"  -> Signed(x) > Signed(y)
    [] id = "SGTE" -> Signed(x) >= Signed(y)

Env == [Var -> Imm]

Read(env, x) == IF x \in Var THEN env[x] ELSE x

IsTrue(op, env) ==
  IF op.id = "NOT" THEN Read(env, op.a) = 0
  ELSE Compares(op.id, Read(env, op.a), Read(env, op.b))

(* Each output is 1 or 0 as its op says: with one assignment per variable, *)
(* this is what running the block establishes.                             *)
Computed(p, env) ==
  \A i \in DOMAIN p : env[p[i].out] = IF IsTrue(p[i], env) THEN 1 ELSE 0

-----------------------------------------------------------------------------
(* The walk.  Op i is the one whose turn it is. *)

Turn(i) ==
  /\ i = cur + 1
  /\ i \in DOMAIN ops
  /\ cur' = i
  /\ UNCHANGED meaning

(* vx_IrBlock_vardeclOutBefore: op d is the last before i with output v. *)
DeclBefore(d, v, i) ==
  /\ ops[d].out = v
  /\ \A k \in d + 1 .. i - 1 : ops[k].out # v

BoolInv ==
  [EQ |-> "NEQ", NEQ |-> "EQ", ULT |-> "UGTE", ULTE |-> "UGT", UGT |-> "ULTE",
   UGTE |-> "ULT", SLT |-> "SGTE", SLTE |-> "SGT", SGT |-> "SLTE", SGTE |-> "SLT"]

(* A NOT of a comparison becomes the inverse comparison. *)
NotOf(d, i) ==
  /\ ops[i].id = "NOT"
  /\ DeclBefore(d, ops[i].a, i)
  /\ ops[d].id \in CompareId

(* Faulty variant: an operand is turned around as well. *)
InvertNotSwapping(i) ==
  /\ Turn(i)
  /\ \E d \in 1 .. i - 1 :
       /\ NotOf(d, i)
       /\ ops' = [ops EXCEPT ![i].id = BoolInv[ops[d].id],
                             ![i].a = ops[d].b, ![i].b = ops[d].a]

InvertNot(i) ==
  /\ Turn(i)
  /\ \E d \in 1 .. i - 1 :
       /\ NotOf(d, i)
       /\ ops' = [ops EXCEPT ![i].id = BoolInv[ops[d].id],
                             ![i].a = ops[d].a, ![i].b = ops[d].b]

(* constant == a  becomes  a == constant, and so for the strict orders,    *)
(* which turn around.                                                      *)
Mirror ==
  [EQ |-> "EQ", NEQ |-> "NEQ", ULT |-> "UGT", UGT |-> "ULT",
   SLT |-> "SGT", SGT |-> "SLT"]

ConstantFirst(op) == op.id \in DOMAIN Mirror /\ op.a \in Imm

SwapConstant(i) ==
  /\ Turn(i)
  /\ ConstantFirst(ops[i])
  /\ ops' = [ops EXCEPT ![i].id = Mirror[ops[i].id],
                        ![i].a = ops[i].b, ![i].b = ops[i].a]

(* a <= constant  becomes  a < constant + 1, in the width of the value. *)
AtMostConstant(op) == op.id \in {"ULTE", "SLTE"} /\ op.b \in Imm

MakeLess(i) ==
  /\ Turn(i)
  /\ AtMostConstant(ops[i])
  /\ ops' = [ops EXCEPT ![i].id = IF ops[i].id = "ULTE" THEN "ULT" ELSE "SLT",
                        ![i].b = (ops[i].b + 1) % (2 * Half)]

(* a >= constant  becomes  a > constant - 1, unless the constant is 0, for *)
(* signed and unsigned comparisons alike.                                  *)
AtLeastConstant(op) == op.id \in {"UGTE", "SGTE"} /\ op.b \in Imm \ {0}

MakeGreater(i) ==
  /\ Turn(i)
  /\ AtLeastConstant(ops[i])
  /\ ops' = [ops EXCEPT ![i].id = IF ops[i].id = "UGTE" THEN "UGT" ELSE "SGT",
                        ![i].b = ops[i].b - 1]

Leave(i) ==
  /\ Turn(i)
  /\ ~ \E d \in 1 .. i - 1 : NotOf(d, i)
  /\ ~ConstantFirst(ops[i])
  /\ ~AtMostConstant(ops[i])
  /\ ~AtLeastConstant(ops[i])
  /\ UNCHANGED ops

Init ==
  /\ ops \in Programs
  /\ cur = 0
  /\ meaning = {env \in Env : Computed(ops, env)}

Visit(i) ==
  \/ InvertNot(i)
  \/ SwapConstant(i)
  \/ MakeLess(i)
  \/ MakeGreater(i)
  \/ Leave(i)

Terminated == cur = Len(ops) /\ UNCHANGED vars

Next == (\E i \in DOMAIN ops : Visit(i)) \/ Terminated

Spec == Init /\ [][Next]_vars

-----------------------------------------------------------------------------
(* The comparisons that the step to a strict order keeps: those against a  *)
(* constant that has a neighbour on the side it moves to.                  *)
HasNeighbour(op) ==
  /\ op.id = "ULTE" => op.b # 2 * Half - 1
  /\ op.id = "SLTE" => op.b # Half - 1
  /\ op.id = "SGTE" => op.b # Half

(* After every step of the pass each variable of the block gets the value  *)
(* it got before: "compare unsigned a <= b" and its kin (ops.cdef) compute *)
(* the same truth value in their new form, and so does a NOT that was      *)
(* replaced by the inverse of a comparison rewritten earlier in the walk.  *)
ResultsKept == meaning = {env \in Env : Computed(ops, env)}

=============================================================================
