------------------------------ MODULE LlirExec ------------------------------
(***************************************************************************)
(* What an LLIR program does when it runs: the reference against which the *)
(* passes are judged.  It follows the descriptions in the table of ops.    *)
(*                                                                         *)
(* A run starts from values of the variables (the arguments of the         *)
(* function) and is observed through its calls, in order, with the value   *)
(* each is given, and through how it ends.  The address of a variable is   *)
(* the variable itself, used as a value.                                   *)
(***************************************************************************)
EXTENDS Llir, Sequences

Env == [Var -> Imm]

Read(env, x) == IF x \in Var THEN env[x] ELSE x

(* A machine state: where it stands (End when it has stopped), the values  *)
(* of the variables, the calls made so far, and the value returned.        *)
Start(alive, env) ==
  [at |-> NextOf(alive, 0), env |-> env, calls |-> <<>>, ret |-> None]

(* Labels are resolved by name, as the assembler does. *)
LabelSlot(code, alive, l) ==
  CHOOSE j \in alive : code[j].id = "LABEL" /\ code[j].label = l

Assign(env, op, x) == [env EXCEPT ![op.out] = x]

(* The variables after the op.  A CMOV without an ELSE operand keeps what  *)
(* its output held.                                                        *)
EnvAfter(env, op) ==
  LET a == Read(env, op.a)
      b == Read(env, op.b)
      c == Read(env, op.cond)
  IN  CASE op.id = "IMM"   -> Assign(env, op, a)
        [] op.id = "NOT"   -> Assign(env, op, IF a = 0 THEN 1 ELSE 0)
        [] op.id = "OR"    -> Assign(env, op, IF a = 0 /\ b = 0 THEN 0 ELSE 1)
        [] op.id = "PLACE" -> Assign(env, op, op.a)
        [] op.id = "CMOV"  -> IF c # 0 THEN Assign(env, op, a)
                              ELSE IF op.b = None THEN env
                              ELSE Assign(env, op, b)
        [] op.id = "STORE" -> IF a \in Var THEN [env EXCEPT ![a] = b] ELSE env
        [] OTHER           -> env

Target(code, alive, env, i) ==
  LET op == code[i]
      taken == \/ op.id = "GOTO"
               \/ op.id = "COND" /\ Read(env, op.cond) # 0
  IN  IF op.id = "RETURN" THEN End
      ELSE IF taken THEN LabelSlot(code, alive, op.label)
      ELSE NextOf(alive, i)

(* One op of the program. *)
Exec(code, alive, m) ==
  LET op == code[m.at]
  IN  IF m.at = End THEN m
      ELSE [at    |-> Target(code, alive, m.env, m.at),
            env   |-> EnvAfter(m.env, op),
            calls |-> IF op.id = "CALL"
                      THEN Append(m.calls, Read(m.env, op.a)) ELSE m.calls,
            ret   |-> IF op.id = "RETURN" THEN Read(m.env, op.a) ELSE m.ret]

(* As many steps as the program has machine states, calls aside: one that  *)
(* has not stopped by then never stops.  A variable holds an immediate or  *)
(* the address of a variable that is placed.                               *)
Fuel(code, alive) ==
  LET placed == {code[i].a : i \in {j \in alive : code[j].id = "PLACE"}}
  IN  Cardinality((alive \cup {End}) \X [Var -> Imm \cup placed])

(* The run from env, watched for n steps.  One that goes round no loop has *)
(* stopped within a step per op, and stays where it stopped.               *)
OutcomeWithin(n, code, alive, env) ==
  LET run[k \in 0 .. n] ==
        IF k = 0 THEN Start(alive, env) ELSE Exec(code, alive, run[k - 1])
      once == IF MaxOps < n THEN MaxOps ELSE n
      last == run[IF run[once].at = End THEN once ELSE n]
  IN  [stopped |-> last.at = End, calls |-> last.calls, ret |-> last.ret]

Outcome(code, alive, env) ==
  OutcomeWithin(Fuel(code, alive), code, alive, env)

(* Two runs look the same: both stop, with the same calls and the same     *)
(* result, or neither stops and the calls of one begin those of the other. *)
SameOutcome(p, q) ==
  /\ p.stopped = q.stopped
  /\ p.ret = q.ret
  /\ IF p.stopped THEN p.calls = q.calls
     ELSE \A n \in 1 .. Min({Len(p.calls), Len(q.calls)}) :
            p.calls[n] = q.calls[n]

=============================================================================
