----------------------------- MODULE Operations -----------------------------
(***************************************************************************)
(* What the native executor promises the service about the operations it   *)
(* is given: the effect of an operation happens at most once, however many *)
(* times the operation is delivered and however often the executor crashes *)
(* and restarts, and every receipt the service is handed for it is the     *)
(* same one.  It may promise less progress than that (an operation may     *)
(* never run or never be answered), never more effects.                    *)
(*                                                                         *)
(* Only what the world outside the executor can see is here.  The journal  *)
(* (module Journal) is shown to implement it.                              *)
(***************************************************************************)
EXTENDS Naturals

CONSTANTS
  Keys,      \* operation identities, "run_id/tool_call_id"
  Receipts   \* what an operation can be answered with

VARIABLES
  effects,   \* effects[k]: how many times k's effect happened
  answers    \* answers[k]: the receipts the service was handed for k

opVars == <<effects, answers>>

OpInit ==
  /\ effects = [k \in Keys |-> 0]
  /\ answers = [k \in Keys |-> {}]

Execute(k) ==
  /\ effects[k] = 0
  /\ effects' = [effects EXCEPT ![k] = 1]
  /\ UNCHANGED answers

Answer(k, r) ==
  /\ effects[k] = 1
  /\ answers[k] \subseteq {r}
  /\ answers' = [answers EXCEPT ![k] = {r}]
  /\ UNCHANGED effects

OpNext == \E k \in Keys : Execute(k) \/ \E r \in Receipts : Answer(k, r)

OpSpec == OpInit /\ [][OpNext]_opVars
=============================================================================
