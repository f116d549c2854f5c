-------------------------------- MODULE OneShot --------------------------------
(***************************************************************************)
(* What an attack that cannot be taken back promises: a failover has no    *)
(* Stop.  Prepare confirms the target or refuses it; every Start of a      *)
(* confirmed execution has at most one effect, and it is over when the     *)
(* effect is there, whether the extension learns of it or not; a Start     *)
(* that reports success had its effect; a Start that reports an error may  *)
(* be repeated, and nothing else has an effect at all.                     *)
(***************************************************************************)

EXTENDS Naturals

CONSTANT Execs   \* attack executions

VARIABLES
  stage,         \* of each execution
  effects        \* how many effects it had

vars == <<stage, effects>>

Init ==
  /\ stage = [e \in Execs |-> "new"]
  /\ effects = [e \in Execs |-> 0]

Decide(e) ==
  /\ stage[e] = "new"
  /\ \E s \in {"confirmed", "refused"} : stage' = [stage EXCEPT ![e] = s]
  /\ UNCHANGED effects

Call(e) ==
  /\ stage[e] \in {"confirmed", "failed"}
  /\ stage' = [stage EXCEPT ![e] = "calling"]
  /\ UNCHANGED effects

\* Answered, or not.
Effect(e) ==
  /\ stage[e] = "calling"
  /\ effects' = [effects EXCEPT ![e] = @ + 1]
  /\ \E s \in {"done", "failed"} : stage' = [stage EXCEPT ![e] = s]

\* In the middle of a call, or before it got anywhere.
Fail(e) ==
  /\ stage[e] \in {"confirmed", "calling", "failed"}
  /\ stage' = [stage EXCEPT ![e] = "failed"]
  /\ UNCHANGED effects

Next == \E e \in Execs : Decide(e) \/ Call(e) \/ Effect(e) \/ Fail(e)

Spec == Init /\ [][Next]_vars

===============================================================================
