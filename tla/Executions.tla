------------------------------ MODULE Executions ------------------------------
(***************************************************************************)
(* The executions of an attack without a Stop, as the agent goes through   *)
(* them: a Prepare, then a Start, which it may send again after an error.  *)
(* The modules of the attacks that cannot be taken back add what a Prepare *)
(* keeps in its state and what the calls of a Start do; a Start ends in    *)
(* the one call that matters.                                              *)
(***************************************************************************)

EXTENDS Naturals

CONSTANTS
  Execs,       \* attack executions
  None,        \* no value
  MaxFaults,   \* bound: failed or unanswered service calls
  MaxStarts    \* bound: Start calls of an execution

ASSUME BoundsAssumption == MaxFaults \in Nat /\ MaxStarts \in Nat

VARIABLES
  phase,       \* where each execution is
  starts,      \* ghost: Start calls of each execution
  faults

executions == <<phase, starts, faults>>

Phases == {"new", "failed", "prepared", "fetching", "calling", "err", "ok"}

ExecutionsTypeOK ==
  /\ phase \in [Execs -> Phases]
  /\ starts \in [Execs -> 0..MaxStarts]
  /\ faults \in 0..MaxFaults

ExecutionsInit ==
  /\ phase = [e \in Execs |-> "new"]
  /\ starts = [e \in Execs |-> 0]
  /\ faults = 0

Fault == faults < MaxFaults /\ faults' = faults + 1
Goto(e, to) == phase' = [phase EXCEPT ![e] = to]

\* Start is called, again after an error.
Called(e) ==
  /\ phase[e] \in {"prepared", "err"}
  /\ starts[e] < MaxStarts
  /\ starts' = [starts EXCEPT ![e] = @ + 1]

\* The stage of an execution in OneShot.
Stage(e) ==
  CASE phase[e] = "new" -> "new"
    [] phase[e] = "failed" -> "refused"
    [] phase[e] = "prepared" -> "confirmed"
    [] phase[e] \in {"fetching", "calling"} -> "calling"
    [] phase[e] = "err" -> "failed"
    [] phase[e] = "ok" -> "done"

===============================================================================
