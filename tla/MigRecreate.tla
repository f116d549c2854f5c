------------------------------ MODULE MigRecreate ------------------------------
(***************************************************************************)
(* The MIG attack, extmig/mig_attack_delete_instances.go: Prepare lists    *)
(* the RUNNING instances of one managed instance group and draws a sample; *)
(* Start, possibly much later, sends the sample in one RecreateInstances   *)
(* call.  A zonal and a regional group may have the same name; the scope   *)
(* in the target's attributes decides which API is asked.                  *)
(*                                                                         *)
(* Between the two the group lives on: instances are repaired, scaled in,  *)
(* and recreated by other executions.                                      *)
(***************************************************************************)

EXTENDS Sampling, FiniteSets

CONSTANTS
  Instances,    \* instance URLs
  Migs,         \* <<scope, name>> of the groups of one project and location
  MigOf,        \* the group of each instance
  Execs,        \* attack executions
  Target,       \* state.Scope and state.MigName of each execution
  Percentages,  \* values of the "percentage" parameter
  MaxFaults,    \* bound: failed service calls
  MaxChurn      \* bound: changes of an instance that no attack makes

ASSUME MigAssumption == MigOf \in [Instances -> Migs] /\ Target \in [Execs -> Migs]
ASSUME InstancesAssumption == IsFiniteSet(Instances)
ASSUME ParameterAssumption ==
  Percentages \subseteq Int /\ MaxFaults \in Nat /\ MaxChurn \in Nat

VARIABLES
  status,    \* of each instance, as ListManagedInstances reports it
  phase,     \* of each execution
  sample,    \* state.Instances
  listed,    \* ghost: the instances Prepare had found running
  confirm,   \* the "confirmHighImpact" parameter Prepare was given
  hit,       \* ghost: how often an execution had an instance recreated
  faults, churn

vars == <<status, phase, sample, listed, confirm, hit, faults, churn>>

Statuses == {"RUNNING", "RECREATING", "GONE"}

TypeOK ==
  /\ status \in [Instances -> Statuses]
  /\ phase \in [Execs -> {"new", "failed", "prepared", "err", "ok"}]
  /\ sample \in [Execs -> SUBSET Instances]
  /\ listed \in [Execs -> SUBSET Instances]
  /\ confirm \in [Execs -> BOOLEAN]
  /\ hit \in [Execs -> [Instances -> Nat]]
  /\ faults \in 0..MaxFaults
  /\ churn \in 0..MaxChurn

Init ==
  /\ status \in [Instances -> {"RUNNING", "GONE"}]
  /\ phase = [e \in Execs |-> "new"]
  /\ sample = [e \in Execs |-> {}]
  /\ listed = [e \in Execs |-> {}]
  /\ confirm = [e \in Execs |-> FALSE]
  /\ hit = [e \in Execs |-> [i \in Instances |-> 0]]
  /\ faults = 0
  /\ churn = 0

Fault == faults < MaxFaults /\ faults' = faults + 1

\* A mistake: the group is looked up without its scope.
ListRunningOfName(mig) == {i \in Instances : status[i] = "RUNNING"}

\* listRunningInstances: the RUNNING instances of the target's group, asked of
\* the API of its scope.
ListRunning(mig) == {i \in Instances : MigOf[i] = mig /\ status[i] = "RUNNING"}

-------------------------------------------------------------------------------

\* The sample is the first SampleSize elements of a random permutation: any
\* subset of that size.
Prepare(e) ==
  /\ phase[e] = "new"
  /\ LET running == ListRunning(Target[e])
         n == Cardinality(running)
     IN  \E pct \in Percentages, confirmHigh \in BOOLEAN :
           /\ Accepted(n, pct, confirmHigh)
           /\ \E chosen \in SUBSET running :
                /\ Cardinality(chosen) = SampleSize(n, pct)
                /\ sample' = [sample EXCEPT ![e] = chosen]
           /\ listed' = [listed EXCEPT ![e] = running]
           /\ confirm' = [confirm EXCEPT ![e] = confirmHigh]
  /\ phase' = [phase EXCEPT ![e] = "prepared"]
  /\ UNCHANGED <<status, hit, faults, churn>>

\* A parameter or one of the two gates says no, nothing runs, or the listing
\* fails.
PrepareFails(e) ==
  /\ phase[e] = "new"
  /\ \/ /\ \E pct \in Percentages, confirmHigh \in BOOLEAN :
             ~Accepted(Cardinality(ListRunning(Target[e])), pct, confirmHigh)
        /\ UNCHANGED faults
     \/ Fault
  /\ phase' = [phase EXCEPT ![e] = "failed"]
  /\ UNCHANGED <<status, sample, listed, confirm, hit, churn>>

\* The agent sends Start, or sends it again after an error.
MayStart(e) == phase[e] \in {"prepared", "err"} /\ sample[e] # {}

\* RecreateInstances on a whole list: the service takes it only when every
\* instance still belongs to the group.
Recreatable(instances) == \A i \in instances : status[i] # "GONE"

\* A mistake: DeleteInstances is called, which shrinks the group.
Delete(e) ==
  /\ Recreatable(sample[e])
  /\ status' = [i \in Instances |-> IF i \in sample[e] THEN "DELETING" ELSE status[i]]
  /\ hit' = [hit EXCEPT ![e] = [i \in Instances |->
               IF i \in sample[e] THEN hit[e][i] + 1 ELSE hit[e][i]]]

Recreate(e) ==
  /\ Recreatable(sample[e])
  /\ status' = [i \in Instances |-> IF i \in sample[e] THEN "RECREATING" ELSE status[i]]
  /\ hit' = [hit EXCEPT ![e] = [i \in Instances |->
               IF i \in sample[e] THEN hit[e][i] + 1 ELSE hit[e][i]]]

Start(e) ==
  /\ MayStart(e)
  /\ Recreate(e)
  /\ phase' = [phase EXCEPT ![e] = "ok"]
  /\ UNCHANGED <<sample, listed, confirm, faults, churn>>

\* The call took effect, its answer did not arrive.
StartAnswerLost(e) ==
  /\ MayStart(e)
  /\ Fault
  /\ Recreate(e)
  /\ phase' = [phase EXCEPT ![e] = "err"]
  /\ UNCHANGED <<sample, listed, confirm, churn>>

\* A mistake: the error of the call is dropped.
StartFailsUnnoticed(e) ==
  /\ MayStart(e)
  /\ Fault
  /\ phase' = [phase EXCEPT ![e] = "ok"]
  /\ UNCHANGED <<status, sample, listed, confirm, hit, churn>>

\* Refused because the sample is stale, or failed for any other reason.
StartFails(e) ==
  /\ MayStart(e)
  /\ Fault
  /\ phase' = [phase EXCEPT ![e] = "err"]
  /\ UNCHANGED <<status, sample, listed, confirm, hit, churn>>

-------------------------------------------------------------------------------

\* The group finishes recreating an instance: same name, same URL.
Recreated(i) ==
  /\ status[i] = "RECREATING"
  /\ status' = [status EXCEPT ![i] = "RUNNING"]
  /\ UNCHANGED <<phase, sample, listed, confirm, hit, faults, churn>>

\* Autoscaler, repair and operators, at any time.
Churn(i) ==
  /\ churn < MaxChurn
  /\ churn' = churn + 1
  /\ \E s \in {"RUNNING", "GONE"} \ {status[i]} : status' = [status EXCEPT ![i] = s]
  /\ UNCHANGED <<phase, sample, listed, confirm, hit, faults>>

Next ==
  \/ \E e \in Execs :
       Prepare(e) \/ PrepareFails(e) \/ Start(e) \/ StartAnswerLost(e) \/ StartFails(e)
  \/ \E i \in Instances : Recreated(i) \/ Churn(i)

Spec == Init /\ [][Next]_vars

-------------------------------------------------------------------------------
(* Properties                                                                *)

Hits(e) == {i \in Instances : hit[e][i] > 0}

\* However often Start is repeated and whatever happens to the group meanwhile,
\* an execution recreates instances of its own group only, all of which Prepare
\* had found running, and without confirmation no more than half of those.
BlastRadius ==
  \A e \in Execs :
    /\ Hits(e) \subseteq listed[e]
    /\ \A i \in Hits(e) : MigOf[i] = Target[e]
    /\ ~confirm[e] => 2 * Cardinality(Hits(e)) <= Cardinality(listed[e])

\* A Start reported as successful recreated at least one instance, and the whole
\* sample.
SuccessIsComplete ==
  \A e \in Execs : phase[e] = "ok" => Hits(e) # {} /\ Hits(e) = sample[e]

===============================================================================
