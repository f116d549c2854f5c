--------------------------- MODULE NodePoolRecreate ---------------------------
(***************************************************************************)
(* The GKE node pool attack, extgke/nodepool_attack_terminate_instances.go. *)
(* A node pool is backed by several managed instance groups.  Prepare asks *)
(* for them afresh and lists them one after the other; Start sends one     *)
(* RecreateInstances call per group that has sampled nodes, in the order a *)
(* Go map happens to yield, and gives up at the first error.  The service  *)
(* may change between any two of these calls, and an agent that repeats    *)
(* Start begins again with the first group.                                *)
(***************************************************************************)

EXTENDS Sampling, FiniteSets

CONSTANTS
  Instances,    \* instance URLs
  Groups,       \* InstanceGroupUrls of the node pool
  ZonalGroups,  \* the ones parseZonalMIGUrl understands
  GroupOf,      \* the group of each instance
  Execs,        \* attack executions on the node pool
  Percentages,  \* values of the "percentage" parameter
  MaxFaults,    \* bound: failed service calls
  MaxChurn      \* bound: changes of an instance that no attack makes

ASSUME GroupAssumption == ZonalGroups \subseteq Groups /\ GroupOf \in [Instances -> Groups]
ASSUME InstancesAssumption == IsFiniteSet(Instances)
ASSUME ParameterAssumption ==
  Percentages \subseteq Int /\ MaxFaults \in Nat /\ MaxChurn \in Nat

VARIABLES
  status,    \* of each instance, as ListManagedInstances reports it
  phase,     \* where each execution is
  todo,      \* groups the running Prepare has to list, or Start to call
  pct,       \* state.Percentage
  confirm,   \* the "confirmHighImpact" parameter
  listed,    \* allInstances
  sample,    \* the instances of state.InstancesByMig
  hit,       \* ghost: how often an execution had an instance recreated
  calls,     \* Start calls of an execution
  faults, churn

vars == <<status, phase, todo, pct, confirm, listed, sample, hit, calls, faults, churn>>

Phases == {"new", "listing", "failed", "prepared", "calling", "err", "ok"}

TypeOK ==
  /\ status \in [Instances -> {"RUNNING", "RECREATING", "GONE"}]
  /\ phase \in [Execs -> Phases]
  /\ todo \in [Execs -> SUBSET ZonalGroups]
  /\ pct \in [Execs -> 0..100]
  /\ confirm \in [Execs -> BOOLEAN]
  /\ listed \in [Execs -> SUBSET Instances]
  /\ sample \in [Execs -> SUBSET Instances]
  /\ hit \in [Execs -> [Instances -> Nat]]
  /\ calls \in [Execs -> Nat]
  /\ faults \in 0..MaxFaults
  /\ churn \in 0..MaxChurn

Init ==
  /\ status \in [Instances -> {"RUNNING", "GONE"}]
  /\ phase = [e \in Execs |-> "new"]
  /\ todo = [e \in Execs |-> {}]
  /\ pct = [e \in Execs |-> 0]
  /\ confirm = [e \in Execs |-> FALSE]
  /\ listed = [e \in Execs |-> {}]
  /\ sample = [e \in Execs |-> {}]
  /\ hit = [e \in Execs |-> [i \in Instances |-> 0]]
  /\ calls = [e \in Execs |-> 0]
  /\ faults = 0
  /\ churn = 0

Fault == faults < MaxFaults /\ faults' = faults + 1
Goto(e, to) == phase' = [phase EXCEPT ![e] = to]

-------------------------------------------------------------------------------
(* Prepare                                                                   *)

\* parseZonalMIGUrl
ParsesAsZonal(g) == g \in ZonalGroups

\* A mistake: the URL is not parsed before its group is listed.
BeginPrepareUnparsed(e, p, confirmHigh) ==
  /\ phase[e] = "new"
  /\ ValidPercentage(p) /\ RequestAllowed(p, confirmHigh)
  /\ pct' = [pct EXCEPT ![e] = p]
  /\ confirm' = [confirm EXCEPT ![e] = confirmHigh]
  /\ todo' = [todo EXCEPT ![e] = Groups]
  /\ Goto(e, "listing")
  /\ UNCHANGED <<status, listed, sample, hit, calls, faults, churn>>

\* The parameters pass; the groups are fetched and the odd URL is skipped.
BeginPrepare(e, p, confirmHigh) ==
  /\ phase[e] = "new"
  /\ ValidPercentage(p) /\ RequestAllowed(p, confirmHigh)
  /\ Groups # {}
  /\ pct' = [pct EXCEPT ![e] = p]
  /\ confirm' = [confirm EXCEPT ![e] = confirmHigh]
  /\ todo' = [todo EXCEPT ![e] = {g \in Groups : ParsesAsZonal(g)}]
  /\ Goto(e, "listing")
  /\ UNCHANGED <<status, listed, sample, hit, calls, faults, churn>>

\* A parameter is refused, or the node pool cannot be described.
PrepareFails(e) ==
  /\ phase[e] = "new"
  /\ \/ /\ \E p \in Percentages, confirmHigh \in BOOLEAN :
             ~(ValidPercentage(p) /\ RequestAllowed(p, confirmHigh))
        /\ UNCHANGED faults
     \/ Fault
  /\ Goto(e, "failed")
  /\ UNCHANGED <<status, todo, pct, confirm, listed, sample, hit, calls, churn>>

\* One iteration of the loop over InstanceGroupUrls.
ListGroup(e, g) ==
  /\ phase[e] = "listing"
  /\ g \in todo[e]
  /\ listed' = [listed EXCEPT ![e] =
       @ \cup {i \in Instances : GroupOf[i] = g /\ status[i] = "RUNNING"}]
  /\ todo' = [todo EXCEPT ![e] = @ \ {g}]
  /\ UNCHANGED <<status, phase, pct, confirm, sample, hit, calls, faults, churn>>

ListFails(e) ==
  /\ phase[e] = "listing"
  /\ todo[e] # {}
  /\ Fault
  /\ todo' = [todo EXCEPT ![e] = {}]
  /\ Goto(e, "failed")
  /\ UNCHANGED <<status, pct, confirm, listed, sample, hit, calls, churn>>

\* Everything is listed: draw the sample, any subset of the right size.
Draw(e) ==
  /\ phase[e] = "listing"
  /\ todo[e] = {}
  /\ LET n == Cardinality(listed[e])
     IN  /\ Accepted(n, pct[e], confirm[e])
         /\ \E chosen \in SUBSET listed[e] :
              /\ Cardinality(chosen) = SampleSize(n, pct[e])
              /\ sample' = [sample EXCEPT ![e] = chosen]
  /\ Goto(e, "prepared")
  /\ UNCHANGED <<status, todo, pct, confirm, listed, hit, calls, faults, churn>>

\* Nothing runs, or the sample would be more than half without confirmation.
DrawRefused(e) ==
  /\ phase[e] = "listing"
  /\ todo[e] = {}
  /\ ~Accepted(Cardinality(listed[e]), pct[e], confirm[e])
  /\ Goto(e, "failed")
  /\ UNCHANGED <<status, todo, pct, confirm, listed, sample, hit, calls, faults, churn>>

-------------------------------------------------------------------------------
(* Start                                                                     *)

\* state.InstancesByMig
InstancesByMig(e, g) == {i \in sample[e] : GroupOf[i] = g}

BeginStart(e) ==
  /\ phase[e] \in {"prepared", "err"}
  /\ sample[e] # {}
  /\ todo' = [todo EXCEPT ![e] = {g \in Groups : InstancesByMig(e, g) # {}}]
  /\ calls' = [calls EXCEPT ![e] = @ + 1]
  /\ Goto(e, "calling")
  /\ UNCHANGED <<status, pct, confirm, listed, sample, hit, faults, churn>>

\* The service takes a list only when all of it still belongs to the group.
Recreate(e, g) ==
  /\ \A i \in InstancesByMig(e, g) : status[i] # "GONE"
  /\ status' = [i \in Instances |->
       IF i \in InstancesByMig(e, g) THEN "RECREATING" ELSE status[i]]
  /\ hit' = [hit EXCEPT ![e] = [i \in Instances |->
       IF i \in InstancesByMig(e, g) THEN hit[e][i] + 1 ELSE hit[e][i]]]

RecreateGroup(e, g) ==
  /\ phase[e] = "calling"
  /\ g \in todo[e]
  /\ Recreate(e, g)
  /\ todo' = [todo EXCEPT ![e] = @ \ {g}]
  /\ UNCHANGED <<phase, pct, confirm, listed, sample, calls, faults, churn>>

\* Two mistakes: a failed call is skipped, or sent again at once.
RecreateGroupSkipped(e, g) ==
  /\ phase[e] = "calling"
  /\ g \in todo[e]
  /\ Fault
  /\ todo' = [todo EXCEPT ![e] = @ \ {g}]
  /\ UNCHANGED <<status, phase, pct, confirm, listed, sample, hit, calls, churn>>

RecreateGroupResent(e, g) ==
  /\ phase[e] = "calling"
  /\ g \in todo[e]
  /\ Fault
  /\ Recreate(e, g)
  /\ UNCHANGED <<phase, todo, pct, confirm, listed, sample, calls, churn>>

\* The first error ends Start: the remaining groups are not called, the ones
\* called before stay recreated.  The failing call itself may have taken effect.
RecreateGroupFails(e, g) ==
  /\ phase[e] = "calling"
  /\ g \in todo[e]
  /\ Fault
  /\ Recreate(e, g) \/ UNCHANGED <<status, hit>>
  /\ todo' = [todo EXCEPT ![e] = {}]
  /\ Goto(e, "err")
  /\ UNCHANGED <<pct, confirm, listed, sample, calls, churn>>

StartReturns(e) ==
  /\ phase[e] = "calling"
  /\ todo[e] = {}
  /\ Goto(e, "ok")
  /\ UNCHANGED <<status, todo, pct, confirm, listed, sample, hit, calls, faults, churn>>

-------------------------------------------------------------------------------
(* The node pool lives on                                                    *)

\* A group finishes recreating an instance: same name, same URL.
Recreated(i) ==
  /\ status[i] = "RECREATING"
  /\ status' = [status EXCEPT ![i] = "RUNNING"]
  /\ UNCHANGED <<phase, todo, pct, confirm, listed, sample, hit, calls, faults, churn>>

\* Autoscaler, repair, upgrades and operators, at any time.
Churn(i) ==
  /\ churn < MaxChurn
  /\ churn' = churn + 1
  /\ \E s \in {"RUNNING", "GONE"} \ {status[i]} : status' = [status EXCEPT ![i] = s]
  /\ UNCHANGED <<phase, todo, pct, confirm, listed, sample, hit, calls, faults>>

ExecStep(e) ==
  \/ \E p \in Percentages, confirmHigh \in BOOLEAN : BeginPrepare(e, p, confirmHigh)
  \/ PrepareFails(e) \/ ListFails(e) \/ Draw(e) \/ DrawRefused(e)
  \/ BeginStart(e) \/ StartReturns(e)
  \/ \E g \in Groups : ListGroup(e, g) \/ RecreateGroup(e, g) \/ RecreateGroupFails(e, g)

Next ==
  \/ \E e \in Execs : ExecStep(e)
  \/ \E i \in Instances : Recreated(i) \/ Churn(i)

Spec == Init /\ [][Next]_vars

-------------------------------------------------------------------------------
(* Properties                                                                *)

Hits(e) == {i \in Instances : hit[e][i] > 0}

\* Groups are listed and called one by one while the pool changes, and Start is
\* repeated after partial failures: still an execution recreates only nodes its
\* Prepare had found running, and without confirmation at most half of them.
BlastRadius ==
  \A e \in Execs :
    /\ Hits(e) \subseteq sample[e] /\ sample[e] \subseteq listed[e]
    /\ ~confirm[e] => 2 * Cardinality(Hits(e)) <= Cardinality(listed[e])

\* A Start reported as successful has reached every sampled node of every group,
\* whatever failed in earlier attempts, and there was at least one.
SuccessIsComplete ==
  \A e \in Execs : phase[e] = "ok" => Hits(e) # {} /\ Hits(e) = sample[e]

\* Start is not idempotent -- a repeated Start recreates nodes again -- but one
\* Start call recreates a node at most once.
OncePerCall == \A e \in Execs, i \in Instances : hit[e][i] <= calls[e]

===============================================================================
