------------------------------- MODULE Discovery -------------------------------
(***************************************************************************)
(* One discovery over all configured projects: the fan-out of FanOut with  *)
(* the getAll... functions as its suppliers.  A project's resources come   *)
(* and go while it is being listed; what the caller returns in the end is  *)
(* what the projects' listings collected, each at its own time.            *)
(*                                                                         *)
(* A project's resources arrive in parts.  For most services (MIG, NAT,    *)
(* disk, VM, Cloud SQL, Redis, Spanner, Pub/Sub, Cloud Run) the parts are  *)
(* the pages, or the zones and regions of an aggregated list, and an error *)
(* on any of them gives the whole project up.  The node pool discovery     *)
(* lists the clusters, then asks each cluster for its pools, and leaves a  *)
(* cluster that fails out.                                                 *)
(***************************************************************************)

EXTENDS FanOut

CONSTANTS
  PartsOf,     \* pages, zones and regions, or clusters, of each project
  Resources,
  PartOf,      \* <<project, part>> of each resource
  MaxFaults,   \* bound: failed service calls
  MaxChurn     \* bound: resources that appear or disappear

Parts == UNION {PartsOf[p] : p \in AllProjects}

ASSUME PartOfAssumption ==
  /\ PartOf \in [Resources -> AllProjects \X Parts]
  /\ \A r \in Resources : PartOf[r][2] \in PartsOf[PartOf[r][1]]
ASSUME PartsAssumption == \A p \in AllProjects : IsFiniteSet(PartsOf[p])
ASSUME BoundsAssumption == MaxFaults \in Nat /\ MaxChurn \in Nat

VARIABLES
  nested,      \* is this the node pool discovery
  exists,      \* the resources there are
  begun,       \* projects whose first call was answered
  parts,       \* parts not asked for yet, of each project
  targets,     \* what the project's listing has collected
  before,      \* ghost: resources that have been there since the listing began
  left,        \* ghost: parts of each project whose listing failed
  faults, churn

listing == <<nested, exists, begun, parts, targets, before, left, faults, churn>>

Of(p) == {r \in Resources : PartOf[r][1] = p}
InAnyProject(p, s) == {r \in Resources : PartOf[r][2] = s}  \* a mistake
InPart(p, s) == {r \in Resources : PartOf[r] = <<p, s>>}

DiscoveryTypeOK ==
  /\ TypeOK
  /\ nested \in BOOLEAN
  /\ exists \subseteq Resources
  /\ begun \subseteq projects
  /\ parts \in [AllProjects -> SUBSET Parts]
  /\ targets \in [AllProjects -> SUBSET Resources]
  /\ \A p \in AllProjects : targets[p] \subseteq Of(p)
  /\ before \in [AllProjects -> SUBSET Resources]
  /\ left \in [AllProjects -> SUBSET Parts]
  /\ faults \in 0..MaxFaults
  /\ churn \in 0..MaxChurn

DiscoveryInit ==
  /\ Init
  /\ nested \in BOOLEAN
  /\ exists \in SUBSET Resources
  /\ begun = {}
  /\ parts = [p \in AllProjects |-> {}]
  /\ targets = [p \in AllProjects |-> {}]
  /\ before = [p \in AllProjects |-> {}]
  /\ left = [p \in AllProjects |-> {}]
  /\ faults = 0
  /\ churn = 0

Fault == faults < MaxFaults /\ faults' = faults + 1

-------------------------------------------------------------------------------
(* The supplier, called by the worker that holds the project                 *)

Calls(w, p) == wpc[w] = "collecting" /\ p \in job[w]

\* The clusters a project has: those with a node pool, for an empty one shows in
\* no result.
Clusters(p) == {s \in PartsOf[p] : InPart(p, s) \cap exists # {}}

\* The first call.  The node pool discovery learns the clusters from it and asks
\* for no other later.
Begin(w, p) ==
  /\ Calls(w, p)
  /\ p \notin begun
  /\ begun' = begun \cup {p}
  /\ parts' = [parts EXCEPT ![p] = IF nested THEN Clusters(p) ELSE PartsOf[p]]
  /\ before' = [before EXCEPT ![p] = exists \cap Of(p)]
  /\ UNCHANGED <<vars, nested, exists, targets, left, faults, churn>>

ListPart(w, p) ==
  /\ Calls(w, p)
  /\ \E s \in parts[p] :
       /\ targets' = [targets EXCEPT ![p] = @ \cup (InPart(p, s) \cap exists)]
       /\ parts' = [parts EXCEPT ![p] = @ \ {s}]
  /\ UNCHANGED <<vars, nested, exists, begun, before, left, faults, churn>>

Rest(p, s) == parts[p]  \* a mistake: a failed cluster ends the loop
Failed(p, s) == {s}

\* The node pools of one cluster cannot be listed: the loop goes on.
SkipCluster(w, p) ==
  /\ Calls(w, p)
  /\ nested
  /\ Fault
  /\ \E s \in parts[p] :
       /\ parts' = [parts EXCEPT ![p] = @ \ Failed(p, s)]
       /\ left' = [left EXCEPT ![p] = @ \cup {s}]
  /\ UNCHANGED <<vars, nested, exists, begun, targets, before, churn>>

\* The slice is returned.
Succeeds(w, p) ==
  /\ Collect(w, p)
  /\ outcome'[p] = "targets"
  /\ p \in begun
  /\ parts[p] = {}
  /\ UNCHANGED listing

\* A mistake: what was collected is returned along with the error.
WhatWasCollected(p) == IF targets[p] # {} THEN "targets" ELSE "nil"
OnError(p) == "nil"

\* The client cannot be created, or a page or the list of the clusters fails.
Fails(w, p) ==
  /\ Collect(w, p)
  /\ outcome'[p] = OnError(p)
  /\ p \notin begun \/ (~nested /\ parts[p] # {})
  /\ Fault
  /\ UNCHANGED <<nested, exists, begun, parts, targets, before, left, churn>>

\* A resource appears or disappears.
Churn(r) ==
  /\ churn < MaxChurn
  /\ churn' = churn + 1
  /\ exists' = IF r \in exists THEN exists \ {r} ELSE exists \cup {r}
  /\ before' = [before EXCEPT ![PartOf[r][1]] = @ \ {r}]
  /\ UNCHANGED <<vars, nested, begun, parts, targets, left, faults>>

Supplier(w, p) ==
  Begin(w, p) \/ ListPart(w, p) \/ SkipCluster(w, p) \/ Succeeds(w, p) \/ Fails(w, p)

DiscoveryWorkerStep(w) ==
  \/ (Take(w) \/ Exit(w)) /\ UNCHANGED listing
  \/ \E p \in AllProjects : Answer(w, p) /\ UNCHANGED listing
  \/ \E p \in AllProjects : Supplier(w, p)

DiscoveryNext ==
  \/ CallerStep /\ UNCHANGED listing
  \/ \E w \in WorkerIds : DiscoveryWorkerStep(w)
  \/ \E r \in Resources : Churn(r)

discoveryVars == <<vars, listing>>

DiscoverySpec == DiscoveryInit /\ [][DiscoveryNext]_discoveryVars

\* Goroutines are scheduled, and a service call returns or fails.
FairDiscoverySpec ==
  /\ DiscoverySpec
  /\ WF_discoveryVars(CallerStep /\ UNCHANGED listing)
  /\ \A w \in WorkerIds : WF_discoveryVars(DiscoveryWorkerStep(w))

-------------------------------------------------------------------------------
(* Properties                                                                *)

\* What DiscoverTargets returns: the slices the caller appended.
Published == UNION {targets[result[i]] : i \in 1..Len(result)}

\* Failures are contained, from one end to the other: a resource that was there
\* all the time is published unless its own project failed, or, for node pools,
\* its own cluster -- whatever the other projects, the workers and the channels
\* did.
LostOnlyToFailure ==
  caller = "done" => \A p \in projects : outcome[p] = "targets" =>
    \A r \in before[p] : r \in Published \/ PartOf[r][2] \in left[p]

\* A project is never published in part: a listing that did not get to its end
\* publishes nothing of what it collected, and only of the node pools can a whole
\* cluster be missing.
NoHalfProject ==
  caller = "done" => \A p \in projects :
    /\ parts[p] # {} => Published \cap Of(p) = {}
    /\ left[p] # {} => nested /\ \A s \in left[p] : Published \cap InPart(p, s) = {}

===============================================================================
