# Verification of extension-gcp

`extension-gcp` lets Steadybit experiments act on Google Cloud: it discovers
targets in the configured projects and runs attacks on them. This directory
holds TLA+ specifications of that program, TLC configurations that check them on
small instances, and theorems that TLAPS checks for every instance.
`PROJECT.json` maps each definition to the lines of code it stands for.

## 1. Inventory

| part | source | state | operations | what is hard about it |
|---|---|---|---|---|
| start-up | `main.go`, `config/config.go`, `utils/gcp_access.go` 27-71 | the configuration and the `projects` map, both written once | parse, validate, build client options per project, register discoveries and actions, install the signal handler, become ready | the order of the steps; which projects survive; discoveries that start as soon as they are registered |
| fan-out | `utils/gcp_access.go` 82-127 | two buffered channels, one goroutine per worker | hand out projects, collect answers, count them | deadlock, lost or doubled answers, odd thread counts |
| Cloud NAT attack | `extnat/nat_attack_disassociate.go` | `CloudNatDisassociateState` with a snapshot, kept by the agent; the router, kept by Compute Engine | Prepare, Start (removeNat), Stop (restoreNat) | read-modify-write of a shared list, operations that are accepted and not awaited, retries, crash of the agent, the signal handler's Stop |
| MIG attack | `extmig/mig_attack_delete_instances.go` | the sampled instances | Prepare, Start | a sample that is stale when used, rounding, two groups of one name |
| node pool attack | `extgke/nodepool_attack_terminate_instances.go` | sampled instances by group | Prepare, Start | several calls per operation, partial failure, repeated Start |
| Cloud SQL failover | `extcloudsql/instance_attack_failover.go` | project and instance name | Prepare, Start | Get and Failover tied by settingsVersion, a gate on a discovered attribute |
| Redis failover | `extmemorystore/redis_attack_failover.go` | name and data protection mode | Prepare, Start | a destructive mode that must not be confused, a gate on a discovered attribute |
| VM state change | `extvm/vm_attack_state.go` | project, zone, name, action | Prepare, Start | names that are reused, operations that are not awaited |
| discoveries | `ext*/..._discovery.go` | none of their own; the discovery kit caches the last result | list, page through, classify, turn into targets, exclude attributes | partial failures inside a project, listings that straddle changes, names and places taken out of paths, ids that must tell resources apart |
| packaging | `charts/`, `linuxpkg/`, `e2e/` | none | templates, scripts, tests | nothing to model |

The agent calls the actions over HTTP: `Prepare` fills the action's state, the
agent keeps it and sends it along with `Start` and `Stop`. The extension itself
remembers nothing between the calls. So everything that is shared between two
executions is in Google Cloud, and every hazard of the attacks comes from what
happens there between two of their calls. The discoveries all go through the
fan-out, whose projects are set once at start-up; what an attack knows of its
target is what a discovery wrote into the target's attributes.

What makes each part correct, in a sentence: start-up never serves half a
configuration; the fan-out returns, and with everything; a project that fails
costs nobody else's targets; an attack hits what was discovered and nothing else,
no more of it than was confirmed, and once per call; a NAT attack puts back what it
took, and touches nothing else.
`PROJECT.json` lists under `hazards` where in the code each of these could go wrong.

## 2. Modules

| module | models | state and actions |
|---|---|---|
| `NatOutage` | nothing in particular: the abstract promise of the NAT attack | which NATs are out, who holds them, and which the service failed to bring back |
| `CloudNat` | `extnat/nat_attack_disassociate.go`, implements `NatOutage` | the router as a function from names to entries; a handler's Get and its Patch are two steps, `pc` and `fetched` hold what is between them; `pending` holds the Patches that were accepted and not carried out, whose operations the code drops; `lost` (ghost) the NATs that stay out because one of those failed when its execution was over; `phase` and `snapshot` are the state the agent keeps |
| `FanOut` | `ForEveryConfiguredGcpAccess`, with arbitrary suppliers | the two channels as sequences, one program counter per goroutine, the caller's loops send by send and receive by receive |
| `Discovery` | `FanOut` with the `getAll...` functions as suppliers: a whole discovery over all projects | for the project a worker holds, the parts (pages, zones, regions, clusters) still to ask for and the targets collected; resources come and go at any step; implements `FanOut` |
| `Sampling` | the arithmetic of the two instance attacks | operators only |
| `MigRecreate` | `extmig/mig_attack_delete_instances.go`, over `Sampling` | status of every instance; a Prepare and a Start of each execution |
| `NodePoolRecreate` | `extgke/nodepool_attack_terminate_instances.go`, over `Sampling` | as above, with one step per group that is listed or called |
| `OneShot` | the abstract promise of an attack without a Stop | stage and number of effects of each execution |
| `Executions` | what the three attacks without a Stop have in common, of the agent: a Prepare, then a Start that may be sent again | phase, Start calls and faults |
| `CloudSqlFailover` | `extcloudsql/instance_attack_failover.go`, over `Executions`, implements `OneShot` | settings with their version; Get and Failover are two steps |
| `RedisFailover` | `extmemorystore/redis_attack_failover.go`, over `Executions`, implements `OneShot` | the operation running on each instance; modes as texts |
| `VmState` | `extvm/vm_attack_state.go`, over `Executions`, implements `OneShot` | which VM has which name and place; operations accepted and not carried out; `place` (ghost) is where the target was discovered; a Start and its call are two steps |
| `Targets` | the `toTarget` functions of all twelve kinds of target, with `getRegion`, `classifyLocation`, `parseScope`, `classifyScope`, `parseServiceName`, `deliveryType` and the loop over authorized networks | operators only: resources as records, targets as sets of pairs of an attribute and its value; paths as sequences of segments |
| `Addressing` | `Prepare` of all six attacks and `GetGcpAccess`, over `Targets` | one target on its way from resource to service call |
| `Startup` | `main.go`, `config/config.go`, `InitializeGcpAccess` | the main goroutine step by step; refreshes, attacks and signals beside it |

`MC...` modules only give constants their values. `...Proofs` modules hold the
theorems. The components meet in Google Cloud or in attributes, never in memory,
so apart from `Discovery`, which puts the listings into the workers of `FanOut`,
they compose by shared assumptions: `Addressing` shows that an attack's
state names the resource that was discovered, and the attack modules start from
there; `Startup` shows that the projects map is constant while `Discovery` and
`GetGcpAccess` read it. `MigRecreate` and `NodePoolRecreate` share `Sampling`.

Variables commented as ghosts record history for the properties; no action of the
code reads them. Operators commented "A mistake" are not part of any behaviour:
each is a variant of the definition that follows it, kept to show that a property
would notice (`mutants` in `PROJECT.json`).

### What is external

The services, the agent and the kits the extension is built on are not in this
repository. They are modelled from how the code uses them: a call takes effect and
is answered, takes effect and is not answered, or fails. RecreateInstances takes a
list only if every instance is still in the group; Failover of Cloud SQL compares
the version; Memorystore runs one operation per instance. Compute Engine carries
operations out later, in any order: so do `VmState` and `CloudNat`, where an accepted
Patch may also fail with nobody to hear of it. A Patch whose list is empty may reach it
without the field, as empty fields are left out of a request, and then changes
nothing: `Written` allows both. RecreateInstances and the two failovers are looked at
up to their acceptance; the code does not wait for them either. Of the agent it is
assumed that Start comes
after a successful Prepare and may be repeated after an error, that no Start
follows a Stop, that Stop may be called after a failed Prepare, and that the state it
keeps may come back with a Redis mode the extension does not know, but not with the
other one of the two it knows, which nothing in the code could tell from a request. How
operators behave is not restricted beyond the bounds, with one exception named in
section 4.

## 3. What the runs show

All bounds are constants that appear in a guard: faults, edits, churn, restarts and
repeated Starts. They cut off repetition, not kinds of events: each value below is
enough for the event to meet every other one, and the theorems of section 5 hold
for every bound. Deadlock is not checked because every one of these systems may
come to rest: executions end, and nothing new is owed. Where coming to rest too early would be
wrong, a liveness property says so.

| run | instance | shows |
|---|---|---|
| `nat` | two executions on one NAT, a sibling NAT beside it, two configurations to tell apart, two faults, one edit; with fairness | when nobody acts on the router between another's Get and the end of the operation it leads to: operators' edits survive, a NAT is out only for an execution that has not ended, an accepted Patch that is not carried out, also after Stop's success, or one that failed; the second Prepare cannot snapshot anything but the intended NAT, `NatOutage` is implemented, and every NAT comes back unless an agent died or an accepted restore failed |
| `nat_lost_restore` | two executions on two NATs of one router, windows overlap, no faults, every Patch is carried out before anybody else acts | **violated**: see section 6 |
| `nat_race` | two executions on one NAT, every window overlaps, Patches are carried out late, in any order or not at all, Stop does not wait for Start, one fault, no edits | a race can lose a NAT and never corrupts or duplicates one |
| `discovery` | every subset of three projects (two parts, one, none), threads -1 and 2, node pools and all other kinds, one fault, one change; with fairness | the fan-out returns, completely, no send waits and the goroutines end; failures cost their own project or cluster only, from the listing to the returned result; no project is published in part |
| `mig` | three zonal instances and a regional one in groups of one name | blast radius, no false success |
| `nodepool` | two groups and a URL that is no zonal group's | blast radius across groups and partial failures, at most once per call |
| `cloudsql` | two executions on an instance that is edited | `settingsVersion` does its work; `OneShot` is implemented |
| `redis` | two executions, unknown modes and modes that became unreadable | nobody's request turns into another mode; `OneShot` is implemented |
| `vm` | one name in two zones, three VMs | what is hit is what is at the place the target was discovered at, and another VM than the target only once that was deleted; every change was requested; `OneShot` is implemented, with an accepted operation as the effect |
| `addressing` | every resource of twelve kinds in two zones and two regions, two projects and two names which are words that occur in paths, every set of excluded attributes, one restart | targets say what is so, no two share an id, and what is attacked is what was discovered, with its own project's access |
| `api_server_mixed` | one project and one name, every cluster with every set of authorized networks | **violated**: see section 6 |
| `startup` | ids with blanks, blank ids and duplicates, up to two per list, one service account, with and without opt-in modules | ready is complete, no refresh sees half the projects, start-up ends |

Why these sizes. Three instances are the fewest on which rounding, the clamp to one
and the second gate all decide something; two groups of one name are the fewest on
which the scope matters. Two projects are the fewest that can lose each other's
targets, and a project of two parts the fewest of which half could be lost. Two
executions are enough for every race: the attacks of a third meet the first two
only through the same shared resource. In `nat` they share a NAT, the harder case,
and the operators edit its sibling; the theorems cover any number of both.
Three projects and two threads make a worker take a second project while another
is still busy; one fault and one change can then fall on any call of any of them.
In `addressing` names recur everywhere, so that an id or an address that
leaves a coordinate out is met. `Startup` needs two entries to
have a duplicate. Symmetry is used where the permuted values occur in no ordered
expression and no liveness property is checked.

## 4. Fairness and assumptions

`Discovery`: weak fairness of the caller and of every goroutine, which the Go
scheduler gives; a goroutine's steps include those of its listing, so every service
call is answered or fails, which the code leaves to the client libraries, as it sets
no deadline of its own. A listing has finitely many parts; that resources come and
go is owed nothing.
`CloudNat`: a call that has begun ends, and an agent that is alive repeats Stop until it
succeeds; the service brings what it accepted to an end, good or bad (an operation of Compute
Engine ends as done, with or without an error). Nothing is owed by Start, operators, signals or
a dead agent. `Startup`:
weak fairness of the main goroutine, which never waits before it listens; a
refresh, an attack or a signal is owed nothing.

`CloudNat` has four switches.

- `WindowsOverlap = FALSE` says that no other writer acts between a Get and its Patch,
  `LateOperations = FALSE` that none acts on the router between an accepted Patch and the end of
  its operation (they may prepare, crash and look at it in between, and the Patch
  may fail). The code guarantees neither: it sends no fingerprint and waits for no
  operation. What is shown under the two is what the attack does apart from these races; the
  run `nat_lost_restore` shows what the first can cost, with the second one off, and
  the run `nat_race` and the theorems `NoDuplicate`, `RacesNeverCorrupt` and
  `OutagesEnd` hold with both races on.
- `EmptyListWritten` says whether a list without entries can be written: `TRUE` allows that and
  its omission from the request, `FALSE` the omission only. The theorems leave it open.
- `StopAwaitsStart` says that the agent waits for Start before it stops.

Operators do not edit the very NAT that an execution is prepared for: the attack promises
to put its snapshot back, over such an edit too.

## 5. What is proved

TLAPS checks the theorems listed under `theorems`, for every value of the constants that meets
the `ASSUME`s of the module. Most of these only say that bounds are natural numbers, that
no-value markers are not values, that projects and the parts of a listing are finitely many and
that functions have their domains. Three say more: `TextAssumption` of `Startup`, that trimming
twice is trimming once, and `NamesAssumption` and `NamingAssumption` of `Targets`, that nothing
has an empty name, that no place is called `locations` or `global`, and that zones are called
after their regions with a letter appended, as the comments of `getRegion` and
`classifyLocation` have it. No assumption keeps projects, clusters or resources from having
each other's names. Each module has an inductive invariant, as no property here is inductive by
itself.

- `CloudNatProofs`: types, no duplicate NAT (all switches free); with no operator
  edits (all switches free) races and late operations can lose a NAT and never corrupt one; with
  `WindowsOverlap` and `LateOperations` false, `RouterAsIntended`, `SnapshotIsIntended` and that
  every step of `CloudNat` is a step of `NatOutage` or a stutter. The invariant says what
  a call in its window holds and what an accepted Patch would write: the router as it still
  is, with the one NAT removed or put back, or, where windows overlap, one that is
  stale but sound. Of `EventuallyAsIntended` everything but the fairness: a NAT is out only while
  an accepted Patch is not carried out, a call is under way, a Stop may begin, its
  agent is dead or its restore failed after it was accepted (`OutagesCanEnd`, with the
  same two switches), and every step leaves fewer to take (`OutagesEnd`, all switches
  free, for finitely many executions).
- `MigRecreateProofs`, `NodePoolRecreateProofs`: first, in the former, the arithmetic of
  `Sampling`, by cases on the clamp and the gates; then blast radius and completeness of
  success. The invariant carries what `Sampling` says of the sample from Prepare to
  the last repeated Start; for node pools also which groups a call has reached.
- `FailoverProofs`, of Cloud SQL: the gate, `NothingSlipsBetween`, that no Start fails over
  twice (`OnePerStart`), and from it that every step is a step of `OneShot` or a
  stutter. The invariant says that a fetched version is at most the instance's, and less
  once it was mutated: so equal versions mean that nothing happened.
  Of Memorystore: types, `ModeAsRequested`, and that every step is a step of `OneShot` or
  a stutter. `ModeAsRequested` rests on the assumption above, that the state
  does not come back with the other known mode. The mode alone is not inductive: the invariant says that the mode an execution
  holds is the one asked for or one that Start will refuse (`Confirmed`), that nothing
  damages it between its check and the request (`Checked`), and that each Start has a number
  under which there is no request yet (`Numbered`), so that a request counts once.
- `DiscoveryProofs`: first `FanOut` with any suppliers, types, `CompleteOnReturn` and
  `SendsNeverBlock`: the invariant puts each project in exactly one place and counts them,
  which bounds both channels. Then that `Discovery` implements `FanOut`, so that all
  this holds of it too, and `LostOnlyToFailure` and `NoHalfProject`: the invariant
  traces a resource that stays, collected, in a part still to come, or in one that failed.
  Last, of `Terminates` everything but the fairness. `NoDeadlock`: until the caller and
  all goroutines are done one of them can go on, for every number of projects and threads;
  the invariant `Attended` says that no worker has stopped before everything was taken
  and that one is there while the caller waits. `EveryStepCounts` and
  `EveryDiscoveryStepCounts`: a natural number, the work left, falls with every step,
  of the fan-out and of a discovery with its calls.
- `VmStateProofs`: types, that what is hit is at the target's place and is the target unless that
  was deleted, that changes are as requested, and
  that every step is a step of `OneShot` or a stutter. The invariant says what
  an address that an execution holds leads to, the target or, once that is deleted,
  whatever took its place; that what is pending was submitted as requested; and that
  the Start which is calling has a number under which nothing was accepted yet.
- `StartupProofs`: `ReadyIsComplete`, `RefreshesSeeAll` and `SignalStopsAttacks`. The
  invariant says for each step of main what it finds done: while the projects are
  collected nobody reads them, afterwards nobody writes them. Then `TrimmedIds`, what
  `trimAndFilter` returns for a list of any length; and from it types and `NothingIsLost`:
  the resolved projects stay partitioned into usable ones, skipped ones and those still
  to be looked at, with no id twice. Last, of `ServesOrDies` everything but the fairness: main
  can always take its next step, the next module to register included (`MainNeverWaits`),
  and each leaves it fewer, while nobody else gives it more (`MainEnds`).
- `AddressingProofs`: all four properties. Two equal ids are taken apart as paths, from
  both ends, which gives equal coordinates, whatever is called like whatever else. For
  each of the twelve kinds it is proved what its target says, and for each of the six attacks
  that what Prepare makes of what the excludes left of it is the address of the resource or
  nothing. The invariant says that the target held is one resource's less its
  excludes, that the address is what Prepare makes of it, and that a refusal without a restart
  has its reason in the target. In `parseServiceName` the last of several equal words
  wins, which is right whatever the project and the service are called; only a place
  called `locations` would be taken wrongly.

Only model-checked: the three liveness properties (`EventuallyAsIntended`, `Terminates`,
`ServesOrDies`), because TLAPS does not reason about fairness or ENABLED here. For each, two
theorems leave only that step to TLC: as long as the goal is not reached somebody for whom
fairness is stated meets the guard of an action, and no behaviour takes infinitely many steps,
or main does not. (Here the bounds matter: a service that goes on failing for ever keeps a Stop
from ever succeeding.) That a guard which is met is an action that is enabled is what TLC
checks. Every invariant, action property and refinement that a passing run checks is a theorem
as well. Induction over data: the library's induction theorems take an operator as a parameter,
which no backend can instantiate; where a loop over a list had to be proved about
(`TrimmedIds`), the induction goes over a set instead, by its least counterexample
(`LeastNumber`, `UpTo`), from well-foundedness of the natural numbers. No module declares a
recursive operator.

## 6. Where code and documentation disagree

- README: "Truly reversible. [...] Re-fetches the router on every patch so concurrent
  edits to other NATs on the same router are preserved." The re-fetch narrows the
  window and does not close it: a Stop answered with success is undone by the Patch
  of another execution on the same router (`nat_lost_restore`). An operator's edit
  of a sibling is lost in the same way.
- The comment over `api-server-open-to-internet` says a control plane counts as restricted only if
  every allowed CIDR is narrow; the loop is content with one (`api_server_mixed`).
  The other direction holds: an open control plane with no network, only wildcards,
  or networks left over in a disabled configuration is published as open
  (`PublishedAsItIs`).

Three more were met in reading and have no run of their own. "Restored at Stop" also says more
than Stop's success does: `restoreNat` drops the operation of its Patch, so success
means that the restore was accepted; if it then fails, the NAT stays out, the execution is
over and nobody tries again (`Lose` of `NatOutage`, `lost` of `CloudNat`, allowed
for in every property of the run `nat`). When the target is the only NAT of its router the
list that Start patches is empty, and a request may leave an empty field out: Start
can report a removal that did not happen (`Written`; no property claims that the NAT is
out after Start). And README says "A MIG without autoscaling
stays undersized until an operator intervenes", but Start calls RecreateInstances,
after which the group itself brings every instance back (`Recreated` in
`MigRecreate`).

## 7. What is not modelled

Descriptions of targets, attributes and actions, and the enrichment rules: constant
tables, evaluated by the platform. Attributes that copy one field of a resource under another
name and that nothing reads, and labels, which are copied likewise. TLS, HTTP and the kits' own
code. Charts, packages and end-to-end tests. A nil scope in the VM listing, which
would end the process (a hazard with a note). Time: deadlines show as failed or
unanswered calls. That blanks around an id of `PROJECTS_ADVANCED` make it a project of
its own, which the service refuses: the model does the same, and nothing in the
repository says otherwise.

## 8. What could follow

1. The VM and node pool attacks on one instance at the same time: a MIG that heals
   what the VM attack deletes (`VmState` beside `MigRecreate`).
2. An abstract order of events for `Startup`, as seen by the agent, and `Startup` proved
   to implement it.
3. A theorem that says exactly what a race in a Get-Patch window of `CloudNat` can cost:
   which NATs can be missing after the last Stop.
