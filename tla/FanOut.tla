-------------------------------- MODULE FanOut --------------------------------
(***************************************************************************)
(* ForEveryConfiguredGcpAccess, utils/gcp_access.go: one discovery run     *)
(* asks every configured project for its targets, with a bounded number of *)
(* goroutines.  The caller hands the projects out over accessChan, the     *)
(* workers answer over resultsChan, and the caller returns after it has    *)
(* received one answer per project -- it counts answers, it does not know  *)
(* whose they are.  Both channels are buffered; a send to a full one       *)
(* blocks.                                                                 *)
(*                                                                         *)
(* The targets of a project are represented by the project.                *)
(***************************************************************************)

EXTENDS Integers, Sequences, FiniteSets

CONSTANTS
  AllProjects,    \* every project an operator may configure
  ThreadChoices   \* values of STEADYBIT_EXTENSION_WORKER_THREADS

ASSUME ProjectsAssumption == IsFiniteSet(AllProjects)
ASSUME ThreadsAssumption == ThreadChoices \subseteq Int

VARIABLES
  projects,   \* the configured projects; fixed since startup
  threads,    \* config.Config.WorkerThreads
  caller,     \* where ForEveryConfiguredGcpAccess is
  todo,       \* projects the caller has not sent yet; a map has no order
  access,     \* accessChan
  closed,     \* is accessChan closed?
  wpc,        \* where each worker goroutine is
  job,        \* the access a worker holds
  outcome,    \* what the supplier returned for a project
  results,    \* resultsChan: the projects whose targets (or nil) are in it
  received,   \* answers the caller took from resultsChan
  result      \* the projects whose targets the caller appended

vars == <<projects, threads, caller, todo, access, closed, wpc, job, outcome,
          results, received, result>>

Count == Cardinality(projects)

\* Mistakes about the two numbers: no lower bound on the goroutines, and a
\* buffer per goroutine rather than one per project.
WorkersAsConfigured == IF threads > Count THEN Count ELSE threads
CapacityPerWorker == IF threads < 1 THEN 1 ELSE IF threads > Count THEN Count ELSE threads

\* max(WorkerThreads, 1), and no more than there are projects.
NumWorkers ==
  LET wanted == IF threads < 1 THEN 1 ELSE threads
  IN  IF wanted > Count THEN Count ELSE wanted

\* Capacity of both channels.
Capacity == Count

\* Goroutines there may ever be, the ones not started in this run included.
WorkerIds == 1..Cardinality(AllProjects)

Busy(w) == wpc[w] \in {"collecting", "sending"}
Idle == [w \in WorkerIds |-> "none"]

TypeOK ==
  /\ projects \subseteq AllProjects
  /\ threads \in ThreadChoices
  /\ caller \in {"start", "sending", "receiving", "done"}
  /\ todo \subseteq projects
  /\ access \in Seq(projects)
  /\ closed \in BOOLEAN
  /\ wpc \in [WorkerIds -> {"none", "waiting", "collecting", "sending", "stopped"}]
  /\ job \in [WorkerIds -> SUBSET projects]
  /\ outcome \in [AllProjects -> {"pending", "targets", "nil"}]
  /\ results \in Seq(projects)
  /\ received \in Seq(projects)
  /\ result \in Seq(projects)

Init ==
  /\ projects \in SUBSET AllProjects
  /\ threads \in ThreadChoices
  /\ caller = "start"
  /\ todo = projects
  /\ access = <<>>
  /\ closed = FALSE
  /\ wpc = Idle
  /\ job = [w \in WorkerIds |-> {}]
  /\ outcome = [p \in AllProjects |-> "pending"]
  /\ results = <<>>
  /\ received = <<>>
  /\ result = <<>>

-------------------------------------------------------------------------------
(* The caller                                                                *)

ReturnEmpty ==
  /\ caller = "start"
  /\ projects = {}
  /\ caller' = "done"
  /\ UNCHANGED <<projects, threads, todo, access, closed, wpc, job, outcome,
                 results, received, result>>

\* Both channels are made and the goroutines started.
Launch ==
  /\ caller = "start"
  /\ projects # {}
  /\ wpc' = [w \in WorkerIds |-> IF w <= NumWorkers THEN "waiting" ELSE "none"]
  /\ caller' = "sending"
  /\ UNCHANGED <<projects, threads, todo, access, closed, job, outcome,
                 results, received, result>>

Send(p) ==
  /\ caller = "sending"
  /\ p \in todo
  /\ Len(access) < Capacity
  /\ access' = Append(access, p)
  /\ todo' = todo \ {p}
  /\ UNCHANGED <<projects, threads, caller, closed, wpc, job, outcome,
                 results, received, result>>

Close ==
  /\ caller = "sending"
  /\ todo = {}
  /\ closed' = TRUE
  /\ caller' = "receiving"
  /\ UNCHANGED <<projects, threads, todo, access, wpc, job, outcome,
                 results, received, result>>

\* A mistake: one receive too few.
OneShort == Count - 1

\* The answers the caller waits for.
Expected == Count

\* A nil slice is not appended.
Receive ==
  /\ caller = "receiving"
  /\ Len(received) < Expected
  /\ results # <<>>
  /\ received' = Append(received, Head(results))
  /\ result' = IF outcome[Head(results)] = "targets"
                 THEN Append(result, Head(results)) ELSE result
  /\ results' = Tail(results)
  /\ UNCHANGED <<projects, threads, caller, todo, access, closed, wpc, job, outcome>>

Return ==
  /\ caller = "receiving"
  /\ Len(received) = Expected
  /\ caller' = "done"
  /\ UNCHANGED <<projects, threads, todo, access, closed, wpc, job, outcome,
                 results, received, result>>

-------------------------------------------------------------------------------
(* A worker: for access := range accessChan { ... }                          *)

Take(w) ==
  /\ wpc[w] = "waiting"
  /\ access # <<>>
  /\ job' = [job EXCEPT ![w] = {Head(access)}]
  /\ access' = Tail(access)
  /\ wpc' = [wpc EXCEPT ![w] = "collecting"]
  /\ UNCHANGED <<projects, threads, caller, todo, closed, outcome,
                 results, received, result>>

\* The supplier returns; an error is logged and whatever slice came with it --
\* nil, or the targets found before a partial failure -- is the answer.
Collect(w, p) ==
  /\ wpc[w] = "collecting"
  /\ p \in job[w]
  /\ \E answer \in {"targets", "nil"} : outcome' = [outcome EXCEPT ![p] = answer]
  /\ wpc' = [wpc EXCEPT ![w] = "sending"]
  /\ UNCHANGED <<projects, threads, caller, todo, access, closed, job,
                 results, received, result>>

Answer(w, p) ==
  /\ wpc[w] = "sending"
  /\ p \in job[w]
  /\ Len(results) < Capacity
  /\ results' = Append(results, p)
  /\ job' = [job EXCEPT ![w] = {}]
  /\ wpc' = [wpc EXCEPT ![w] = "waiting"]
  /\ UNCHANGED <<projects, threads, caller, todo, access, closed, outcome,
                 received, result>>

\* The channel is closed and drained.
Exit(w) ==
  /\ wpc[w] = "waiting"
  /\ access = <<>>
  /\ closed
  /\ wpc' = [wpc EXCEPT ![w] = "stopped"]
  /\ UNCHANGED <<projects, threads, caller, todo, access, closed, job, outcome,
                 results, received, result>>

CallerStep ==
  \/ ReturnEmpty \/ Launch \/ Close \/ Receive \/ Return
  \/ \E p \in AllProjects : Send(p)

WorkerStep(w) ==
  \/ Take(w) \/ Exit(w)
  \/ \E p \in AllProjects : Collect(w, p) \/ Answer(w, p)

Next == CallerStep \/ \E w \in WorkerIds : WorkerStep(w)

Spec == Init /\ [][Next]_vars

\* Goroutines are scheduled and every supplier call returns.
FairSpec == Spec /\ WF_vars(CallerStep) /\ \A w \in WorkerIds : WF_vars(WorkerStep(w))

-------------------------------------------------------------------------------
(* Properties                                                                *)

In(p, s) == \E i \in 1..Len(s) : s[i] = p
Distinct(s) == \A i, j \in 1..Len(s) : s[i] = s[j] => i = j

\* Counting Count answers is enough: when the caller returns, every configured
\* project was asked, and the targets of a project are in the result, once, if
\* and only if its supplier returned some.  A project that fails takes no other
\* project's targets with it.
CompleteOnReturn ==
  caller = "done" =>
    /\ \A p \in projects :
         /\ outcome[p] # "pending"
         /\ In(p, result) <=> outcome[p] = "targets"
    /\ Distinct(result)

\* The buffers are large enough that no send ever waits: a slow project cannot
\* hold up the caller or another worker.
SendsNeverBlock ==
  /\ todo # {} => Len(access) < Capacity
  /\ \A w \in WorkerIds : wpc[w] = "sending" => Len(results) < Capacity

\* The discovery returns and no goroutine is left behind.
Terminates ==
  <>(caller = "done" /\ \A w \in WorkerIds : wpc[w] \in {"none", "stopped"})

===============================================================================
