---------------------------- MODULE DiscoveryProofs ----------------------------
(***************************************************************************)
(* What holds of FanOut and of Discovery for every finite set of projects, *)
(* every value of STEADYBIT_EXTENSION_WORKER_THREADS, and any parts,       *)
(* resources, faults and churn.                                            *)
(***************************************************************************)

EXTENDS Discovery, FiniteSetTheorems, TLAPS

USE ProjectsAssumption, ThreadsAssumption

-------------------------------------------------------------------------------
(* Channels without repetitions.                                             *)

\* Sending p on a channel that does not hold it.
LEMMA AppendDistinct ==
  ASSUME NEW S, NEW s \in Seq(S), NEW p \in S
  PROVE  /\ Append(s, p) \in Seq(S)
         /\ \A q : In(q, Append(s, p)) <=> In(q, s) \/ q = p
         /\ Distinct(s) /\ ~In(p, s) => Distinct(Append(s, p))
<1>1. Append(s, p) \in Seq(S) /\ Len(Append(s, p)) = Len(s) + 1
  OBVIOUS
<1>2. /\ Append(s, p)[Len(s) + 1] = p
      /\ \A i \in 1..Len(s) : Append(s, p)[i] = s[i]
  OBVIOUS
<1>3. Len(s) \in Nat
  OBVIOUS
<1>4. \A q : In(q, Append(s, p)) <=> In(q, s) \/ q = p
  BY <1>1, <1>2, <1>3 DEF In
<1>5. Distinct(s) /\ ~In(p, s) => Distinct(Append(s, p))
  BY <1>1, <1>2, <1>3 DEF Distinct, In
<1> QED BY <1>1, <1>4, <1>5

\* Receiving from a channel that is not empty.
LEMMA TailDistinct ==
  ASSUME NEW S, NEW s \in Seq(S), s # <<>>, Distinct(s)
  PROVE  /\ Head(s) \in S /\ Tail(s) \in Seq(S)
         /\ \A q : In(q, s) <=> q = Head(s) \/ In(q, Tail(s))
         /\ ~In(Head(s), Tail(s))
         /\ Distinct(Tail(s))
<1>1. /\ Tail(s) \in Seq(S) /\ Len(Tail(s)) = Len(s) - 1
      /\ Len(s) \in Nat /\ Len(s) >= 1
      /\ Head(s) = s[1] /\ s[1] \in S
  OBVIOUS
<1>2. \A i \in 1..Len(Tail(s)) : Tail(s)[i] = s[i + 1] /\ i + 1 \in 1..Len(s) /\ i + 1 # 1
  BY <1>1
<1>3. \A i \in 2..Len(s) : s[i] = Tail(s)[i - 1] /\ i - 1 \in 1..Len(Tail(s))
  BY <1>1, <1>2
<1>4. \A q : In(q, s) <=> q = Head(s) \/ In(q, Tail(s))
  <2>1. ASSUME NEW q, In(q, s), q # Head(s) PROVE In(q, Tail(s))
    BY <1>1, <1>3, <2>1 DEF In
  <2>2. ASSUME NEW q, In(q, Tail(s)) PROVE In(q, s)
    BY <1>2, <2>2 DEF In
  <2>3. In(Head(s), s)
    BY <1>1 DEF In
  <2> QED BY <2>1, <2>2, <2>3
<1>5. ~In(Head(s), Tail(s))
  <2>1. ASSUME NEW i \in 1..Len(Tail(s)), Tail(s)[i] = Head(s) PROVE FALSE
    <3>1. s[i + 1] = s[1] /\ i + 1 \in 1..Len(s) /\ 1 \in 1..Len(s) /\ i + 1 # 1
      BY <1>1, <1>2, <2>1
    <3> QED BY <3>1 DEF Distinct
  <2> QED BY <2>1 DEF In
<1>6. Distinct(Tail(s))
  <2>1. ASSUME NEW i \in 1..Len(Tail(s)), NEW j \in 1..Len(Tail(s)), Tail(s)[i] = Tail(s)[j]
        PROVE  i = j
    <3>1. i + 1 = j + 1
      BY <1>2, <2>1 DEF Distinct
    <3> QED BY <1>1, <3>1
  <2> QED BY <2>1 DEF Distinct
<1> QED BY <1>1, <1>4, <1>5, <1>6

\* A channel without repetitions is no longer than there are projects, and
\* holds all of them exactly when it is as long.
LEMMA Counting ==
  ASSUME NEW S, IsFiniteSet(S), NEW s \in Seq(S), Distinct(s)
  PROVE  /\ Len(s) <= Cardinality(S)
         /\ Len(s) = Cardinality(S) <=> \A p \in S : In(p, s)
<1>1. s \in [1..Len(s) -> S] /\ Len(s) \in Nat
  OBVIOUS
<1>2. s \in Injection(1..Len(s), S)
  BY <1>1 DEF Injection, IsInjective, Distinct
<1>3. Cardinality(1..Len(s)) = Len(s)
  <2>1. 1 \in Int /\ Len(s) \in Int
    BY <1>1
  <2>2. Cardinality(1..Len(s)) = IF 1 > Len(s) THEN 0 ELSE Len(s) - 1 + 1
    BY <2>1, FS_Interval
  <2> QED BY <1>1, <2>2
<1>4. /\ Len(s) <= Cardinality(S)
      /\ Len(s) = Cardinality(S) <=> s \in Surjection(1..Len(s), S)
  BY <1>2, <1>3, FS_Injection
<1>5. s \in Surjection(1..Len(s), S) <=> \A p \in S : In(p, s)
  BY <1>1 DEF Surjection, In
<1> QED BY <1>4, <1>5

\* The configured projects are finitely many.
LEMMA FiniteProjects ==
  ASSUME projects \subseteq AllProjects
  PROVE  IsFiniteSet(projects) /\ Count \in Nat
BY FS_Subset, FS_CardinalityType DEF Count

-------------------------------------------------------------------------------
(* The fan-out: every project is in one place.                               *)

Sent(p) == In(p, access)
Taken(p) == \E w \in WorkerIds : p \in job[w]
Answered(p) == In(p, results)
Received(p) == In(p, received)

\* The places exclude each other, and none holds a project twice.
Exclusive ==
  /\ \A p \in projects :
       /\ p \in todo => ~Sent(p) /\ ~Taken(p) /\ ~Answered(p) /\ ~Received(p)
       /\ Sent(p) => ~Taken(p) /\ ~Answered(p) /\ ~Received(p)
       /\ Taken(p) => ~Answered(p) /\ ~Received(p)
       /\ Answered(p) => ~Received(p)
  /\ Distinct(access) /\ Distinct(results) /\ Distinct(received)
  /\ \A v, w \in WorkerIds : \A p \in job[v] \cap job[w] : v = w
  /\ \A w \in WorkerIds : Busy(w) <=> job[w] # {}
  /\ \A w \in WorkerIds : \A p, q \in job[w] : p = q

\* A project's supplier was called once the project left its worker's hands,
\* or when the worker is about to answer.
Outcomes ==
  /\ \A p \in projects : Answered(p) \/ Received(p) => outcome[p] # "pending"
  /\ \A w \in WorkerIds : \A p \in job[w] :
       wpc[w] = "sending" => outcome[p] # "pending"

\* What the caller appended is what it received targets for.
ResultSoFar ==
  /\ Distinct(result)
  /\ \A p \in projects : In(p, result) <=> Received(p) /\ outcome[p] = "targets"

\* There are no goroutines before Launch, and the caller is done only after
\* Count answers.
CallerSteps ==
  /\ caller = "start" => \A w \in WorkerIds : wpc[w] = "none"
  /\ caller = "done" => Len(received) = Count

PlaceInv == TypeOK /\ Exclusive /\ Outcomes /\ ResultSoFar /\ CallerSteps

\* At first every project is still to be sent.
LEMMA PlaceInit == Init => PlaceInv
<1> SUFFICES ASSUME Init PROVE PlaceInv
  OBVIOUS
<1>1. \A p : ~In(p, <<>>)
  BY DEF In
<1>2. Distinct(<<>>)
  BY DEF Distinct
<1>3. TypeOK
  <2>1. <<>> \in Seq(projects)
    OBVIOUS
  <2>2. job \in [WorkerIds -> SUBSET projects]
    BY DEF Init
  <2>3. outcome \in [AllProjects -> {"pending", "targets", "nil"}]
    BY DEF Init
  <2>4. wpc \in [WorkerIds -> {"none", "waiting", "collecting", "sending", "stopped"}]
    BY DEF Init, Idle
  <2> QED BY <2>1, <2>2, <2>3, <2>4 DEF Init, TypeOK
<1> QED
  BY <1>1, <1>2, <1>3
  DEF Init, PlaceInv, Exclusive, Outcomes, ResultSoFar, CallerSteps, Idle,
      Sent, Taken, Answered, Received, Busy

\* Each step moves a project from one place to the next.
LEMMA PlaceNext == PlaceInv /\ [Next]_vars => PlaceInv'
<1> SUFFICES ASSUME PlaceInv, [Next]_vars PROVE PlaceInv'
  OBVIOUS
<1>0. TypeOK /\ Exclusive /\ Outcomes /\ ResultSoFar /\ CallerSteps
  BY DEF PlaceInv
<1>1. CASE ReturnEmpty
  <2>1. Count = 0 /\ received = <<>>
    <3>1. Count = 0
      BY <1>1, FS_EmptySet DEF ReturnEmpty, Count
    <3>2. received \in Seq({})
      BY <1>0, <1>1 DEF TypeOK, ReturnEmpty
    <3> QED BY <3>1, <3>2
  <2>2. CallerSteps'
    BY <1>1, <2>1 DEF ReturnEmpty, CallerSteps, Count, Expected
  <2> QED
    BY <1>0, <1>1, <2>2
    DEF ReturnEmpty, PlaceInv, TypeOK, Exclusive, Outcomes, ResultSoFar,
        Sent, Taken, Answered, Received, Busy
<1>2. CASE Launch
  <2>1. \A w \in WorkerIds : wpc'[w] \in {"none", "waiting"}
    BY <1>2 DEF Launch
  <2>2. TypeOK'
    BY <1>0, <1>2 DEF Launch, TypeOK
  <2> QED
    BY <1>0, <1>2, <2>1, <2>2
    DEF Launch, PlaceInv, Exclusive, Outcomes, ResultSoFar, CallerSteps,
        Sent, Taken, Answered, Received, Busy, Count
<1>3. ASSUME NEW p \in AllProjects, Send(p) PROVE PlaceInv'
  <2>1. p \in projects /\ access \in Seq(projects)
    BY <1>0, <1>3 DEF Send, TypeOK
  <2>2. TypeOK'
    BY <1>0, <1>3, <2>1, AppendDistinct DEF Send, TypeOK
  <2>3. \A q : Sent(q)' <=> Sent(q) \/ q = p
    BY <1>3, <2>1, AppendDistinct DEF Send, Sent
  <2>4. Distinct(access')
    BY <1>0, <1>3, <2>1, AppendDistinct DEF Send, Sent, Exclusive
  <2> QED
    BY <1>0, <1>3, <2>2, <2>3, <2>4
    DEF Send, PlaceInv, Exclusive, Outcomes, ResultSoFar, CallerSteps,
        Taken, Answered, Received, Busy, Count
<1>4. CASE Close
  BY <1>0, <1>4
  DEF Close, PlaceInv, TypeOK, Exclusive, Outcomes, ResultSoFar, CallerSteps,
      Sent, Taken, Answered, Received, Busy, Count
<1>5. CASE Receive
  <2>0. Head(results) \in projects
    BY <1>0, <1>5, TailDistinct DEF Receive, TypeOK, Exclusive
  <2>9. PICK p \in projects : p = Head(results)
    BY <2>0
  <2>1. /\ p \in projects /\ Tail(results) \in Seq(projects)
        /\ \A q : In(q, results) <=> q = p \/ In(q, Tail(results))
        /\ ~In(p, Tail(results)) /\ Distinct(Tail(results))
    BY <2>9, <1>0, <1>5, TailDistinct DEF Receive, TypeOK, Exclusive
  <2>2. Answered(p) /\ ~Received(p) /\ outcome[p] # "pending" /\ ~In(p, result)
    BY <1>0, <2>1 DEF Answered, Exclusive, Outcomes, ResultSoFar
  <2>3. /\ \A q : Received(q)' <=> Received(q) \/ q = p
        /\ Distinct(received')
        /\ received' \in Seq(projects)
    BY <2>9, <1>0, <1>5, <2>1, <2>2, AppendDistinct DEF Receive, TypeOK, Exclusive, Received
  <2>4. \A q : Answered(q) <=> Answered(q)' \/ q = p
    BY <2>9, <1>5, <2>1 DEF Receive, Answered
  <2>5. ~Answered(p)' /\ Distinct(results') /\ results' \in Seq(projects)
    BY <2>9, <1>5, <2>1 DEF Receive, Answered
  <2>6. CASE outcome[p] = "targets"
    <3>1. /\ \A q : In(q, result') <=> In(q, result) \/ q = p
          /\ Distinct(result') /\ result' \in Seq(projects)
      BY <2>9, <1>0, <1>5, <2>1, <2>2, <2>6, AppendDistinct
      DEF Receive, TypeOK, ResultSoFar
    <3> QED
      BY <1>0, <1>5, <2>1, <2>2, <2>3, <2>4, <2>5, <2>6, <3>1
      DEF Receive, PlaceInv, TypeOK, Exclusive, Outcomes, ResultSoFar, CallerSteps,
          Sent, Taken, Busy
  <2>7. CASE outcome[p] # "targets"
    <3>1. result' = result
      BY <2>9, <1>5, <2>7 DEF Receive
    <3> QED
      BY <1>0, <1>5, <2>1, <2>2, <2>3, <2>4, <2>5, <2>7, <3>1
      DEF Receive, PlaceInv, TypeOK, Exclusive, Outcomes, ResultSoFar, CallerSteps,
          Sent, Taken, Busy
  <2> QED BY <2>6, <2>7
<1>6. CASE Return
  BY <1>0, <1>6
  DEF Return, PlaceInv, TypeOK, Exclusive, Outcomes, ResultSoFar, CallerSteps,
      Sent, Taken, Answered, Received, Busy, Count, Expected
<1>7. ASSUME NEW w \in WorkerIds, Take(w) PROVE PlaceInv'
  <2>0. Head(access) \in projects
    BY <1>0, <1>7, TailDistinct DEF Take, TypeOK, Exclusive
  <2>9. PICK p \in projects : p = Head(access)
    BY <2>0
  <2>1. /\ p \in projects /\ Tail(access) \in Seq(projects)
        /\ \A q : In(q, access) <=> q = p \/ In(q, Tail(access))
        /\ ~In(p, Tail(access)) /\ Distinct(Tail(access))
    BY <2>9, <1>0, <1>7, TailDistinct DEF Take, TypeOK, Exclusive
  <2>2. \A q : Sent(q) <=> Sent(q)' \/ q = p
    BY <2>9, <1>7, <2>1 DEF Take, Sent
  <2>3. ~Sent(p)' /\ Distinct(access') /\ access' \in Seq(projects)
    BY <2>9, <1>7, <2>1 DEF Take, Sent
  <2>4. /\ job[w] = {} /\ job'[w] = {p} /\ wpc'[w] = "collecting"
        /\ \A v \in WorkerIds : v # w => job'[v] = job[v] /\ wpc'[v] = wpc[v]
    BY <2>9, <1>0, <1>7 DEF Take, TypeOK, Exclusive, Busy
  <2>5. \A q : Taken(q)' <=> Taken(q) \/ q = p
    BY <2>4 DEF Taken
  <2>6. TypeOK'
    BY <2>9, <1>0, <1>7, <2>1, <2>3 DEF Take, TypeOK
  <2>7. UNCHANGED <<projects, caller, todo, outcome, results, received, result>>
    BY <1>7 DEF Take
  <2>8. Exclusive'
    <3>1. \A v \in WorkerIds : p \notin job[v]
      BY <1>0, <2>1, <2>2 DEF Exclusive, Taken
    <3>2. \A v, u \in WorkerIds : \A q \in job'[v] \cap job'[u] : v = u
      BY <1>0, <2>4, <3>1 DEF Exclusive
    <3>3. \A v \in WorkerIds : Busy(v)' <=> job'[v] # {}
      BY <1>0, <2>4 DEF Exclusive, Busy
    <3>4. \A v \in WorkerIds : \A q, r \in job'[v] : q = r
      BY <1>0, <2>4 DEF Exclusive
    <3>5. /\ p \notin todo /\ ~Answered(p) /\ ~Received(p)
          /\ \A q : (Answered(q)' <=> Answered(q)) /\ (Received(q)' <=> Received(q))
      BY <1>0, <2>1, <2>2, <2>7 DEF Exclusive, Answered, Received
    <3> QED BY <1>0, <2>2, <2>3, <2>5, <2>7, <3>2, <3>3, <3>4, <3>5 DEF Exclusive
  <2>10. Outcomes' /\ ResultSoFar'
    BY <1>0, <2>4, <2>7 DEF Outcomes, ResultSoFar, Answered, Received
  <2>11. CallerSteps'
    BY <1>0, <1>7, <2>7 DEF CallerSteps, Take, Count
  <2> QED BY <2>6, <2>8, <2>10, <2>11 DEF PlaceInv
<1>8. ASSUME NEW w \in WorkerIds, NEW p \in AllProjects, Collect(w, p) PROVE PlaceInv'
  <2>1. p \in projects /\ Taken(p) /\ ~Answered(p) /\ ~Received(p)
    BY <1>0, <1>8 DEF Collect, TypeOK, Exclusive, Taken
  <2>2. TypeOK'
    BY <1>0, <1>8 DEF Collect, TypeOK
  <2>3. /\ outcome'[p] # "pending"
        /\ \A q \in AllProjects : q # p => outcome'[q] = outcome[q]
        /\ \A v \in WorkerIds : v # w => wpc'[v] = wpc[v]
        /\ wpc'[w] = "sending" /\ Busy(w)
    BY <1>0, <1>8 DEF Collect, TypeOK, Busy
  <2>4. projects \subseteq AllProjects /\ \A v \in WorkerIds : job[v] \subseteq projects
    BY <1>0 DEF TypeOK
  <2> QED
    BY <1>0, <1>8, <2>1, <2>2, <2>3, <2>4
    DEF Collect, PlaceInv, Exclusive, Outcomes, ResultSoFar, CallerSteps,
        Sent, Taken, Answered, Received, Busy, Count
<1>9. ASSUME NEW w \in WorkerIds, NEW p \in AllProjects, Answer(w, p) PROVE PlaceInv'
  <2>1. p \in projects /\ Taken(p) /\ ~Answered(p) /\ ~Received(p) /\ outcome[p] # "pending"
    BY <1>0, <1>9 DEF Answer, TypeOK, Exclusive, Outcomes, Taken
  <2>2. /\ \A q : Answered(q)' <=> Answered(q) \/ q = p
        /\ Distinct(results') /\ results' \in Seq(projects)
    BY <1>0, <1>9, <2>1, AppendDistinct DEF Answer, TypeOK, Exclusive, Answered
  <2>3. /\ job[w] = {p} /\ job'[w] = {}
        /\ \A v \in WorkerIds : v # w => job'[v] = job[v] /\ wpc'[v] = wpc[v]
    BY <1>0, <1>9 DEF Answer, TypeOK, Exclusive
  <2>4. \A q : Taken(q)' <=> Taken(q) /\ q # p
    BY <1>0, <2>3 DEF Taken, Exclusive
  <2>5. TypeOK'
    BY <1>0, <1>9, <2>2 DEF Answer, TypeOK
  <2>6. UNCHANGED <<projects, caller, todo, access, outcome, received, result>>
    BY <1>9 DEF Answer
  <2>7. wpc'[w] = "waiting" /\ wpc[w] = "sending"
    BY <1>0, <1>9 DEF Answer, TypeOK
  <2>8. Exclusive'
    BY <1>0, <2>1, <2>2, <2>3, <2>4, <2>6, <2>7
    DEF Exclusive, Sent, Received, Busy
  <2>9. Outcomes' /\ ResultSoFar'
    BY <1>0, <2>1, <2>2, <2>3, <2>6, <2>7 DEF Outcomes, ResultSoFar, Received
  <2>10. CallerSteps'
    BY <1>0, <2>6, <2>7 DEF CallerSteps, Count, Expected
  <2> QED BY <2>5, <2>8, <2>9, <2>10 DEF PlaceInv
<1>10. ASSUME NEW w \in WorkerIds, Exit(w) PROVE PlaceInv'
  <2>1. /\ job[w] = {} /\ job' = job
        /\ \A v \in WorkerIds : v # w => wpc'[v] = wpc[v]
        /\ wpc'[w] = "stopped"
    BY <1>0, <1>10 DEF Exit, TypeOK, Exclusive, Busy
  <2>2. TypeOK'
    BY <1>0, <1>10 DEF Exit, TypeOK
  <2> QED
    BY <1>0, <1>10, <2>1, <2>2
    DEF Exit, PlaceInv, Exclusive, Outcomes, ResultSoFar, CallerSteps,
        Sent, Taken, Answered, Received, Busy, Count
<1>11. CASE UNCHANGED vars
  BY <1>0, <1>11
  DEF vars, PlaceInv, TypeOK, Exclusive, Outcomes, ResultSoFar, CallerSteps,
      Sent, Taken, Answered, Received, Busy, Count
<1> QED
  BY <1>1, <1>2, <1>3, <1>4, <1>5, <1>6, <1>7, <1>8, <1>9, <1>10, <1>11
  DEF Next, CallerStep, WorkerStep

\* Hence always.
LEMMA PlaceInvariant == Spec => []PlaceInv
BY PlaceInit, PlaceNext, PTL DEF Spec

-------------------------------------------------------------------------------

\* Every variable keeps its type.
THEOREM TypeCorrect == Spec => []TypeOK
<1>1. PlaceInv => TypeOK
  BY DEF PlaceInv
<1> QED BY PlaceInvariant, <1>1, PTL

\* Counting the answers is enough.
LEMMA CompleteState == PlaceInv => CompleteOnReturn
<1> SUFFICES ASSUME PlaceInv, caller = "done"
             PROVE  /\ \A p \in projects : outcome[p] # "pending"
                    /\ \A p \in projects : In(p, result) <=> outcome[p] = "targets"
                    /\ Distinct(result)
  BY DEF CompleteOnReturn
<1>1. IsFiniteSet(projects) /\ received \in Seq(projects) /\ Distinct(received)
  BY FiniteProjects DEF PlaceInv, TypeOK, Exclusive
<1>2. \A p \in projects : Received(p)
  BY <1>1, Counting DEF PlaceInv, CallerSteps, Count, Received
<1> QED BY <1>2 DEF PlaceInv, Outcomes, ResultSoFar

\* CompleteOnReturn: with any number of projects and of worker threads, the
\* caller returns only after every project was asked, with the targets of each
\* project that has some, once.
THEOREM Complete == Spec => []CompleteOnReturn
BY PlaceInvariant, CompleteState, PTL

\* SendsNeverBlock: buffers of one slot per project are enough for every
\* interleaving of the caller and the workers.
THEOREM NothingWaits == Spec => []SendsNeverBlock
<1>1. PlaceInv => SendsNeverBlock
  <2> SUFFICES ASSUME PlaceInv PROVE SendsNeverBlock
    OBVIOUS
  <2>1. /\ IsFiniteSet(projects) /\ Count \in Nat
        /\ access \in Seq(projects) /\ results \in Seq(projects)
    BY FiniteProjects DEF PlaceInv, TypeOK
  <2>2. ASSUME NEW s \in Seq(projects), Distinct(s), NEW p \in projects, ~In(p, s)
        PROVE  Len(s) < Capacity
    <3>1. Append(s, p) \in Seq(projects) /\ Distinct(Append(s, p))
      BY <2>2, AppendDistinct
    <3>2. Len(Append(s, p)) <= Cardinality(projects)
      BY <2>1, <3>1, Counting
    <3>3. Len(Append(s, p)) = Len(s) + 1 /\ Len(s) \in Nat
      OBVIOUS
    <3> QED BY <2>1, <3>2, <3>3 DEF Capacity, Count
  <2>3. ASSUME NEW p \in todo PROVE Len(access) < Capacity
    BY <2>1, <2>2 DEF PlaceInv, TypeOK, Exclusive, Sent
  <2>4. ASSUME NEW w \in WorkerIds, wpc[w] = "sending", NEW p \in job[w]
        PROVE  Len(results) < Capacity
    <3>1. p \in projects /\ ~In(p, results)
      BY DEF PlaceInv, TypeOK, Exclusive, Taken, Answered
    <3> QED BY <2>1, <2>2, <3>1 DEF PlaceInv, Exclusive
  <2>5. ASSUME NEW w \in WorkerIds, wpc[w] = "sending" PROVE Len(results) < Capacity
    <3>1. job[w] # {}
      BY <2>5 DEF PlaceInv, Exclusive, Busy
    <3> QED BY <2>4, <2>5, <3>1
  <2> QED BY <2>3, <2>5 DEF SendsNeverBlock
<1> QED BY PlaceInvariant, <1>1, PTL

-------------------------------------------------------------------------------
(* The listings, as the fan-out's suppliers.                                 *)

\* A project is listed by one worker, once, before there is an outcome.
Pending ==
  /\ \A p \in projects : p \in todo \/ Sent(p) => outcome[p] = "pending"
  /\ \A w \in WorkerIds : \A p \in job[w] :
       wpc[w] = "collecting" => outcome[p] = "pending"

\* Before its first call a project has nothing; one that succeeded was asked for
\* all its parts.
Ends ==
  \A p \in projects :
    /\ p \notin begun => targets[p] = {} /\ left[p] = {} /\ before[p] = {} /\ parts[p] = {}
    /\ outcome[p] = "targets" => p \in begun /\ parts[p] = {}

\* A project's targets are its own, and none is of a part that was left out or
\* is still to come.
Separate ==
  \A p \in projects :
    /\ left[p] # {} => nested
    /\ left[p] \cap parts[p] = {}
    /\ \A s \in left[p] \cup parts[p] : targets[p] \cap InPart(p, s) = {}

\* Where a resource is that has been there since the listing began: among the
\* targets, in a part still to come, or in one that failed.
Traced ==
  \A p \in projects :
    /\ before[p] \subseteq exists \cap Of(p)
    /\ \A r \in before[p] : r \in targets[p] \/ PartOf[r][2] \in parts[p] \cup left[p]

ListingInv == PlaceInv /\ DiscoveryTypeOK /\ Pending /\ Ends /\ Separate /\ Traced

\* Every resource of a project is in one of its parts.
LEMMA PartIsPair ==
  ASSUME NEW p \in AllProjects, NEW r \in Of(p)
  PROVE  PartOf[r][2] \in PartsOf[p] /\ r \in InPart(p, PartOf[r][2])
BY PartOfAssumption DEF Of, InPart

\* The resources of a part are resources of its project.
LEMMA PartIsOf == ASSUME NEW p, NEW s PROVE InPart(p, s) \subseteq Of(p)
BY DEF Of, InPart

\* No resource is in two parts.
LEMMA PartsDisjoint ==
  ASSUME NEW p, NEW s, NEW t, s # t PROVE InPart(p, s) \cap InPart(p, t) = {}
BY DEF InPart

\* No resource is in two projects.
LEMMA ProjectsDisjoint == ASSUME NEW p, NEW q, p # q PROVE Of(p) \cap Of(q) = {}
BY DEF Of

\* Every step of the composed system is a step of the fan-out or none at all.
LEMMA Simulates == [DiscoveryNext]_discoveryVars => [Next]_vars
BY DEF DiscoveryNext, DiscoveryWorkerStep, Supplier, Begin, ListPart, SkipCluster,
       Succeeds, Fails, Churn, discoveryVars, Next, WorkerStep

\* The fan-out's own steps, Collect aside, leave the listings and outcomes alone.
LEMMA QuietSteps ==
  /\ CallerStep => outcome' = outcome
  /\ \A w \in WorkerIds : Take(w) \/ Exit(w) => outcome' = outcome
  /\ \A w \in WorkerIds, p \in AllProjects : Answer(w, p) => outcome' = outcome
BY DEF CallerStep, ReturnEmpty, Launch, Send, Close, Receive, Return, Take, Exit, Answer

\* The configured projects stay what they are.
LEMMA FixedProjects == [Next]_vars => projects' = projects
BY DEF Next, CallerStep, WorkerStep, ReturnEmpty, Launch, Send, Close, Receive, Return,
       Take, Exit, Collect, Answer, vars

\* At first nothing is listed and nothing has changed.
LEMMA ListingInit == DiscoveryInit => ListingInv
<1> SUFFICES ASSUME DiscoveryInit PROVE ListingInv
  OBVIOUS
<1>1. Init /\ PlaceInv /\ TypeOK
  BY PlaceInit DEF DiscoveryInit, PlaceInv
<1>2. DiscoveryTypeOK
  BY <1>1, BoundsAssumption DEF DiscoveryInit, DiscoveryTypeOK
<1>3. Pending
  BY <1>1 DEF Init, Pending, TypeOK
<1>4. Ends /\ Separate /\ Traced
  BY <1>1 DEF DiscoveryInit, Init, Ends, Separate, Traced, TypeOK
<1> QED BY <1>1, <1>2, <1>3, <1>4 DEF ListingInv

\* A project stays pending until its supplier returns.
LEMMA StepPending == PlaceInv /\ Pending /\ [Next]_vars => Pending'
<1> SUFFICES ASSUME PlaceInv, Pending, [Next]_vars PROVE Pending'
  OBVIOUS
<1>0. TypeOK /\ Exclusive /\ PlaceInv'
  BY PlaceNext DEF PlaceInv
<1>1. CASE CallerStep
  <2>1. /\ UNCHANGED <<projects, outcome, job>>
        /\ \A w \in WorkerIds : wpc'[w] = "collecting" => wpc[w] = "collecting"
    BY <1>1 DEF CallerStep, ReturnEmpty, Launch, Send, Close, Receive, Return
  <2>2. \A p \in projects : p \in todo' \/ Sent(p)' => p \in todo \/ Sent(p)
    <3>1. CASE UNCHANGED <<todo, access>>
      BY <3>1 DEF Sent
    <3>2. ASSUME NEW p \in AllProjects, Send(p)
          PROVE  \A q \in projects : q \in todo' \/ Sent(q)' => q \in todo \/ Sent(q)
      <4>1. p \in projects /\ access \in Seq(projects)
        BY <1>0, <3>2 DEF Send, TypeOK
      <4>2. \A q : Sent(q)' <=> Sent(q) \/ q = p
        BY <3>2, <4>1, AppendDistinct DEF Send, Sent
      <4> QED BY <3>2, <4>2 DEF Send
    <3> QED
      BY <1>1, <3>1, <3>2 DEF CallerStep, ReturnEmpty, Launch, Close, Receive, Return
  <2> QED BY <2>1, <2>2 DEF Pending
<1>2. ASSUME NEW w \in WorkerIds, Take(w) PROVE Pending'
  <2>1. /\ Head(access) \in projects
        /\ \A q : In(q, access) <=> q = Head(access) \/ In(q, Tail(access))
    BY <1>0, <1>2, TailDistinct DEF Take, TypeOK, Exclusive
  <2>2. outcome[Head(access)] = "pending"
    BY <2>1 DEF Pending, Sent
  <2>3. \A q : Sent(q)' => Sent(q)
    BY <1>2, <2>1 DEF Take, Sent
  <2>4. \A v \in WorkerIds : job'[v] = IF v = w THEN {Head(access)} ELSE job[v]
    BY <1>0, <1>2 DEF Take, TypeOK
  <2>5. \A v \in WorkerIds : v # w => wpc'[v] = wpc[v]
    BY <1>0, <1>2 DEF Take, TypeOK
  <2> QED BY <1>2, <2>2, <2>3, <2>4, <2>5 DEF Pending, Take
<1>3. ASSUME NEW w \in WorkerIds, Exit(w) PROVE Pending'
  BY <1>0, <1>3 DEF Exit, Pending, TypeOK, Sent
<1>4. ASSUME NEW w \in WorkerIds, NEW p \in AllProjects, Collect(w, p) PROVE Pending'
  <2>1. p \in projects /\ Taken(p)
    BY <1>0, <1>4 DEF Collect, TypeOK, Taken
  <2>2. p \notin todo /\ ~Sent(p)
    BY <1>0, <2>1 DEF Exclusive
  <2>3. \A v \in WorkerIds : p \in job[v] => v = w
    BY <1>0, <1>4 DEF Exclusive, Collect
  <2>4. /\ \A q \in AllProjects : q # p => outcome'[q] = outcome[q]
        /\ \A v \in WorkerIds : v # w => wpc'[v] = wpc[v]
        /\ wpc'[w] = "sending"
    BY <1>0, <1>4 DEF Collect, TypeOK
  <2>5. UNCHANGED <<projects, todo, access, job>>
    BY <1>4 DEF Collect
  <2>6. \A v \in WorkerIds : job[v] \subseteq AllProjects
    BY <1>0 DEF TypeOK
  <2>7. projects \subseteq AllProjects
    BY <1>0 DEF TypeOK
  <2> QED BY <2>2, <2>3, <2>4, <2>5, <2>6, <2>7 DEF Pending, Sent
<1>5. ASSUME NEW w \in WorkerIds, NEW p \in AllProjects, Answer(w, p) PROVE Pending'
  <2>1. \A v \in WorkerIds : job'[v] \subseteq job[v]
    BY <1>0, <1>5 DEF Answer, TypeOK
  <2>2. \A v \in WorkerIds : wpc'[v] = "collecting" => wpc[v] = "collecting"
    BY <1>0, <1>5 DEF Answer, TypeOK
  <2> QED BY <1>5, <2>1, <2>2 DEF Answer, Pending, Sent
<1>6. CASE UNCHANGED vars
  BY <1>6 DEF vars, Pending, Sent
<1> QED BY <1>1, <1>2, <1>3, <1>4, <1>5, <1>6 DEF Next, WorkerStep

\* A worker that is inside the supplier holds a configured project without an
\* outcome.
LEMMA Calling ==
  ASSUME ListingInv, NEW w \in WorkerIds, NEW p \in AllProjects, Calls(w, p)
  PROVE  p \in projects /\ outcome[p] = "pending"
BY DEF ListingInv, DiscoveryTypeOK, TypeOK, Pending, Calls

\* A call moves resources from the parts to come to those collected, or fails.
LEMMA ListingNext == ListingInv /\ [DiscoveryNext]_discoveryVars => ListingInv'
<1> SUFFICES ASSUME ListingInv, [DiscoveryNext]_discoveryVars PROVE ListingInv'
  OBVIOUS
<1>0. /\ PlaceInv' /\ Pending' /\ TypeOK' /\ projects' = projects
      /\ DiscoveryTypeOK /\ Ends /\ Separate /\ Traced /\ TypeOK
  BY Simulates, PlaceNext, StepPending, FixedProjects DEF ListingInv, PlaceInv
<1> DEFINE Others == DiscoveryTypeOK' /\ Ends' /\ Separate' /\ Traced'
<1>1. ASSUME UNCHANGED <<listing, outcome>> PROVE Others
  BY <1>0, <1>1 DEF listing, DiscoveryTypeOK, Ends, Separate, Traced
<1>2. ASSUME NEW w \in WorkerIds, NEW p \in AllProjects, Begin(w, p) PROVE Others
  <2>0. p \in projects /\ outcome[p] = "pending" /\ UNCHANGED outcome
    BY <1>2, Calling DEF Begin, vars
  <2>1. targets[p] = {} /\ left[p] = {}
    BY <1>0, <1>2, <2>0 DEF Ends, Begin
  <2>2. /\ parts' = [parts EXCEPT ![p] = parts'[p]] /\ parts'[p] \subseteq Parts
        /\ before' = [before EXCEPT ![p] = exists \cap Of(p)]
    BY <1>0, <1>2 DEF Begin, DiscoveryTypeOK, Clusters, Parts
  <2>3. DiscoveryTypeOK'
    BY <1>0, <1>2, <2>0, <2>2 DEF Begin, DiscoveryTypeOK, Of
  <2>4. Ends' /\ Separate'
    BY <1>0, <1>2, <2>0, <2>1, <2>2 DEF Begin, DiscoveryTypeOK, Ends, Separate
  <2>5. \A r \in exists \cap Of(p) : PartOf[r][2] \in parts'[p]
    BY <1>0, <1>2, PartIsPair DEF Begin, DiscoveryTypeOK, Clusters
  <2>6. Traced'
    BY <1>0, <1>2, <2>2, <2>5 DEF Begin, DiscoveryTypeOK, Traced
  <2> QED BY <2>3, <2>4, <2>6
<1>3. ASSUME NEW w \in WorkerIds, NEW p \in AllProjects, ListPart(w, p) PROVE Others
  <2>0. p \in projects /\ outcome[p] = "pending" /\ UNCHANGED outcome
    BY <1>3, Calling DEF ListPart, vars
  <2>1. PICK s \in parts[p] :
          /\ targets' = [targets EXCEPT ![p] = @ \cup (InPart(p, s) \cap exists)]
          /\ parts' = [parts EXCEPT ![p] = @ \ {s}]
    BY <1>3 DEF ListPart
  <2>2. p \in begun
    BY <1>0, <2>0, <2>1 DEF Ends
  <2>3. DiscoveryTypeOK'
    BY <1>0, <1>3, <2>1, PartIsOf DEF ListPart, DiscoveryTypeOK
  <2>4. Ends'
    BY <1>0, <1>3, <2>0, <2>1, <2>2 DEF ListPart, DiscoveryTypeOK, Ends
  <2>5. Separate'
    BY <1>0, <1>3, <2>1, PartsDisjoint DEF ListPart, DiscoveryTypeOK, Separate
  <2>6. \A r \in before[p] : PartOf[r][2] = s => r \in targets'[p]
    BY <1>0, <2>0, <2>1, PartIsPair DEF Traced, DiscoveryTypeOK
  <2>7. Traced'
    BY <1>0, <1>3, <2>1, <2>6 DEF ListPart, DiscoveryTypeOK, Traced
  <2> QED BY <2>3, <2>4, <2>5, <2>7
<1>4. ASSUME NEW w \in WorkerIds, NEW p \in AllProjects, SkipCluster(w, p) PROVE Others
  <2>0. p \in projects /\ outcome[p] = "pending" /\ UNCHANGED outcome
    BY <1>4, Calling DEF SkipCluster, vars
  <2>1. PICK s \in parts[p] :
          /\ parts' = [parts EXCEPT ![p] = @ \ {s}]
          /\ left' = [left EXCEPT ![p] = @ \cup {s}]
    BY <1>4 DEF SkipCluster, Failed
  <2>2. p \in begun
    BY <1>0, <2>0, <2>1 DEF Ends
  <2>3. faults' \in 0..MaxFaults
    BY <1>0, <1>4, BoundsAssumption DEF SkipCluster, Fault, DiscoveryTypeOK
  <2>4. DiscoveryTypeOK'
    BY <1>0, <1>4, <2>1, <2>3 DEF SkipCluster, DiscoveryTypeOK
  <2>5. Ends' /\ Separate' /\ Traced'
    BY <1>0, <1>4, <2>0, <2>1, <2>2
    DEF SkipCluster, DiscoveryTypeOK, Ends, Separate, Traced
  <2> QED BY <2>4, <2>5
<1>5. ASSUME NEW w \in WorkerIds, NEW p \in AllProjects, Succeeds(w, p) PROVE Others
  <2>1. \A q \in AllProjects : q # p => outcome'[q] = outcome[q]
    BY <1>0, <1>5 DEF Succeeds, Collect, TypeOK
  <2>2. projects \subseteq AllProjects
    BY <1>0 DEF TypeOK
  <2> QED
    BY <1>0, <1>5, <2>1, <2>2 DEF Succeeds, listing, DiscoveryTypeOK, Ends, Separate, Traced
<1>6. ASSUME NEW w \in WorkerIds, NEW p \in AllProjects, Fails(w, p) PROVE Others
  <2>1. /\ \A q \in AllProjects : q # p => outcome'[q] = outcome[q]
        /\ outcome'[p] = "nil"
    BY <1>0, <1>6 DEF Fails, Collect, TypeOK, OnError
  <2>2. projects \subseteq AllProjects
    BY <1>0 DEF TypeOK
  <2>3. faults' \in 0..MaxFaults
    BY <1>0, <1>6, BoundsAssumption DEF Fails, Fault, DiscoveryTypeOK
  <2> QED
    BY <1>0, <1>6, <2>1, <2>2, <2>3 DEF Fails, DiscoveryTypeOK, Ends, Separate, Traced
<1>7. ASSUME NEW r \in Resources, Churn(r) PROVE Others
  <2>0. UNCHANGED outcome
    BY <1>7 DEF Churn, vars
  <2>1. PartOf[r][1] \in AllProjects
    BY PartOfAssumption
  <2>2. \A p \in AllProjects : before'[p] = IF p = PartOf[r][1] THEN before[p] \ {r} ELSE before[p]
    BY <1>0, <1>7, <2>1 DEF Churn, DiscoveryTypeOK
  <2>3. projects \subseteq AllProjects
    BY <1>0 DEF TypeOK
  <2>4. /\ before' \in [AllProjects -> SUBSET Resources]
        /\ exists' \subseteq Resources /\ churn' \in 0..MaxChurn
    BY <1>0, <1>7, <2>1, BoundsAssumption DEF Churn, DiscoveryTypeOK
  <2>5. DiscoveryTypeOK' /\ Ends' /\ Separate'
    BY <1>0, <1>7, <2>0, <2>2, <2>3, <2>4 DEF Churn, DiscoveryTypeOK, Ends, Separate
  <2>6. ASSUME NEW p \in projects
        PROVE  before'[p] \subseteq before[p] /\ before'[p] \subseteq exists' \cap Of(p)
    <3>1. before[p] \subseteq exists \cap Of(p)
      BY <1>0 DEF Traced
    <3>2. before'[p] = IF p = PartOf[r][1] THEN before[p] \ {r} ELSE before[p]
      BY <2>2, <2>3
    <3>3. exists \ {r} \subseteq exists'
      BY <1>7 DEF Churn
    <3>4. p # PartOf[r][1] => r \notin Of(p)
      BY DEF Of
    <3> QED
      BY <3>1, <3>2, <3>3, <3>4
  <2>7. Traced'
    BY <1>0, <1>7, <2>6 DEF Churn, Traced
  <2> QED BY <2>5, <2>7
<1>8. ASSUME UNCHANGED discoveryVars PROVE Others
  BY <1>1, <1>8 DEF discoveryVars, vars
<1> HIDE DEF Others
<1>9. ASSUME CallerStep, UNCHANGED listing PROVE Others
  BY <1>1, <1>9, QuietSteps
<1>10. ASSUME NEW w \in WorkerIds, Take(w) \/ Exit(w), UNCHANGED listing PROVE Others
  BY <1>1, <1>10, QuietSteps
<1>11. ASSUME NEW w \in WorkerIds, NEW p \in AllProjects, Answer(w, p), UNCHANGED listing
       PROVE  Others
  BY <1>1, <1>11, QuietSteps
<1>12. ASSUME NEW w \in WorkerIds, DiscoveryWorkerStep(w) PROVE Others
  BY <1>2, <1>3, <1>4, <1>5, <1>6, <1>10, <1>11, <1>12 DEF DiscoveryWorkerStep, Supplier
<1>13. Others
  BY <1>7, <1>8, <1>9, <1>12 DEF DiscoveryNext
<1> QED BY <1>0, <1>13 DEF ListingInv, Others

\* Hence always.
LEMMA ListingInvariant == DiscoverySpec => []ListingInv
BY ListingInit, ListingNext, PTL DEF DiscoverySpec

-------------------------------------------------------------------------------

\* Listing parts, skipping clusters and failing are ways for a supplier to return:
\* whatever holds of every behaviour of FanOut holds of the discovery.
THEOREM ImplementsFanOut == DiscoverySpec => Spec
<1>1. DiscoveryInit => Init
  BY DEF DiscoveryInit
<1> QED BY <1>1, Simulates, PTL DEF DiscoverySpec, Spec

\* The type invariant, over any number of projects, threads, parts and resources.
THEOREM DiscoveryTypeCorrect == DiscoverySpec => []DiscoveryTypeOK
<1>1. ListingInv => DiscoveryTypeOK
  BY DEF ListingInv
<1> QED BY ListingInvariant, <1>1, PTL

\* A resource that exists throughout is lost only when its own project failed, or,
\* for node pools, its own cluster.
THEOREM FailuresAreContained == DiscoverySpec => []LostOnlyToFailure
<1>1. ListingInv => LostOnlyToFailure
  <2> SUFFICES ASSUME ListingInv, caller = "done",
                      NEW p \in projects, outcome[p] = "targets", NEW r \in before[p]
               PROVE  r \in Published \/ PartOf[r][2] \in left[p]
    BY DEF LostOnlyToFailure
  <2>1. In(p, result)
    BY CompleteState DEF ListingInv, CompleteOnReturn
  <2>2. targets[p] \subseteq Published
    BY <2>1 DEF In, Published
  <2> QED BY <2>2 DEF ListingInv, Ends, Traced
<1> QED BY ListingInvariant, <1>1, PTL

\* A failure never leaves part of a project, or part of a cluster, published.
THEOREM AllOrNothing == DiscoverySpec => []NoHalfProject
<1>1. ASSUME ListingInv, caller = "done", NEW p \in projects, NEW r \in Published \cap Of(p)
      PROVE  outcome[p] = "targets" /\ r \in targets[p]
  <2>1. PICK i \in 1..Len(result) : r \in targets[result[i]]
    BY <1>1 DEF Published
  <2>2. result[i] \in projects /\ projects \subseteq AllProjects
    BY <1>1, <2>1 DEF ListingInv, DiscoveryTypeOK, TypeOK
  <2>3. r \in Of(result[i])
    BY <1>1, <2>1, <2>2 DEF ListingInv, DiscoveryTypeOK
  <2>4. result[i] = p
    BY <1>1, <2>3, ProjectsDisjoint
  <2>5. In(p, result)
    BY <2>1, <2>4 DEF In
  <2> QED BY <1>1, <2>1, <2>4, <2>5, CompleteState DEF ListingInv, CompleteOnReturn
<1>2. ListingInv => NoHalfProject
  BY <1>1, PartIsOf DEF ListingInv, Ends, Separate, NoHalfProject
<1> QED BY ListingInvariant, <1>2, PTL

-------------------------------------------------------------------------------
(* Termination: somebody can always go on, and every step is one of finitely  *)
(* many.                                                                       *)

\* What the caller can do by the guards of its actions.
CallerReady ==
  \/ caller = "start"                                      \* ReturnEmpty, Launch
  \/ caller = "sending" /\ todo # {} /\ Len(access) < Capacity          \* Send
  \/ caller = "sending" /\ todo = {}                                   \* Close
  \/ caller = "receiving" /\ Len(received) < Expected /\ results # <<>>  \* Receive
  \/ caller = "receiving" /\ Len(received) = Expected                  \* Return

\* What a worker can do by the guards of its actions.
WorkerReady(w) ==
  \/ wpc[w] = "waiting" /\ access # <<>>                                \* Take
  \/ wpc[w] = "waiting" /\ access = <<>> /\ closed                      \* Exit
  \/ wpc[w] = "collecting" /\ job[w] # {}                            \* Collect
  \/ wpc[w] = "sending" /\ job[w] # {} /\ Len(results) < Capacity     \* Answer

Finished == caller = "done" /\ \A w \in WorkerIds : wpc[w] \in {"none", "stopped"}

NeverStuck == Finished \/ CallerReady \/ \E w \in WorkerIds : WorkerReady(w)

\* No project is ever in no place, the first worker is there while the caller waits
\* for it, and none stops before all projects were taken.
Attended ==
  /\ \A p \in projects : p \in todo \/ Sent(p) \/ Taken(p) \/ Answered(p) \/ Received(p)
  /\ caller \in {"sending", "receiving"} => projects # {} /\ wpc[1] # "none"
  /\ caller \in {"start", "sending"} => ~closed
  /\ caller = "receiving" => closed /\ todo = {}
  /\ caller = "done" => closed \/ \A w \in WorkerIds : wpc[w] = "none"
  /\ \A w \in WorkerIds : wpc[w] = "stopped" => closed /\ access = <<>>

\* There is a first worker as soon as there is a project.
LEMMA FirstWorker ==
  ASSUME TypeOK, projects # {}
  PROVE  1 \in WorkerIds /\ 1 <= NumWorkers
<1>1. /\ IsFiniteSet(projects) /\ Count \in Nat /\ projects \subseteq AllProjects
      /\ threads \in Int
  BY FiniteProjects DEF TypeOK
<1>2. Count >= 1
  BY <1>1, FS_EmptySet DEF Count
<1>3. Cardinality(AllProjects) \in Nat /\ Count <= Cardinality(AllProjects)
  BY <1>1, FS_Subset, FS_CardinalityType DEF Count
<1>. QED
  BY <1>1, <1>2, <1>3 DEF WorkerIds, NumWorkers

\* At first nothing is handed out.
LEMMA AttendedInit == Init => Attended
BY DEF Init, Attended, Idle

\* No step loses a project or stops a worker that is still needed.
LEMMA AttendedNext == PlaceInv /\ Attended /\ [Next]_vars => Attended'
<1> SUFFICES ASSUME PlaceInv, Attended, [Next]_vars PROVE Attended'
  OBVIOUS
<1>0. TypeOK /\ Exclusive /\ CallerSteps
  BY DEF PlaceInv
<1>1. CASE ReturnEmpty
  BY <1>0, <1>1
  DEF ReturnEmpty, CallerSteps, Attended, Sent, Taken, Answered, Received
<1>2. CASE Launch
  <2>1. 1 \in WorkerIds /\ 1 <= NumWorkers
    BY <1>0, <1>2, FirstWorker DEF Launch
  <2>2. wpc'[1] = "waiting" /\ \A w \in WorkerIds : wpc'[w] # "stopped"
    BY <1>2, <2>1 DEF Launch
  <2> QED
    BY <1>0, <1>2, <2>2 DEF Launch, Attended, Sent, Taken, Answered, Received
<1>3. ASSUME NEW p \in AllProjects, Send(p) PROVE Attended'
  <2>1. p \in projects /\ access \in Seq(projects)
    BY <1>0, <1>3 DEF Send, TypeOK
  <2>2. \A q : Sent(q)' <=> Sent(q) \/ q = p
    BY <1>3, <2>1, AppendDistinct DEF Send, Sent
  <2> QED
    BY <1>0, <1>3, <2>2 DEF Send, Attended, Taken, Answered, Received
<1>4. CASE Close
  BY <1>0, <1>4 DEF Close, Attended, Sent, Taken, Answered, Received
<1>5. CASE Receive
  <2>1. /\ Head(results) \in projects
        /\ \A q : In(q, results) <=> q = Head(results) \/ In(q, Tail(results))
    BY <1>0, <1>5, TailDistinct DEF Receive, TypeOK, Exclusive
  <2>2. \A q : Received(q)' <=> Received(q) \/ q = Head(results)
    BY <1>0, <1>5, <2>1, AppendDistinct DEF Receive, TypeOK, Received
  <2> QED
    BY <1>5, <2>1, <2>2 DEF Receive, Attended, Sent, Taken, Answered
<1>6. CASE Return
  BY <1>0, <1>6 DEF Return, Attended, Sent, Taken, Answered, Received
<1>7. ASSUME NEW w \in WorkerIds, Take(w) PROVE Attended'
  <2>1. \A q : In(q, access) <=> q = Head(access) \/ In(q, Tail(access))
    BY <1>0, <1>7, TailDistinct DEF Take, TypeOK, Exclusive
  <2>2. /\ job[w] = {} /\ job'[w] = {Head(access)} /\ wpc'[w] = "collecting"
        /\ \A v \in WorkerIds : v # w => job'[v] = job[v] /\ wpc'[v] = wpc[v]
    <3>1. job[w] = {}
      BY <1>0, <1>7 DEF Take, Exclusive, Busy
    <3>2. /\ job' = [job EXCEPT ![w] = {Head(access)}] /\ wpc' = [wpc EXCEPT ![w] = "collecting"]
          /\ DOMAIN job = WorkerIds /\ DOMAIN wpc = WorkerIds
      BY <1>0, <1>7 DEF Take, TypeOK
    <3> QED
      BY <3>1, <3>2
  <2>3. \A q : Sent(q) \/ Taken(q) => Sent(q)' \/ Taken(q)'
    BY <1>7, <2>1, <2>2 DEF Take, Sent, Taken
  <2>4. \A v \in WorkerIds : wpc'[v] \in {"none", "stopped"} <=> wpc[v] \in {"none", "stopped"}
    BY <1>7, <2>2 DEF Take
  <2>5. 1 \in WorkerIds \/ projects = {}
    BY <1>0, FirstWorker
  <2>6. \A v \in WorkerIds : wpc[v] # "stopped"
    BY <1>7 DEF Take, Attended
  <2>7. wpc'[1] = wpc[1] \/ (1 = w /\ wpc'[1] = "collecting") \/ projects = {}
    BY <2>2, <2>5
  <2>8. UNCHANGED <<projects, caller, todo, closed, results, received>> /\ wpc[w] = "waiting"
    BY <1>7 DEF Take
  <2>9. \A v \in WorkerIds : wpc'[v] # "stopped"
    BY <2>2, <2>6
  <2> QED
    BY <2>3, <2>7, <2>8, <2>9 DEF Attended, Answered, Received
<1>8. ASSUME NEW w \in WorkerIds, NEW p \in AllProjects, Collect(w, p) PROVE Attended'
  <2>1. /\ wpc'[w] = "sending" /\ wpc[w] = "collecting"
        /\ \A v : v # w => wpc'[v] = wpc[v]
    BY <1>0, <1>8 DEF Collect, TypeOK
  <2>2. UNCHANGED <<projects, caller, todo, access, closed, job, results, received>>
    BY <1>8 DEF Collect
  <2> QED
    BY <2>1, <2>2 DEF Attended, Sent, Taken, Answered, Received
<1>9. ASSUME NEW w \in WorkerIds, NEW p \in AllProjects, Answer(w, p) PROVE Attended'
  <2>1. p \in projects /\ results \in Seq(projects)
    BY <1>0, <1>9 DEF Answer, TypeOK
  <2>2. \A q : Answered(q)' <=> Answered(q) \/ q = p
    BY <1>9, <2>1, AppendDistinct DEF Answer, Answered
  <2>3. /\ job[w] = {p} /\ wpc'[w] = "waiting" /\ wpc[w] = "sending"
        /\ \A v \in WorkerIds : v # w => job'[v] = job[v]
        /\ \A v : v # w => wpc'[v] = wpc[v]
    BY <1>0, <1>9 DEF Answer, TypeOK, Exclusive
  <2>4. \A q : Taken(q) => Taken(q)' \/ q = p
    BY <2>3 DEF Taken
  <2>5. UNCHANGED <<projects, caller, todo, access, closed, received>>
    BY <1>9 DEF Answer
  <2> QED
    BY <2>2, <2>3, <2>4, <2>5 DEF Attended, Sent, Received
<1>10. ASSUME NEW w \in WorkerIds, Exit(w) PROVE Attended'
  <2>1. /\ wpc'[w] = "stopped" /\ wpc[w] = "waiting" /\ closed /\ access = <<>>
        /\ \A v : v # w => wpc'[v] = wpc[v]
    BY <1>0, <1>10 DEF Exit, TypeOK
  <2>2. UNCHANGED <<projects, caller, todo, access, closed, job, results, received>>
    BY <1>10 DEF Exit
  <2> QED
    BY <2>1, <2>2 DEF Attended, Sent, Taken, Answered, Received
<1>11. CASE UNCHANGED vars
  BY <1>11 DEF vars, Attended, Sent, Taken, Answered, Received
<1> QED
  BY <1>1, <1>2, <1>3, <1>4, <1>5, <1>6, <1>7, <1>8, <1>9, <1>10, <1>11
  DEF Next, CallerStep, WorkerStep

\* While the caller waits for an answer, a worker has one to give or a project to
\* take; once it is done, the workers have only to leave.
LEMMA NeverStuckState == PlaceInv /\ Attended /\ SendsNeverBlock => NeverStuck
<1> SUFFICES ASSUME PlaceInv, Attended, SendsNeverBlock, ~CallerReady,
                    \A w \in WorkerIds : ~WorkerReady(w)
             PROVE  Finished
  BY DEF NeverStuck
<1>0. TypeOK /\ Exclusive
  BY DEF PlaceInv
<1>1. \A w \in WorkerIds : ~Busy(w)
  BY <1>0 DEF Busy, Exclusive, WorkerReady, SendsNeverBlock
<1>2. \A p : ~Taken(p)
  BY <1>0, <1>1 DEF Exclusive, Taken
<1>3. \A w \in WorkerIds : wpc[w] = "waiting" => access = <<>> /\ ~closed
  BY DEF WorkerReady
<1>4. \A w \in WorkerIds : wpc[w] \in {"none", "waiting", "stopped"}
  BY <1>0, <1>1 DEF TypeOK, Busy
<1>5. caller \in {"receiving", "done"}
  BY <1>0 DEF TypeOK, CallerReady, SendsNeverBlock
<1>6. ASSUME caller = "receiving" PROVE FALSE
  <2>1. /\ closed /\ todo = {} /\ projects # {} /\ wpc[1] # "none" /\ 1 \in WorkerIds
    BY <1>0, <1>6, FirstWorker DEF Attended
  <2>2. wpc[1] = "stopped" /\ access = <<>>
    BY <1>3, <1>4, <2>1 DEF Attended
  <2>3. /\ IsFiniteSet(projects) /\ Count \in Nat
        /\ received \in Seq(projects) /\ Distinct(received) /\ Len(received) \in Nat
    BY <1>0, FiniteProjects DEF TypeOK, Exclusive
  <2>4. Len(received) <= Count
    BY <2>3, Counting DEF Count
  <2>5. Len(received) < Count /\ results = <<>>
    BY <1>6, <2>3, <2>4 DEF CallerReady, Expected
  <2>6. \A p \in projects : Received(p)
    BY <1>2, <2>1, <2>2, <2>5 DEF Attended, Sent, Answered, In
  <2>7. Len(received) = Count
    BY <2>3, <2>6, Counting DEF Count, Received
  <2> QED
    BY <2>3, <2>5, <2>7
<1> QED
  BY <1>3, <1>4, <1>5, <1>6 DEF Finished, Attended

\* NeverStuck: unless the discovery has returned and its goroutines are gone, the
\* caller or a worker can go on, with any number of projects and threads.
THEOREM NoDeadlock == Spec => []NeverStuck
<1>1. Spec => []Attended
  BY PlaceInvariant, AttendedInit, AttendedNext, PTL DEF Spec
<1> QED
  BY PlaceInvariant, NothingWaits, NeverStuckState, <1>1, PTL

\* What is left to do, by kind of step.
ToTake == {p \in projects : p \in todo \/ Sent(p)}
ToCollect == {p \in projects : outcome[p] = "pending"}
ToAnswer == {p \in projects : ~Answered(p) /\ ~Received(p)}
ToReceive == {p \in projects : ~Received(p)}
ToExit == {w \in WorkerIds : wpc[w] # "stopped"}
CallerStepsLeft ==
  CASE caller = "start" -> 3 [] caller = "sending" -> 2
    [] caller = "receiving" -> 1 [] caller = "done" -> 0

\* A bound on the steps that a fan-out can still take.
StepsLeft ==
  CallerStepsLeft + Cardinality(todo) + Cardinality(ToTake) + Cardinality(ToCollect)
    + Cardinality(ToAnswer) + Cardinality(ToReceive) + Cardinality(ToExit)

\* A part of a finite set has fewer elements.
LEMMA Smaller ==
  ASSUME NEW S, IsFiniteSet(S), NEW T, T \subseteq S
  PROVE  /\ Cardinality(S) \in Nat /\ Cardinality(T) \in Nat
         /\ Cardinality(T) <= Cardinality(S)
         /\ T # S => Cardinality(T) < Cardinality(S)
<1>1. /\ IsFiniteSet(T) /\ Cardinality(T) <= Cardinality(S)
      /\ Cardinality(T) = Cardinality(S) => S = T
  BY FS_Subset
<1>2. Cardinality(S) \in Nat /\ Cardinality(T) \in Nat
  BY <1>1, FS_CardinalityType
<1>. QED
  BY <1>1, <1>2

\* What is left to do is finite.
LEMMA FiniteWork ==
  ASSUME TypeOK
  PROVE  /\ IsFiniteSet(todo) /\ IsFiniteSet(ToTake) /\ IsFiniteSet(ToCollect)
         /\ IsFiniteSet(ToAnswer) /\ IsFiniteSet(ToReceive) /\ IsFiniteSet(ToExit)
         /\ CallerStepsLeft \in Nat
<1>1. IsFiniteSet(projects) /\ todo \subseteq projects
  BY FiniteProjects DEF TypeOK
<1>2. IsFiniteSet(WorkerIds)
  <2>1. Cardinality(AllProjects) \in Nat
    BY FS_CardinalityType
  <2>. QED
    BY <2>1, FS_Interval DEF WorkerIds
<1>3. /\ IsFiniteSet(todo) /\ IsFiniteSet(ToTake) /\ IsFiniteSet(ToCollect)
      /\ IsFiniteSet(ToAnswer) /\ IsFiniteSet(ToReceive)
  BY <1>1, FS_Subset DEF ToTake, ToCollect, ToAnswer, ToReceive
<1>4. IsFiniteSet(ToExit)
  BY <1>2, FS_Subset DEF ToExit
<1>5. CallerStepsLeft \in Nat
  BY DEF TypeOK, CallerStepsLeft
<1>. QED
  BY <1>3, <1>4, <1>5

\* So the bound is a number.
LEMMA StepsLeftType == ASSUME TypeOK PROVE StepsLeft \in Nat
BY FiniteWork, FS_CardinalityType DEF StepsLeft

\* No step adds work of any kind, and each completes some.
NothingAdded ==
  /\ CallerStepsLeft' <= CallerStepsLeft
  /\ todo' \subseteq todo /\ ToTake' \subseteq ToTake /\ ToCollect' \subseteq ToCollect
  /\ ToAnswer' \subseteq ToAnswer /\ ToReceive' \subseteq ToReceive /\ ToExit' \subseteq ToExit
SomeDone ==
  \/ CallerStepsLeft' < CallerStepsLeft
  \/ todo' # todo \/ ToTake' # ToTake \/ ToCollect' # ToCollect
  \/ ToAnswer' # ToAnswer \/ ToReceive' # ToReceive \/ ToExit' # ToExit

\* Less work of one kind and no more of the others is less in all.
LEMMA LessIsLeft ==
  ASSUME TypeOK, TypeOK', NothingAdded, SomeDone
  PROVE  StepsLeft' \in Nat /\ StepsLeft' < StepsLeft
<1>. DEFINE Less(S, T) == /\ Cardinality(S) \in Nat /\ Cardinality(T) \in Nat
                          /\ Cardinality(T) <= Cardinality(S)
                          /\ T # S => Cardinality(T) < Cardinality(S)
<1>1. CallerStepsLeft \in Nat /\ CallerStepsLeft' \in Nat
  BY DEF TypeOK, CallerStepsLeft
<1>2. /\ Less(todo, todo') /\ Less(ToTake, ToTake') /\ Less(ToCollect, ToCollect')
      /\ Less(ToAnswer, ToAnswer') /\ Less(ToReceive, ToReceive') /\ Less(ToExit, ToExit')
  BY FiniteWork, Smaller DEF NothingAdded
<1>. QED
  BY <1>1, <1>2 DEF NothingAdded, SomeDone, StepsLeft

\* Each step of caller or worker completes a piece of work.
LEMMA FewerSteps ==
  ASSUME PlaceInv, Pending, Next
  PROVE  NothingAdded /\ SomeDone
<1>0. TypeOK /\ Exclusive /\ CallerSteps
  BY DEF PlaceInv
<1>. USE DEF NothingAdded, SomeDone
<1>. DEFINE SameWork == UNCHANGED <<todo, ToTake, ToCollect, ToAnswer, ToReceive>>
<1>1. ASSUME UNCHANGED <<projects, todo, access, outcome, results, received>> PROVE SameWork
  BY <1>1 DEF ToTake, ToCollect, ToAnswer, ToReceive, Sent, Answered, Received
<1>2. CASE ReturnEmpty \/ Launch \/ Close \/ Return
  <2>1. SameWork
    BY <1>1, <1>2 DEF ReturnEmpty, Launch, Close, Return
  <2>2. ToExit' = ToExit
    BY <1>0, <1>2 DEF ReturnEmpty, Launch, Close, Return, CallerSteps, ToExit
  <2>3. CallerStepsLeft' < CallerStepsLeft
    BY <1>2 DEF ReturnEmpty, Launch, Close, Return, CallerStepsLeft
  <2>4. CallerStepsLeft' <= CallerStepsLeft
    BY <1>0, <1>2 DEF ReturnEmpty, Launch, Close, Return, CallerStepsLeft
  <2> QED
    BY <2>1, <2>2, <2>3, <2>4
<1>. DEFINE SameCaller == UNCHANGED CallerStepsLeft /\ CallerStepsLeft \in Nat
<1>3. ASSUME caller' = caller PROVE SameCaller
  BY <1>0, <1>3 DEF CallerStepsLeft, TypeOK
<1>4. ASSUME NEW p \in AllProjects, Send(p) PROVE NothingAdded /\ SomeDone
  <2>1. p \in projects /\ access \in Seq(projects) /\ p \in todo /\ todo' = todo \ {p}
    BY <1>0, <1>4 DEF Send, TypeOK
  <2>2. \A q : Sent(q)' <=> Sent(q) \/ q = p
    BY <1>4, <2>1, AppendDistinct DEF Send, Sent
  <2>3. UNCHANGED <<ToCollect, ToAnswer, ToReceive, ToExit>> /\ SameCaller
    BY <1>3, <1>4 DEF Send, ToCollect, ToAnswer, ToReceive, ToExit, Answered, Received
  <2>4. ToTake' \subseteq ToTake
    BY <1>4, <2>1, <2>2 DEF Send, ToTake
  <2> QED
    BY <2>1, <2>3, <2>4
<1>5. CASE Receive
  <2>1. /\ Head(results) \in projects
        /\ \A q : In(q, results) <=> q = Head(results) \/ In(q, Tail(results))
    BY <1>0, <1>5, TailDistinct DEF Receive, TypeOK, Exclusive
  <2>2. \A q : Received(q)' <=> Received(q) \/ q = Head(results)
    BY <1>0, <1>5, <2>1, AppendDistinct DEF Receive, TypeOK, Received
  <2>3. \A q : Answered(q) <=> Answered(q)' \/ q = Head(results)
    BY <1>5, <2>1 DEF Receive, Answered
  <2>4. ~Received(Head(results))
    BY <1>0, <2>1, <2>3 DEF Exclusive
  <2>5. UNCHANGED <<todo, ToTake, ToCollect, ToExit>> /\ SameCaller
    BY <1>3, <1>5 DEF Receive, ToTake, ToCollect, ToExit, Sent
  <2>6. ToAnswer' \subseteq ToAnswer /\ ToReceive' \subseteq ToReceive
    BY <1>5, <2>2, <2>3 DEF Receive, ToAnswer, ToReceive
  <2>7. ToReceive' # ToReceive
    BY <1>5, <2>1, <2>2, <2>4 DEF Receive, ToReceive
  <2> QED
    BY <2>5, <2>6, <2>7
<1>6. ASSUME NEW w \in WorkerIds, Take(w) PROVE NothingAdded /\ SomeDone
  <2>1. /\ Head(access) \in projects /\ ~In(Head(access), Tail(access))
        /\ \A q : In(q, access) <=> q = Head(access) \/ In(q, Tail(access))
    BY <1>0, <1>6, TailDistinct DEF Take, TypeOK, Exclusive
  <2>2. \A q : Sent(q)' <=> In(q, Tail(access))
    BY <1>6 DEF Take, Sent
  <2>3. Sent(Head(access)) /\ Head(access) \notin todo
    BY <1>0, <2>1 DEF Exclusive, Sent
  <2>4. UNCHANGED <<todo, ToCollect, ToAnswer, ToReceive>> /\ SameCaller
    BY <1>3, <1>6 DEF Take, ToCollect, ToAnswer, ToReceive, Answered, Received
  <2>5. ToExit' = ToExit
    BY <1>0, <1>6 DEF Take, ToExit, TypeOK
  <2>6. ToTake' \subseteq ToTake /\ ToTake' # ToTake
    BY <1>6, <2>1, <2>2, <2>3 DEF Take, ToTake, Sent
  <2> QED
    BY <2>4, <2>5, <2>6
<1>7. ASSUME NEW w \in WorkerIds, NEW p \in AllProjects, Collect(w, p)
      PROVE  NothingAdded /\ SomeDone
  <2>1. p \in projects /\ outcome[p] = "pending"
    BY <1>0, <1>7 DEF Collect, TypeOK, Pending
  <2>2. /\ outcome'[p] # "pending"
        /\ \A q \in AllProjects : q # p => outcome'[q] = outcome[q]
    BY <1>0, <1>7 DEF Collect, TypeOK
  <2>3. projects' = projects /\ projects \subseteq AllProjects
    BY <1>0, <1>7 DEF Collect, TypeOK
  <2>4. UNCHANGED <<todo, ToTake, ToAnswer, ToReceive>> /\ SameCaller
    BY <1>3, <1>7 DEF Collect, ToTake, ToAnswer, ToReceive, Sent, Answered, Received
  <2>5. ToExit' = ToExit
    BY <1>0, <1>7 DEF Collect, ToExit, TypeOK
  <2>6. ToCollect' \subseteq ToCollect /\ ToCollect' # ToCollect
    BY <2>1, <2>2, <2>3 DEF ToCollect
  <2> QED
    BY <2>4, <2>5, <2>6
<1>8. ASSUME NEW w \in WorkerIds, NEW p \in AllProjects, Answer(w, p)
      PROVE  NothingAdded /\ SomeDone
  <2>1. p \in projects /\ results \in Seq(projects) /\ ~Answered(p) /\ ~Received(p)
    BY <1>0, <1>8 DEF Answer, TypeOK, Exclusive, Taken
  <2>2. \A q : Answered(q)' <=> Answered(q) \/ q = p
    BY <1>8, <2>1, AppendDistinct DEF Answer, Answered
  <2>3. UNCHANGED <<todo, ToTake, ToCollect, ToReceive>> /\ SameCaller
    BY <1>3, <1>8 DEF Answer, ToTake, ToCollect, ToReceive, Sent, Received
  <2>4. ToExit' = ToExit
    BY <1>0, <1>8 DEF Answer, ToExit, TypeOK
  <2>5. \A q : Received(q)' <=> Received(q)
    BY <1>8 DEF Answer, Received
  <2>6. ToAnswer' \subseteq ToAnswer /\ ToAnswer' # ToAnswer
    BY <1>8, <2>1, <2>2, <2>5 DEF Answer, ToAnswer
  <2> QED
    BY <2>3, <2>4, <2>6
<1>9. ASSUME NEW w \in WorkerIds, Exit(w) PROVE NothingAdded /\ SomeDone
  <2>1. SameWork /\ SameCaller
    BY <1>1, <1>3, <1>9 DEF Exit
  <2>2. ToExit' \subseteq ToExit /\ ToExit' # ToExit
    BY <1>0, <1>9 DEF Exit, ToExit, TypeOK
  <2> QED
    BY <2>1, <2>2
<1> QED
  BY <1>2, <1>4, <1>5, <1>6, <1>7, <1>8, <1>9 DEF Next, CallerStep, WorkerStep

\* Each step leaves fewer.
LEMMA FewerStepsLeft ==
  ASSUME PlaceInv, Pending, Next
  PROVE  StepsLeft' \in Nat /\ StepsLeft' < StepsLeft
<1>1. TypeOK /\ TypeOK'
  BY PlaceNext DEF PlaceInv
<1> QED
  BY <1>1, FewerSteps, LessIsLeft

\* Every step of the fan-out leaves fewer to take: with NoDeadlock, it ends, however
\* the goroutines are scheduled, provided that somebody who can go on does.
THEOREM EveryStepCounts == Spec => [](StepsLeft \in Nat) /\ [][StepsLeft' < StepsLeft]_vars
<1>1. Init => Pending
  <2> SUFFICES ASSUME Init PROVE Pending
    OBVIOUS
  <2>1. TypeOK
    BY PlaceInit DEF PlaceInv
  <2> QED
    BY <2>1 DEF Init, Pending, TypeOK
<1>2. Spec => []Pending
  BY PlaceInvariant, StepPending, <1>1, PTL DEF Spec
<1>3. PlaceInv => StepsLeft \in Nat
  BY StepsLeftType DEF PlaceInv
<1>4. PlaceInv /\ Pending /\ [Next]_vars => [StepsLeft' < StepsLeft]_vars
  BY FewerStepsLeft
<1> QED
  BY PlaceInvariant, <1>2, <1>3, <1>4, PTL DEF Spec

-------------------------------------------------------------------------------
(* The listings end as well: first calls, parts and churn are finitely many.   *)

ToBegin == AllProjects \ begun
ToList ==
  {x \in AllProjects \X Parts :
     x[2] \in IF x[1] \in begun THEN parts[x[1]] ELSE PartsOf[x[1]]}

\* A bound on the steps that a discovery can still take.
DiscoveryStepsLeft ==
  StepsLeft + Cardinality(ToBegin) + Cardinality(ToList) + (MaxChurn - churn)

\* There are finitely many parts.
LEMMA FiniteParts == IsFiniteSet(Parts)
<1>. DEFINE S == {PartsOf[p] : p \in AllProjects}
            f == [p \in AllProjects |-> PartsOf[p]]
<1>1. f \in Surjection(AllProjects, S)
  BY DEF Surjection
<1>2. IsFiniteSet(S)
  BY <1>1, FS_Surjection
<1>. QED
  BY <1>2, PartsAssumption, FS_UNION DEF Parts

\* And finitely many calls to make for them.
LEMMA FiniteListing == IsFiniteSet(ToBegin) /\ IsFiniteSet(ToList)
<1>1. IsFiniteSet(AllProjects \X Parts)
  BY FiniteParts, FS_Product
<1>. QED
  BY <1>1, FS_Subset DEF ToBegin, ToList

\* A call of a supplier that goes on: the fan-out stays where it is.
LEMMA LessIsToList ==
  ASSUME TypeOK, UNCHANGED vars, churn \in 0..MaxChurn, churn' \in 0..MaxChurn,
         ToBegin' \subseteq ToBegin, ToList' \subseteq ToList, churn' >= churn,
         ToBegin' # ToBegin \/ ToList' # ToList \/ churn' > churn
  PROVE  DiscoveryStepsLeft' < DiscoveryStepsLeft
<1>1. StepsLeft' = StepsLeft /\ StepsLeft \in Nat
  <2>1. StepsLeft' = StepsLeft
    BY DEF vars, StepsLeft, CallerStepsLeft, ToTake, ToCollect, ToAnswer, ToReceive, ToExit,
           Sent, Answered, Received
  <2>. QED
    BY <2>1, StepsLeftType
<1>2. /\ Cardinality(ToBegin) \in Nat /\ Cardinality(ToBegin') \in Nat
      /\ Cardinality(ToBegin') <= Cardinality(ToBegin)
      /\ ToBegin' # ToBegin => Cardinality(ToBegin') < Cardinality(ToBegin)
  BY FiniteListing, Smaller
<1>3. /\ Cardinality(ToList) \in Nat /\ Cardinality(ToList') \in Nat
      /\ Cardinality(ToList') <= Cardinality(ToList)
      /\ ToList' # ToList => Cardinality(ToList') < Cardinality(ToList)
  BY FiniteListing, Smaller
<1>. QED
  BY <1>1, <1>2, <1>3, BoundsAssumption DEF DiscoveryStepsLeft

\* A step of the fan-out: the listings stay where they are.
LEMMA LessIsLeftOfAll ==
  ASSUME ListingInv, Next, UNCHANGED <<begun, parts, churn>>
  PROVE  DiscoveryStepsLeft' < DiscoveryStepsLeft
<1>1. StepsLeft' \in Nat /\ StepsLeft' < StepsLeft
  BY FewerStepsLeft DEF ListingInv
<1>2. StepsLeft \in Nat
  BY StepsLeftType DEF ListingInv, PlaceInv
<1>3. ToBegin' = ToBegin /\ ToList' = ToList
  BY DEF ToBegin, ToList
<1>4. Cardinality(ToBegin) \in Nat /\ Cardinality(ToList) \in Nat
  BY FiniteListing, FS_CardinalityType
<1>5. churn \in 0..MaxChurn
  BY DEF ListingInv, DiscoveryTypeOK
<1>. QED
  BY <1>1, <1>2, <1>3, <1>4, <1>5, BoundsAssumption DEF DiscoveryStepsLeft

\* Each call, each change and each step of the fan-out leaves fewer.
LEMMA FewerDiscoverySteps ==
  ASSUME ListingInv, DiscoveryNext
  PROVE  DiscoveryStepsLeft' < DiscoveryStepsLeft
<1>0. DiscoveryTypeOK /\ TypeOK /\ Ends /\ DiscoveryTypeOK'
  BY ListingNext DEF ListingInv, PlaceInv
<1>1. churn \in 0..MaxChurn /\ churn' \in 0..MaxChurn
  BY <1>0 DEF DiscoveryTypeOK
<1>. DEFINE Less == DiscoveryStepsLeft' < DiscoveryStepsLeft
<1>2. ASSUME CallerStep, UNCHANGED listing PROVE Less
  BY <1>2, LessIsLeftOfAll DEF Next, listing
<1>3. ASSUME NEW w \in WorkerIds, Take(w) \/ Exit(w), UNCHANGED listing PROVE Less
  BY <1>3, LessIsLeftOfAll DEF Next, WorkerStep, listing
<1>4. ASSUME NEW w \in WorkerIds, NEW p \in AllProjects, Answer(w, p), UNCHANGED listing
      PROVE  Less
  BY <1>4, LessIsLeftOfAll DEF Next, WorkerStep, listing
<1>5. ASSUME NEW w \in WorkerIds, NEW p \in AllProjects, Succeeds(w, p) \/ Fails(w, p)
      PROVE  Less
  BY <1>5, LessIsLeftOfAll DEF Next, WorkerStep, Succeeds, Fails, listing
<1>6. ASSUME NEW w \in WorkerIds, NEW p \in AllProjects, Begin(w, p) PROVE Less
  <2>1. /\ p \notin begun /\ begun' = begun \cup {p} /\ UNCHANGED <<vars, churn>>
        /\ \A q \in AllProjects : q # p => parts'[q] = parts[q]
        /\ parts'[p] \subseteq PartsOf[p]
    BY <1>0, <1>6 DEF Begin, DiscoveryTypeOK, Clusters
  <2>2. ToBegin' \subseteq ToBegin /\ ToBegin' # ToBegin
    BY <2>1 DEF ToBegin
  <2>3. ToList' \subseteq ToList
    BY <2>1 DEF ToList
  <2> QED
    BY <1>0, <1>1, <2>1, <2>2, <2>3, LessIsToList
<1>7. ASSUME NEW w \in WorkerIds, NEW p \in AllProjects, ListPart(w, p) \/ SkipCluster(w, p)
      PROVE  Less
  <2>1. UNCHANGED <<vars, begun, churn>> /\ Calls(w, p)
    BY <1>7 DEF ListPart, SkipCluster
  <2>2. PICK s \in parts[p] : parts' = [parts EXCEPT ![p] = @ \ {s}]
    BY <1>7 DEF ListPart, SkipCluster, Failed
  <2>3. p \in begun /\ s \in Parts
    BY <1>0, <2>1, <2>2, Calling DEF Ends, DiscoveryTypeOK
  <2>4. /\ parts'[p] = parts[p] \ {s}
        /\ \A q \in AllProjects : q # p => parts'[q] = parts[q]
    BY <1>0, <2>2 DEF DiscoveryTypeOK
  <2>5. ToList' \subseteq ToList
    BY <2>1, <2>3, <2>4 DEF ToList
  <2>6. <<p, s>> \in ToList /\ <<p, s>> \notin ToList'
    BY <2>1, <2>2, <2>3, <2>4 DEF ToList
  <2>7. ToBegin' = ToBegin
    BY <2>1 DEF ToBegin
  <2> QED
    BY <1>0, <1>1, <2>1, <2>5, <2>6, <2>7, LessIsToList
<1>8. ASSUME NEW r \in Resources, Churn(r) PROVE Less
  <2>1. UNCHANGED vars /\ churn' = churn + 1 /\ UNCHANGED <<begun, parts>>
    BY <1>8 DEF Churn
  <2>2. ToBegin' = ToBegin /\ ToList' = ToList
    BY <2>1 DEF ToBegin, ToList
  <2> QED
    BY <1>0, <1>1, <2>1, <2>2, LessIsToList
<1>. HIDE DEF Less
<1>9. ASSUME NEW w \in WorkerIds, DiscoveryWorkerStep(w) PROVE Less
  BY <1>3, <1>4, <1>5, <1>6, <1>7, <1>9 DEF DiscoveryWorkerStep, Supplier
<1>10. Less
  BY <1>2, <1>8, <1>9 DEF DiscoveryNext
<1> QED
  BY <1>10 DEF Less

\* A discovery takes finitely many steps, whatever its listings, failures and churn
\* are, and before it has ended it can always take one: a worker that is inside a
\* supplier makes the first call, asks for a part that is still to come or, if there
\* is none, returns.
THEOREM EveryDiscoveryStepCounts ==
  DiscoverySpec =>
    /\ []NeverStuck
    /\ [](DiscoveryStepsLeft \in Nat)
    /\ [][DiscoveryStepsLeft' < DiscoveryStepsLeft]_discoveryVars
<1>1. ListingInv => DiscoveryStepsLeft \in Nat
  <2> SUFFICES ASSUME ListingInv PROVE DiscoveryStepsLeft \in Nat
    OBVIOUS
  <2>1. StepsLeft \in Nat /\ churn \in 0..MaxChurn
    BY StepsLeftType DEF ListingInv, DiscoveryTypeOK
  <2>2. Cardinality(ToBegin) \in Nat /\ Cardinality(ToList) \in Nat
    BY FiniteListing, FS_CardinalityType
  <2> QED
    BY <2>1, <2>2, BoundsAssumption DEF DiscoveryStepsLeft
<1>2. ListingInv /\ [DiscoveryNext]_discoveryVars
        => [DiscoveryStepsLeft' < DiscoveryStepsLeft]_discoveryVars
  BY FewerDiscoverySteps
<1> QED
  BY ImplementsFanOut, NoDeadlock, ListingInvariant, <1>1, <1>2, PTL DEF DiscoverySpec

===============================================================================
