----------------------------- MODULE VmStateProofs -----------------------------
(***************************************************************************)
(* Theorems about VmState, for any number of VMs, places, executions and   *)
(* lost answers.                                                           *)
(***************************************************************************)

EXTENDS VmState, FiniteSetTheorems, TLAPS

\* What Executions only gives a name to.
USE DEF executions, ExecutionsTypeOK, ExecutionsInit, Goto

\* A VM is where it was created until it is deleted, and nothing else is there.
Placed ==
  /\ \A p \in Places : at[p] # None => status[at[p]] \notin {"unborn", "deleted"}
  /\ \A p, q \in Places : at[p] # None /\ at[p] = at[q] => p = q

\* What an execution knows leads to where its target was discovered, and so to the
\* target or, once that is deleted, to whatever took its place.
Known(e) ==
  /\ target[e] \in Ids /\ address[e] \in Places /\ address[e] = place[e]
  /\ status[target[e]] # "unborn"
  /\ at[address[e]] = target[e] \/ status[target[e]] = "deleted"
Addressed == \A e \in Execs : phase[e] \notin {"new", "failed"} => Known(e)

\* What the service has accepted was submitted as requested.
Accepted ==
  \A op \in pending :
      /\ \E h \in hits[op[1]] : h[2] = op[2]
    /\ op[3] = action[op[1]]

\* Before Prepare nothing was submitted; what was hit exists or did.
Unprepared == \A e \in Execs : phase[e] \in {"new", "failed"} => hits[e] = {}
Existed == \A e \in Execs : \A h \in hits[e] : status[h[2]] # "unborn"

\* A Start that goes on to the call has a call to make and a number of its own, under
\* which there is nothing yet.
Selected ==
  \A e \in Execs : phase[e] = "calling" => action[e] \in Actions /\ starts[e] \in 1..MaxStarts
Numbered ==
  \A e \in Execs :
    /\ IsFiniteSet(hits[e])
    /\ \A h \in hits[e] : h[1] <= starts[e] /\ (phase[e] = "calling" => h[1] # starts[e])

IInv ==
  /\ TypeOK /\ Placed /\ Addressed /\ Accepted /\ Unprepared /\ Existed
  /\ Selected /\ Numbered

-------------------------------------------------------------------------------

\* At first nothing is requested.
LEMMA InitIInv == Init => IInv
BY NoneAssumption, BoundsAssumption, FS_EmptySet
   DEF Init, IInv, TypeOK, Placed, Addressed, Accepted, Unprepared, Existed, Selected,
       Numbered, Statuses, Phases

\* An operation leaves a VM in a status it may have.
LEMMA OutcomeType == \A a \in Actions : Outcome(a) \in Statuses \ {"unborn"}
BY DEF Outcome, Actions, Statuses

\* Only a deletion leads to "deleted".
LEMMA OutcomeDeleted == \A a \in Actions : Outcome(a) = "deleted" <=> a = "delete"
BY DEF Outcome, Actions

-------------------------------------------------------------------------------
(* Steps of the others                                                       *)

\* A new VM takes a free place.
LEMMA CreateStep ==
  ASSUME IInv, NEW p \in Places, Create(p)
  PROVE  IInv'
<1> USE NoneAssumption DEF IInv
<1>1. PICK v \in Ids : /\ at[p] = None /\ status[v] = "unborn"
                       /\ at' = [at EXCEPT ![p] = v]
                       /\ status' = [status EXCEPT ![v] = "RUNNING"]
      BY DEF Create
<1>2. UNCHANGED <<pending, phase, target, place, address, action, starts, hits, faults>>
      BY DEF Create
<1>3. TypeOK'
      BY <1>1, <1>2 DEF TypeOK, Statuses
<1>4. Placed'
      BY <1>1, <1>2 DEF TypeOK, Placed
<1>5. Addressed'
      BY <1>1, <1>2 DEF TypeOK, Addressed, Known
<1>6. Accepted' /\ Unprepared' /\ Existed' /\ Selected' /\ Numbered'
      BY <1>1, <1>2 DEF TypeOK, Accepted, Unprepared, Existed, Selected, Numbered
<1> QED
    BY <1>3, <1>4, <1>5, <1>6

\* An operation changes the VM it was submitted for, and no place but its own.
LEMMA CarryOutStep ==
  ASSUME IInv, NEW op \in Execs \X Ids \X Actions, CarryOut(op)
  PROVE  IInv'
<1> USE NoneAssumption DEF IInv
<1>1. UNCHANGED <<phase, target, place, address, action, starts, hits, faults>>
      BY DEF CarryOut
<1>2. \A v \in Ids : status'[v] = IF v = op[2] /\ status[v] # "deleted"
                                    THEN Outcome(op[3]) ELSE status[v]
      BY DEF CarryOut, TypeOK
<1>3. \A p \in Places : at'[p] = IF op[3] = "delete" /\ at[p] = op[2] THEN None ELSE at[p]
      BY DEF CarryOut
<1>4. status[op[2]] # "unborn"
      BY DEF CarryOut, Accepted, Existed
<1>5. \A v \in Ids : status'[v] = "unborn" <=> status[v] = "unborn"
      BY <1>2, <1>4, OutcomeType DEF Statuses
<1>6. \A v \in Ids : status'[v] = "deleted"
                       <=> status[v] = "deleted" \/ (v = op[2] /\ op[3] = "delete")
      BY <1>2, OutcomeDeleted
<1>7. TypeOK'
  <2>1. status' \in [Ids -> Statuses]
        BY <1>2, OutcomeType DEF CarryOut, TypeOK
  <2>2. at' \in [Places -> Ids \cup {None}] /\ pending' \subseteq Execs \X Ids \X Actions
        BY DEF CarryOut, TypeOK
  <2> QED
      BY <1>1, <2>1, <2>2 DEF TypeOK
<1>8. Placed'
      BY <1>3, <1>5, <1>6 DEF Placed, TypeOK
<1>9. Addressed'
      BY <1>1, <1>3, <1>5, <1>6 DEF Addressed, Known, TypeOK
<1>10. Accepted' /\ Unprepared' /\ Selected' /\ Numbered'
      BY <1>1 DEF CarryOut, Accepted, Unprepared, Selected, Numbered
<1>11. Existed'
      BY <1>1, <1>5 DEF Existed, TypeOK
<1> QED
    BY <1>7, <1>8, <1>9, <1>10, <1>11

-------------------------------------------------------------------------------
(* Steps of the attack                                                       *)

\* Prepare copies the address of the target.
LEMMA PrepareStep ==
  ASSUME IInv, NEW e \in Execs, Prepare(e) \/ PrepareFails(e)
  PROVE  IInv'
<1> USE NoneAssumption DEF IInv
<1>1. UNCHANGED <<at, status, pending, starts, hits, faults>> /\ phase[e] = "new"
      BY DEF Prepare, PrepareFails
<1>2. PICK ph \in {"prepared", "failed"} : phase' = [phase EXCEPT ![e] = ph]
      BY DEF Prepare, PrepareFails
<1>3. hits[e] = {} /\ ~ \E op \in pending : op[1] = e
      BY <1>1 DEF Unprepared, Accepted
<1>4. CASE Prepare(e)
  <2>1. PICK p \in Places, r \in Requests :
          /\ at[p] # None
          /\ target' = [target EXCEPT ![e] = at[p]]
          /\ place' = [place EXCEPT ![e] = p]
          /\ address' = [address EXCEPT ![e] = p]
          /\ action' = [action EXCEPT ![e] = r]
        BY <1>4 DEF Prepare, Address
  <2>2. TypeOK'
        BY <1>1, <1>2, <2>1 DEF TypeOK, Phases
  <2>3. Known(e)'
        BY <1>1, <2>1 DEF Known, TypeOK, Placed
  <2>4. Addressed'
        BY <1>1, <1>2, <2>1, <2>3 DEF Addressed, Known, TypeOK
  <2>5. Accepted' /\ Unprepared' /\ Existed' /\ Selected' /\ Numbered'
        BY <1>1, <1>2, <1>3, <2>1 DEF Accepted, Unprepared, Existed, Selected, Numbered, TypeOK
  <2> QED
      BY <1>1, <2>2, <2>4, <2>5 DEF Placed
<1>5. CASE PrepareFails(e)
  <2>1. UNCHANGED <<target, place, address, action>> /\ phase' = [phase EXCEPT ![e] = "failed"]
        BY <1>5 DEF PrepareFails
  <2> QED
      BY <1>1, <1>3, <2>1
         DEF TypeOK, Phases, Placed, Addressed, Known, Accepted, Unprepared, Existed, Selected,
             Numbered
<1> QED
    BY <1>4, <1>5

\* Start selects the call, or gives up.
LEMMA StartStep ==
  ASSUME IInv, NEW e \in Execs, Start(e)
  PROVE  IInv'
<1> USE NoneAssumption, BoundsAssumption DEF IInv
<1>1. /\ UNCHANGED <<at, status, pending, target, place, address, action, hits>>
      /\ phase[e] \in {"prepared", "err"} /\ starts[e] + 1 \in 1..MaxStarts
      /\ starts' = [starts EXCEPT ![e] = @ + 1]
      BY DEF Start, Called, TypeOK
<1>2. PICK to \in {"calling", "err"} :
        /\ phase' = [phase EXCEPT ![e] = to]
        /\ to = "calling" => action[e] \in Actions
      BY DEF Start, Operation
<1>3. faults' \in 0..MaxFaults
      BY DEF Start, Fault, TypeOK
<1>4. TypeOK'
      BY <1>1, <1>2, <1>3 DEF TypeOK, Phases
<1>5. Placed' /\ Accepted' /\ Unprepared' /\ Existed'
      BY <1>1, <1>2 DEF Placed, Accepted, Unprepared, Existed, TypeOK
<1>6. Addressed'
      BY <1>1, <1>2 DEF Addressed, Known, TypeOK
<1>7. Selected'
      BY <1>1, <1>2 DEF Selected, TypeOK
<1>8. Numbered'
  <2> SUFFICES ASSUME NEW f \in Execs, NEW h \in hits[f]
               PROVE  h[1] <= starts'[f] /\ (phase'[f] = "calling" => h[1] # starts'[f])
      BY <1>1 DEF Numbered
  <2>1. h[1] \in Nat /\ starts[f] \in Nat /\ h[1] <= starts[f]
        BY DEF TypeOK, Numbered
  <2>2. CASE f = e
        BY <1>1, <2>1, <2>2 DEF TypeOK
  <2>3. CASE f # e
        BY <1>1, <1>2, <2>1, <2>3 DEF TypeOK, Numbered
  <2> QED
      BY <2>2, <2>3
<1> QED
    BY <1>4, <1>5, <1>6, <1>7, <1>8

\* The call submits what was requested, on what is at the address, or nothing.
LEMMA SubmitStep ==
  ASSUME IInv, NEW e \in Execs, Submit(e) \/ SubmitAnswerLost(e) \/ SubmitFails(e)
  PROVE  IInv'
<1> USE NoneAssumption, BoundsAssumption DEF IInv
<1>1. UNCHANGED <<at, status, target, place, address, action, starts>> /\ phase[e] = "calling"
      BY DEF Submit, SubmitAnswerLost, SubmitFails
<1>2. PICK to \in {"ok", "err"} : phase' = [phase EXCEPT ![e] = to]
      BY DEF Submit, SubmitAnswerLost, SubmitFails
<1>3. faults' \in 0..MaxFaults
      BY DEF Submit, SubmitAnswerLost, SubmitFails, Fault, TypeOK
<1>4. Known(e) /\ action[e] \in Actions /\ starts[e] \in 1..MaxStarts
      BY <1>1 DEF Addressed, Selected
<1>5. CASE Submit(e) \/ SubmitAnswerLost(e)
  <2> DEFINE v == at[address[e]]
  <2>1. Submitted(e)
        BY <1>5 DEF Submit, SubmitAnswerLost
  <2>2. v \in Ids /\ status[v] # "unborn"
        BY <2>1, <1>4 DEF Submitted, Known, TypeOK, Placed
  <2>3. /\ pending' = pending \cup {<<e, v, action[e]>>}
        /\ hits' = [hits EXCEPT ![e] = @ \cup {<<starts[e], v>>}]
        BY <2>1, <1>4 DEF Submitted, Operation
  <2>4. TypeOK'
        BY <1>1, <1>2, <1>3, <1>4, <2>2, <2>3 DEF TypeOK, Phases
  <2>5. Placed' /\ Addressed' /\ Selected'
        BY <1>1, <1>2, <1>4 DEF Placed, Addressed, Known, Selected, TypeOK
  <2>6. Accepted'
    <3>1. hits[e] \subseteq hits'[e] /\ <<starts[e], v>> \in hits'[e]
          BY <2>3 DEF TypeOK
    <3>2. \A f \in Execs : f # e => hits'[f] = hits[f]
          BY <2>3 DEF TypeOK
    <3>3. \A f \in Execs : hits[f] \subseteq hits'[f]
          BY <3>1, <3>2
    <3>4. ASSUME NEW op \in pending'
          PROVE  (\E h \in hits'[op[1]] : h[2] = op[2]) /\ op[3] = action[op[1]]
      <4>1. CASE op \in pending
        <5>1. op[1] \in Execs
              BY <4>1 DEF TypeOK
        <5> QED
            BY <4>1, <5>1, <3>3 DEF Accepted
      <4>2. CASE op = <<e, v, action[e]>>
        <5>1. <<starts[e], v>>[2] = op[2]
              BY <4>2
        <5> QED
            BY <4>2, <5>1, <3>1
      <4> QED
          BY <2>3, <4>1, <4>2
    <3> QED
        BY <1>1, <3>4 DEF Accepted
  <2>7. Unprepared' /\ Existed'
        BY <1>1, <1>2, <2>2, <2>3 DEF Unprepared, Existed, TypeOK
  <2>8. Numbered'
    <3> SUFFICES ASSUME NEW f \in Execs
                 PROVE  /\ IsFiniteSet(hits'[f])
                        /\ \A h \in hits'[f] :
                             h[1] <= starts[f] /\ (phase'[f] = "calling" => h[1] # starts[f])
        BY <1>1 DEF Numbered
    <3>1. CASE f = e
      <4>1. IsFiniteSet(hits'[e])
        <5>1. hits'[e] = hits[e] \cup {<<starts[e], v>>} /\ IsFiniteSet(hits[e])
              BY <2>3 DEF TypeOK, Numbered
        <5> QED
            BY <5>1, FS_AddElement
      <4>2. phase'[e] # "calling" /\ \A h \in hits'[e] : h[1] <= starts[e]
            BY <1>2, <1>4, <2>3 DEF TypeOK, Numbered
      <4> QED
          BY <3>1, <4>1, <4>2
    <3>2. CASE f # e
          BY <1>2, <2>3, <3>2 DEF TypeOK, Numbered
    <3> QED
        BY <3>1, <3>2
  <2> QED
      BY <2>4, <2>5, <2>6, <2>7, <2>8
<1>6. CASE SubmitFails(e)
  <2>1. UNCHANGED <<pending, hits>> /\ phase' = [phase EXCEPT ![e] = "err"]
        BY <1>6 DEF SubmitFails
  <2>2. TypeOK'
        BY <1>1, <1>3, <2>1 DEF TypeOK, Phases
  <2> QED
      BY <1>1, <1>4, <2>1, <2>2
         DEF TypeOK, Placed, Addressed, Known, Accepted, Unprepared, Existed, Selected, Numbered
<1> QED
    BY <1>5, <1>6

\* Hence always.
LEMMA Invariance == Spec => []IInv
<1>1. IInv /\ UNCHANGED vars => IInv'
      BY DEF IInv, vars, TypeOK, Placed, Addressed, Known, Accepted, Unprepared, Existed,
             Selected, Numbered
<1>2. IInv /\ [Next]_vars => IInv'
      BY <1>1, CreateStep, CarryOutStep, PrepareStep, StartStep, SubmitStep DEF Next
<1> QED
    BY InitIInv, <1>2, PTL DEF Spec

-------------------------------------------------------------------------------

\* The type invariant of VMs, operations and executions.
THEOREM TypeCorrect == Spec => []TypeOK
BY Invariance, PTL DEF IInv

\* What is hit is what is where the target was discovered, and another VM than the
\* discovered one only once that is deleted, however late or often Start is called.
THEOREM OnlyASuccessorHolds == Spec => OnlyASuccessorIsHitInstead
<1>1. IInv /\ [Next]_vars
        => [\A e \in Execs : \A h \in hits'[e] \ hits[e] :
              /\ h[2] = at[place[e]]
              /\ h[2] = target[e] \/ status[target[e]] = "deleted"]_vars
  <2> SUFFICES ASSUME IInv, [Next]_vars, NEW e \in Execs, NEW h \in hits'[e] \ hits[e]
               PROVE  /\ h[2] = at[place[e]]
                      /\ h[2] = target[e] \/ status[target[e]] = "deleted"
      OBVIOUS
  <2>1. PICK f \in Execs : Submit(f) \/ SubmitAnswerLost(f)
        BY DEF Next, vars, Create, CarryOut, Prepare, PrepareFails, Start, SubmitFails
  <2>2. phase[f] = "calling" /\ Submitted(f)
        BY <2>1 DEF Submit, SubmitAnswerLost
  <2>3. f = e /\ h[2] = at[address[e]]
        BY <2>2 DEF Submitted, IInv, TypeOK
  <2>4. Known(e)
        BY <2>2, <2>3 DEF IInv, Addressed
  <2> QED
      BY <2>3, <2>4 DEF Known
<1> QED
    BY Invariance, <1>1, PTL DEF Spec, OnlyASuccessorIsHitInstead

\* A VM's state only changes to what an execution that hit it asked for.
THEOREM ChangesAsRequestedHolds == Spec => ChangesAsRequested
<1>1. IInv /\ [Next]_vars
        => [\A v \in Ids : status'[v] # status[v] /\ status[v] # "unborn" =>
              \E e \in Execs : /\ \E h \in hits[e] : h[2] = v
                               /\ action[e] \in Actions /\ status'[v] = Outcome(action[e])]_vars
  <2> SUFFICES ASSUME IInv, [Next]_vars, NEW v \in Ids, status'[v] # status[v],
                      status[v] # "unborn"
               PROVE  \E e \in Execs :
                        /\ \E h \in hits[e] : h[2] = v
                        /\ action[e] \in Actions /\ status'[v] = Outcome(action[e])
      OBVIOUS
  <2>1. ASSUME NEW p \in Places, Create(p) PROVE FALSE
        BY <2>1 DEF Create, IInv, TypeOK
  <2>2. PICK op \in Execs \X Ids \X Actions : CarryOut(op)
        BY <2>1 DEF Next, vars, Prepare, PrepareFails, Start, Submit, SubmitAnswerLost,
               SubmitFails
  <2>3. v = op[2] /\ status'[v] = Outcome(op[3])
        BY <2>2 DEF CarryOut, IInv, TypeOK
  <2>4. (\E h \in hits[op[1]] : h[2] = op[2]) /\ op[3] = action[op[1]]
        BY <2>2 DEF CarryOut, IInv, Accepted
  <2> QED
      BY <2>3, <2>4
<1> QED
    BY Invariance, <1>1, PTL DEF Spec, ChangesAsRequested

-------------------------------------------------------------------------------
(* One shot                                                                  *)

\* A step of one execution, as OneShot sees it.
LEMMA StageOfOther ==
  ASSUME NEW e \in Execs, NEW p, phase' = [phase EXCEPT ![e] = p], TypeOK,
         NEW s, Stage(e)' = s
  PROVE  [f \in Execs |-> Stage(f)]' = [[f \in Execs |-> Stage(f)] EXCEPT ![e] = s]
<1>1. \A f \in Execs : f # e => Stage(f)' = Stage(f)
      BY DEF TypeOK, Stage
<1> QED
    BY <1>1

\* An operation is counted for the execution that submitted it, once.
LEMMA SubmittedCounts ==
  ASSUME IInv, NEW e \in Execs, phase[e] = "calling", Submitted(e)
  PROVE  [f \in Execs |-> Cardinality(hits[f])]'
           = [[f \in Execs |-> Cardinality(hits[f])] EXCEPT ![e] = @ + 1]
<1> DEFINE new == <<starts[e], at[address[e]]>>
<1>1. hits' = [hits EXCEPT ![e] = @ \cup {new}] /\ new \notin hits[e] /\ IsFiniteSet(hits[e])
      BY DEF Submitted, IInv, Numbered
<1> HIDE DEF new
<1>2. Cardinality(hits[e] \cup {new}) = Cardinality(hits[e]) + 1
      BY <1>1, FS_AddElement
<1>3. hits'[e] = hits[e] \cup {new} /\ \A f \in Execs : f # e => hits'[f] = hits[f]
      BY <1>1 DEF IInv, TypeOK
<1> QED
    BY <1>2, <1>3

\* The VM state attack implements OneShot, which Memorystore's and Cloud SQL's
\* failovers implement as well: each Start submits at most one operation, answered
\* or not, and one if it reports success.
THEOREM KeepsPromise == Spec => Promise
<1> DEFINE stage == [e \in Execs |-> Stage(e)]
           effects == [e \in Execs |-> Cardinality(hits[e])]
<1>1. Init => Attack!Init
      BY FS_EmptySet DEF Init, Attack!Init, Stage
<1>2. IInv /\ [Next]_vars => [Attack!Next]_(Attack!vars)
  <2> SUFFICES ASSUME IInv, [Next]_vars PROVE [Attack!Next]_(Attack!vars)
      OBVIOUS
  <2> USE DEF Attack!Next, Attack!vars
  <2>1. TypeOK
        BY DEF IInv
  <2>2. ASSUME UNCHANGED <<phase, hits>> PROVE UNCHANGED Attack!vars
    <3>1. \A e \in Execs : Stage(e)' = Stage(e)
          BY <2>2 DEF Stage
    <3> QED
        BY <2>2, <3>1
  <2>3. CASE \/ UNCHANGED vars
             \/ \E p \in Places : Create(p)
             \/ \E op \in Execs \X Ids \X Actions : CarryOut(op)
        BY <2>2, <2>3 DEF vars, Create, CarryOut
  <2>4. ASSUME NEW e \in Execs, Prepare(e) \/ PrepareFails(e) PROVE Attack!Decide(e)
    <3>1. PICK p \in {"prepared", "failed"} : phase' = [phase EXCEPT ![e] = p]
          BY <2>4 DEF Prepare, PrepareFails
    <3>2. Stage(e)' \in {"confirmed", "refused"}
          BY <2>1, <3>1 DEF TypeOK, Stage
    <3>3. stage[e] = "new" /\ UNCHANGED hits
          BY <2>4 DEF Prepare, PrepareFails, Stage
    <3> QED
        BY <2>1, <3>1, <3>2, <3>3, StageOfOther DEF Attack!Decide
  <2>5. ASSUME NEW e \in Execs, Start(e) PROVE Attack!Call(e) \/ Attack!Fail(e)
    <3>1. PICK p \in {"calling", "err"} : phase' = [phase EXCEPT ![e] = p]
          BY <2>5 DEF Start
    <3>2. Stage(e)' = IF p = "calling" THEN "calling" ELSE "failed"
          BY <2>1, <3>1 DEF TypeOK, Stage
    <3>3. stage[e] \in {"confirmed", "failed"} /\ UNCHANGED hits
          BY <2>5 DEF Start, Called, Stage
    <3> QED
        BY <2>1, <3>1, <3>2, <3>3, StageOfOther DEF Attack!Call, Attack!Fail
  <2>6. ASSUME NEW e \in Execs, Submit(e) \/ SubmitAnswerLost(e) PROVE Attack!Effect(e)
    <3>1. PICK p \in {"ok", "err"} : phase' = [phase EXCEPT ![e] = p]
          BY <2>6 DEF Submit, SubmitAnswerLost
    <3>2. Stage(e)' \in {"done", "failed"}
          BY <2>1, <3>1 DEF TypeOK, Stage
    <3>3. phase[e] = "calling" /\ Submitted(e)
          BY <2>6 DEF Submit, SubmitAnswerLost
    <3>4. stage[e] = "calling"
          BY <3>3 DEF Stage
    <3> QED
        BY <2>1, <3>1, <3>2, <3>3, <3>4, StageOfOther, SubmittedCounts DEF Attack!Effect
  <2>7. ASSUME NEW e \in Execs, SubmitFails(e) PROVE Attack!Fail(e)
    <3>1. phase' = [phase EXCEPT ![e] = "err"]
          BY <2>7 DEF SubmitFails
    <3>2. Stage(e)' = "failed"
          BY <2>1, <3>1 DEF TypeOK, Stage
    <3>3. stage[e] = "calling" /\ UNCHANGED hits
          BY <2>7 DEF SubmitFails, Stage
    <3> QED
        BY <2>1, <3>1, <3>2, <3>3, StageOfOther DEF Attack!Fail
  <2> QED
      BY <2>3, <2>4, <2>5, <2>6, <2>7 DEF Next
<1> QED
    BY Invariance, <1>1, <1>2, PTL DEF Spec, Promise, Attack!Spec

===============================================================================
