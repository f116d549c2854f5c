---------------------------- MODULE CloudNatProofs ----------------------------
(***************************************************************************)
(* What holds of CloudNat for every set of NATs, configurations and        *)
(* executions, and every bound on faults and edits.                        *)
(***************************************************************************)

EXTENDS CloudNat, FiniteSetTheorems, TLAPS

USE TargetAssumption, NoneAssumption, FlagAssumption, BoundAssumption

-------------------------------------------------------------------------------
(* The operators on routers.                                                 *)

\* removeNat and restoreNat keep a router a router.
LEMMA RouterOps ==
  ASSUME NEW r \in Routers, NEW n \in Nats, NEW c \in Configs
  PROVE  /\ WithoutNat(r, n) \in Routers
         /\ WithNat(r, n, c) \in Routers
<1>1. <<>> \in Seq(Configs) /\ <<c>> \in Seq(Configs)
  OBVIOUS
<1>2. ASSUME HasNat(r, n) PROVE [r[n] EXCEPT ![1] = c] \in Seq(Configs)
  BY <1>2 DEF HasNat, Routers
<1>3. WithoutNat(r, n) \in Routers
  BY <1>1 DEF WithoutNat, Routers
<1>4. WithNat(r, n, c) \in Routers
  BY <1>1, <1>2 DEF WithNat, Routers
<1> QED BY <1>3, <1>4

\* What an operator leaves under a name is none or one entry.
LEMMA EntryShape ==
  ASSUME NEW entry \in Entry
  PROVE  entry \in Seq(Configs) /\ Len(entry) <= 1
<1>1. CASE entry = <<>>
  BY <1>1
<1>2. CASE \E c \in Configs : entry = <<c>>
  <2>1. PICK c \in Configs : entry = <<c>>
    BY <1>2
  <2>2. <<c>> \in Seq(Configs) /\ Len(<<c>>) = 1
    OBVIOUS
  <2> QED BY <2>1, <2>2
<1> QED BY <1>1, <1>2 DEF Entry

\* A call that holds nothing holds a router without NATs.
LEMMA NoRouterType == NoRouter \in Routers
BY DEF NoRouter, Routers

-------------------------------------------------------------------------------
(* Type correctness.                                                         *)

\* A call in its window belongs to an execution that has a snapshot, so
\* restoreNat never patches with an empty one.
SnapshotTaken ==
  /\ \A e \in Execs : phase[e] \in {"new", "failed"} => snapshot[e] = None
  /\ \A e \in Execs : phase[e] \notin {"new", "failed"} => snapshot[e] \in Configs
  /\ \A e \in Execs, h \in Handlers :
       InWindow(e, h) => phase[e] \notin {"new", "failed"}

TInv == TypeOK /\ SnapshotTaken

\* What a Patch sends is a router.
LEMMA PatchedType ==
  ASSUME TInv, NEW e \in Execs, NEW h \in Handlers, InWindow(e, h)
  PROVE  Patched(e, h) \in Routers
<1>1. fetched[e][h] \in Routers /\ snapshot[e] \in Configs /\ Target[e] \in Nats
  BY DEF TInv, TypeOK, SnapshotTaken
<1> QED BY <1>1, RouterOps DEF Patched

\* Types hold at first, no snapshot is taken and no call has begun.
LEMMA TInvInit == Init => TInv
<1> SUFFICES ASSUME Init PROVE TInv
  OBVIOUS
<1>1. router \in Routers
  BY EntryShape DEF Init, Routers
<1>2. fetched \in [Execs -> [Handlers -> Routers]]
  BY NoRouterType DEF Init
<1> QED BY <1>1, <1>2 DEF Init, TInv, TypeOK, SnapshotTaken, InWindow

\* What the service accepts is an operation.
LEMMA AcceptedType ==
  ASSUME TInv, NEW e \in Execs, NEW h \in Handlers, InWindow(e, h), Accept(e, h)
  PROVE  pending' \subseteq Operations
<1>1. Patched(e, h) \in Routers /\ faults \in 0..MaxFaults /\ pending \subseteq Operations
  BY PatchedType DEF TInv, TypeOK
<1>2. [exec |-> e, call |-> h, nats |-> Patched(e, h), after |-> faults] \in Operations
  BY <1>1 DEF Operations
<1> QED BY <1>1, <1>2 DEF Accept

\* Carrying one out makes the list the router, or leaves the router as it is.
LEMMA WrittenIs ==
  ASSUME NEW nats, NEW r \in Written(nats)
  PROVE  r = nats \/ (r = router /\ nats = NoRouter)
BY DEF Written

\* Every step keeps the types; only Prepare takes a snapshot, and calls come after it.
LEMMA TInvNext == TInv /\ [Next]_vars => TInv'
<1> SUFFICES ASSUME TInv, [Next]_vars PROVE TInv'
  OBVIOUS
<1> USE DEF TInv, TypeOK, SnapshotTaken, InWindow
<1>1. ASSUME NEW e \in Execs, Prepare(e) PROVE TInv'
  <2>1. router[Target[e]][1] \in Configs
    BY <1>1 DEF Prepare, HasNat, Routers
  <2> QED BY <1>1, <2>1 DEF Prepare
<1>2. ASSUME NEW e \in Execs, PrepareFails(e) PROVE TInv'
  BY <1>2 DEF PrepareFails, Fault
<1>3. ASSUME NEW e \in Execs, StartFindsNatGone(e) PROVE TInv'
  BY <1>3 DEF StartFindsNatGone, SetPc, Handlers
<1>4. ASSUME NEW e \in Execs, StopWithoutSnapshot(e) PROVE TInv'
  BY <1>4 DEF StopWithoutSnapshot, SetPc, Handlers
<1>5. ASSUME NEW e \in Execs, AgentCrash(e) PROVE TInv'
  BY <1>5 DEF AgentCrash
<1>6. ASSUME NEW e \in Execs, NEW h \in Handlers, Get(e, h) PROVE TInv'
  BY <1>6 DEF Get, MayAsk, MayCall, HasSnapshot, SetPc, Keep
<1>7. ASSUME NEW e \in Execs, NEW h \in Handlers, GetFails(e, h) PROVE TInv'
  BY <1>7 DEF GetFails, Fault, SetPc
<1>8. ASSUME NEW e \in Execs, NEW h \in Handlers, Patch(e, h) PROVE TInv'
  <2>1. pending' \subseteq Operations
    BY <1>8, AcceptedType DEF Patch
  <2> QED BY <1>8, <2>1, NoRouterType DEF Patch, Keep, SetPc
<1>9. ASSUME NEW e \in Execs, NEW h \in Handlers, PatchAnswerLost(e, h) PROVE TInv'
  <2>1. pending' \subseteq Operations
    BY <1>9, AcceptedType DEF PatchAnswerLost
  <2> QED BY <1>9, <2>1, NoRouterType DEF PatchAnswerLost, Keep, SetPc, Fault
<1>10. ASSUME NEW e \in Execs, NEW h \in Handlers, PatchFails(e, h) PROVE TInv'
  BY <1>10, NoRouterType DEF PatchFails, Keep, SetPc, Fault
<1>11. ASSUME NEW n \in Nats, NEW entry \in Entry, OperatorEdit(n, entry) PROVE TInv'
  <2>1. entry \in Seq(Configs)
    BY EntryShape
  <2> QED BY <1>11, <2>1 DEF OperatorEdit, Routers
<1>12. ASSUME NEW op \in pending, CarryOut(op) PROVE TInv'
  <2>1. op.nats \in Routers /\ Target[op.exec] \in Nats
    BY DEF Operations
  <2>2. router' \in Routers
    BY <1>12, <2>1, WrittenIs DEF CarryOut
  <2> QED BY <1>12, <2>1, <2>2 DEF CarryOut
<1>13. ASSUME NEW op \in pending, OperationFails(op) PROVE TInv'
  <2>1. Target[op.exec] \in Nats
    BY DEF Operations
  <2> QED BY <1>13, <2>1 DEF OperationFails, Fault
<1>14. CASE UNCHANGED vars
  BY <1>14 DEF vars
<1> QED
  BY <1>1, <1>2, <1>3, <1>4, <1>5, <1>6, <1>7, <1>8, <1>9, <1>10, <1>11, <1>12, <1>13, <1>14
  DEF Next, ExecStep, Call, Finish, ServiceStep

\* Every variable keeps its type: in particular the bytes a Stop restores are
\* always a NAT configuration some Prepare snapshotted.
THEOREM TypeCorrect == Spec => []TypeOK
<1>1. TInv => TypeOK
  BY DEF TInv
<1> QED BY TInvInit, TInvNext, <1>1, PTL DEF Spec

-------------------------------------------------------------------------------
(* Restoring never duplicates.                                               *)

AtMostOne(r) == \A n \in Nats : Len(r[n]) <= 1

\* The invariant that carries NoDuplicateNat: the routers the calls hold in
\* memory, and the lists the service accepted, have no duplicate either, since any
\* of them may become the router.
NoDuplicateInv ==
  /\ TInv
  /\ AtMostOne(router)
  /\ \A e \in Execs, h \in Handlers : AtMostOne(fetched[e][h])
  /\ \A op \in pending : AtMostOne(op.nats)

\* Neither removing nor restoring makes a second NAT of a name.
LEMMA OpsAtMostOne ==
  ASSUME NEW r \in Routers, AtMostOne(r), NEW n \in Nats, NEW c \in Configs
  PROVE  AtMostOne(WithoutNat(r, n)) /\ AtMostOne(WithNat(r, n, c))
<1>1. ASSUME HasNat(r, n) PROVE Len([r[n] EXCEPT ![1] = c]) = Len(r[n])
  BY <1>1 DEF HasNat, Routers
<1>2. Len(<<>>) = 0 /\ Len(<<c>>) = 1
  OBVIOUS
<1>3. Len(r[n]) <= 1
  BY DEF AtMostOne
<1>4. \A m \in Nats : m # n => WithoutNat(r, n)[m] = r[m] /\ WithNat(r, n, c)[m] = r[m]
  BY DEF WithoutNat, WithNat, Routers
<1>5. Len(WithoutNat(r, n)[n]) <= 1
  BY <1>2 DEF WithoutNat, Routers
<1>6. Len(WithNat(r, n, c)[n]) <= 1
  BY <1>1, <1>2, <1>3 DEF WithNat, Routers
<1> QED BY <1>4, <1>5, <1>6 DEF AtMostOne

\* Nor does what a Patch sends.
LEMMA PatchedAtMostOne ==
  ASSUME NoDuplicateInv, NEW e \in Execs, NEW h \in Handlers, InWindow(e, h)
  PROVE  AtMostOne(Patched(e, h))
<1>1. fetched[e][h] \in Routers /\ snapshot[e] \in Configs /\ Target[e] \in Nats
  BY DEF NoDuplicateInv, TInv, TypeOK, SnapshotTaken
<1>2. AtMostOne(fetched[e][h])
  BY DEF NoDuplicateInv
<1> QED BY <1>1, <1>2, OpsAtMostOne DEF Patched

\* Nor what a call holds that holds nothing.
LEMMA NoRouterAtMostOne == AtMostOne(NoRouter)
BY DEF AtMostOne, NoRouter

\* Operators leave at most one NAT of a name.
LEMMA NoDuplicateInit == Init => NoDuplicateInv
BY TInvInit, EntryShape, NoRouterAtMostOne DEF Init, NoDuplicateInv, AtMostOne

\* Only a Patch adds to what the service accepted.
LEMMA PendingStep ==
  ASSUME [Next]_vars
  PROVE  \/ pending' \subseteq pending
         \/ \E e \in Execs, h \in Handlers : Patch(e, h) \/ PatchAnswerLost(e, h)
BY DEF Next, ExecStep, Call, Finish, ServiceStep, vars, Prepare, PrepareFails, StartFindsNatGone,
       StopWithoutSnapshot, AgentCrash, Get, GetFails, PatchFails, OperatorEdit, CarryOut,
       OperationFails

\* A Get copies the router, a Patch sends the copy: neither duplicates.
LEMMA NoDuplicateNext == NoDuplicateInv /\ [Next]_vars => NoDuplicateInv'
<1> SUFFICES ASSUME NoDuplicateInv, [Next]_vars PROVE NoDuplicateInv'
  OBVIOUS
<1>0. TInv /\ TInv'
  BY TInvNext DEF NoDuplicateInv
<1>1. AtMostOne(router')
  <2>1. ASSUME NEW op \in pending, CarryOut(op)
        PROVE AtMostOne(router')
    BY <2>1, WrittenIs DEF CarryOut, NoDuplicateInv
  <2>2. ASSUME NEW n \in Nats, NEW entry \in Entry, OperatorEdit(n, entry)
        PROVE AtMostOne(router')
    BY <2>2, EntryShape DEF OperatorEdit, NoDuplicateInv, TInv, TypeOK, AtMostOne, Routers
  <2>3. CASE UNCHANGED router
    BY <2>3 DEF NoDuplicateInv
  <2> QED
    BY <2>1, <2>2, <2>3
    DEF Next, ExecStep, Call, Finish, ServiceStep, vars, Prepare, PrepareFails,
        StartFindsNatGone, StopWithoutSnapshot, AgentCrash, Get, GetFails, Patch,
        PatchAnswerLost, PatchFails, OperationFails
<1>2. \A e \in Execs, h \in Handlers : AtMostOne(fetched'[e][h])
  <2>1. ASSUME NEW e \in Execs, NEW h \in Handlers, NEW r,
               AtMostOne(r), Keep(e, h, r)
        PROVE  \A d \in Execs, k \in Handlers : AtMostOne(fetched'[d][k])
    BY <2>1 DEF Keep, NoDuplicateInv, TInv, TypeOK
  <2>2. ASSUME NEW e \in Execs, NEW h \in Handlers, Get(e, h)
        PROVE  \A d \in Execs, k \in Handlers : AtMostOne(fetched'[d][k])
    BY <2>1, <2>2 DEF Get, NoDuplicateInv
  <2>3. ASSUME NEW e \in Execs, NEW h \in Handlers, Finish(e, h)
        PROVE  \A d \in Execs, k \in Handlers : AtMostOne(fetched'[d][k])
    BY <2>1, <2>3, NoRouterAtMostOne DEF Finish, Patch, PatchAnswerLost, PatchFails
  <2>4. CASE UNCHANGED fetched
    BY <2>4 DEF NoDuplicateInv
  <2> QED
    BY <2>2, <2>3, <2>4
    DEF Next, ExecStep, Call, ServiceStep, vars, Prepare, PrepareFails, StartFindsNatGone,
        StopWithoutSnapshot, AgentCrash, GetFails, OperatorEdit, CarryOut, OperationFails
<1>3. \A op \in pending' : AtMostOne(op.nats)
  <2>1. ASSUME NEW e \in Execs, NEW h \in Handlers, Patch(e, h) \/ PatchAnswerLost(e, h)
        PROVE  \A op \in pending' : AtMostOne(op.nats)
    BY <2>1, PatchedAtMostOne DEF Patch, PatchAnswerLost, Accept, NoDuplicateInv
  <2>2. CASE pending' \subseteq pending
    BY <2>2 DEF NoDuplicateInv
  <2> QED BY <2>1, <2>2, PendingStep
<1> QED BY <1>0, <1>1, <1>2, <1>3 DEF NoDuplicateInv, AtMostOne

\* NoDuplicateNat: however the windows of executions, retries, signal handlers and operators
\* overlap, the router never holds two NATs of one name.
THEOREM NoDuplicate == Spec => []NoDuplicateNat
<1>1. NoDuplicateInv => NoDuplicateNat
  BY DEF NoDuplicateInv, AtMostOne, NoDuplicateNat
<1> QED BY NoDuplicateInit, NoDuplicateNext, <1>1, PTL DEF Spec

-------------------------------------------------------------------------------
(* When windows overlap, operations are late and no operator edits the router. *)

\* Every entry of the router is absent or as the operators configured it.
Sound(r) == \A n \in Nats : r[n] \in {<<>>, intended[n]}

\* A router that a call holds in memory or that the service is to write, and any
\* snapshot, is stale but sound.
SoundInv ==
  /\ TInv
  /\ Sound(router)
  /\ \A e \in Execs, h \in Handlers : InWindow(e, h) => Sound(fetched[e][h])
  /\ \A op \in pending : Sound(op.nats)
  /\ \A e \in Execs : snapshot[e] # None => intended[Target[e]] = <<snapshot[e]>>

\* A Patch of a stale but sound router writes a sound one.
LEMMA SoundPatch ==
  ASSUME SoundInv, NEW e \in Execs, NEW h \in Handlers, InWindow(e, h)
  PROVE  Sound(Patched(e, h))
<1> DEFINE r == fetched[e][h]
           t == Target[e]
           c == snapshot[e]
<1>1. r \in Routers /\ Sound(r) /\ t \in Nats /\ c \in Configs
  BY DEF SoundInv, TInv, TypeOK, SnapshotTaken
<1>2. intended[t] = <<c>>
  BY <1>1, NoneAssumption DEF SoundInv
<1>3. [<<c>> EXCEPT ![1] = c] = <<c>>
  OBVIOUS
<1> HIDE DEF r, t, c
<1>4. Sound(WithoutNat(r, t))
  BY <1>1 DEF Sound, WithoutNat, Routers
<1>5. Sound(WithNat(r, t, c))
  BY <1>1, <1>2, <1>3 DEF Sound, WithNat, HasNat, Routers
<1> QED BY <1>4, <1>5 DEF Patched, r, t, c

\* At first the router is the intended one.
LEMMA SoundInit == Init => SoundInv
BY TInvInit DEF Init, SoundInv, Sound, InWindow

\* Without edits what is intended stays, so that stale copies stay sound.
LEMMA SoundNext == MaxEdits = 0 /\ SoundInv /\ [Next]_vars => SoundInv'
<1> SUFFICES ASSUME MaxEdits = 0, SoundInv, [Next]_vars PROVE SoundInv'
  OBVIOUS
<1>0. TInv /\ TInv'
  BY TInvNext DEF SoundInv
<1> USE DEF SoundInv, Sound, InWindow
<1>1. ASSUME NEW e \in Execs, Prepare(e) PROVE SoundInv'
  <2>1. Target[e] \in Nats /\ intended[Target[e]] = router[Target[e]]
    BY <1>1 DEF Prepare, HasNat
  <2>2. intended[Target[e]] = <<intended[Target[e]][1]>>
    <3>1. intended[Target[e]] \in Entry /\ intended[Target[e]] # <<>>
      BY <1>0, <1>1, <2>1 DEF Prepare, HasNat, TInv, TypeOK
    <3>2. PICK c \in Configs : intended[Target[e]] = <<c>>
      BY <3>1 DEF Entry
    <3>3. <<c>>[1] = c
      OBVIOUS
    <3> QED BY <3>2, <3>3
  <2> QED BY <1>0, <1>1, <2>1, <2>2 DEF Prepare, TInv, TypeOK
<1>2. ASSUME NEW e \in Execs, PrepareFails(e) \/ AgentCrash(e) PROVE SoundInv'
  BY <1>0, <1>2 DEF PrepareFails, AgentCrash
<1>3. ASSUME NEW e \in Execs, StartFindsNatGone(e) PROVE SoundInv'
  BY <1>0, <1>3 DEF StartFindsNatGone, SetPc, TInv, TypeOK
<1>4. ASSUME NEW e \in Execs, StopWithoutSnapshot(e) PROVE SoundInv'
  BY <1>0, <1>4 DEF StopWithoutSnapshot, SetPc, TInv, TypeOK
<1>5. ASSUME NEW e \in Execs, NEW h \in Handlers, Get(e, h) PROVE SoundInv'
  BY <1>0, <1>5 DEF Get, SetPc, Keep, TInv, TypeOK
<1>6. ASSUME NEW e \in Execs, NEW h \in Handlers, GetFails(e, h) PROVE SoundInv'
  BY <1>0, <1>6 DEF GetFails, SetPc, TInv, TypeOK
<1>7. ASSUME NEW e \in Execs, NEW h \in Handlers, Finish(e, h) PROVE SoundInv'
  <2>1. InWindow(e, h) /\ intended' = intended /\ snapshot' = snapshot
    BY <1>7 DEF Finish, Patch, PatchAnswerLost, PatchFails
  <2>2. /\ router' = router
        /\ \A op \in pending' : op \in pending \/ op.nats = Patched(e, h)
    BY <1>7 DEF Finish, Patch, PatchAnswerLost, PatchFails, Accept
  <2>3. Sound(router)' /\ \A op \in pending' : Sound(op.nats)'
    BY <2>1, <2>2, SoundPatch
  <2>4. \A d \in Execs, k \in Handlers :
          InWindow(d, k)' => InWindow(d, k) /\ fetched'[d][k] = fetched[d][k]
    <3>1. ASSUME NEW to \in {"ok", "err"}, SetPc(e, h, to), Keep(e, h, NoRouter),
                 NEW d \in Execs, NEW k \in Handlers, InWindow(d, k)'
          PROVE  InWindow(d, k) /\ fetched'[d][k] = fetched[d][k]
      <4>1. d # e \/ k # h
        BY <1>0, <3>1 DEF SetPc, TInv, TypeOK
      <4>2. pc'[d][k] = pc[d][k]
        BY <1>0, <3>1, <4>1 DEF SetPc, TInv, TypeOK
      <4>3. fetched'[d][k] = fetched[d][k]
        BY <1>0, <3>1, <4>1 DEF Keep, TInv, TypeOK
      <4> QED BY <3>1, <4>2, <4>3
    <3> QED BY <1>7, <3>1 DEF Finish, Patch, PatchAnswerLost, PatchFails
  <2> QED BY <1>0, <2>1, <2>3, <2>4
<1>8. ASSUME NEW n \in Nats, NEW entry \in Entry, OperatorEdit(n, entry) PROVE FALSE
  BY <1>0, <1>8 DEF OperatorEdit, TInv, TypeOK
<1>9. ASSUME NEW op \in pending, CarryOut(op) PROVE SoundInv'
  BY <1>0, <1>9, WrittenIs DEF CarryOut
<1>10. ASSUME NEW op \in pending, OperationFails(op) PROVE SoundInv'
  BY <1>0, <1>10 DEF OperationFails
<1>11. CASE UNCHANGED vars
  BY <1>0, <1>11 DEF vars
<1> HIDE DEF SoundInv, Sound, InWindow
<1> QED
  BY <1>1, <1>2, <1>3, <1>4, <1>5, <1>6, <1>7, <1>8, <1>9, <1>10, <1>11
  DEF Next, ExecStep, Call, ServiceStep

\* AbsentOrIntended: while operators are idle, races between executions and with
\* the signal handler, and operations carried out in any order, can lose a NAT of the
\* router and never corrupt one.
THEOREM RacesNeverCorrupt ==
  ASSUME MaxEdits = 0
  PROVE  Spec => []AbsentOrIntended
<1>1. SoundInv /\ [Next]_vars => SoundInv'
  BY SoundNext
<1>2. SoundInv => AbsentOrIntended
  BY DEF SoundInv, Sound, AbsentOrIntended
<1> QED BY SoundInit, <1>1, <1>2, PTL DEF Spec

-------------------------------------------------------------------------------
(* When nobody acts on the router between a Get and the end of its operation. *)

\* A call in its window has the current router in hand, and its execution still runs.
WindowsFresh ==
  \A e \in Execs, h \in Handlers :
    InWindow(e, h) => fetched[e][h] = router /\ Running(e)

\* What the service is to write changes the target and nothing else: out for Start, as
\* the operators configured it for Stop.  After Stop's success only a restore is left.
OperationsFresh ==
  \A op \in pending :
    /\ phase[op.exec] \notin {"new", "failed"}
    /\ op.call = "start" => Running(op.exec)
    /\ \A n \in Nats : n # Target[op.exec] => op.nats[n] = router[n]
    /\ op.nats[Target[op.exec]] = IF op.call = "start" THEN <<>> ELSE intended[Target[op.exec]]

\* One call is between its Get and the end of its operation.
OneAtATime ==
  /\ \A e \in Execs, h \in Handlers, d \in Execs, k \in Handlers :
       InWindow(e, h) /\ InWindow(d, k) => e = d /\ h = k
  /\ \A op, oq \in pending : op = oq
  /\ \A e \in Execs, h \in Handlers : InWindow(e, h) => pending = {}

LostIsOut == \A n \in lost : router[n] # intended[n]

SerialInv ==
  /\ TInv
  /\ RouterAsIntended
  /\ SnapshotIsIntended
  /\ WindowsFresh
  /\ OperationsFresh
  /\ OneAtATime
  /\ LostIsOut

\* What a Patch sends then: the target changed and nothing else.
LEMMA SerialPatch ==
  ASSUME SerialInv, NEW e \in Execs, NEW h \in Handlers, InWindow(e, h)
  PROVE  /\ \A n \in Nats : n # Target[e] => Patched(e, h)[n] = router[n]
         /\ h = "start" => Patched(e, h)[Target[e]] = <<>>
         /\ h # "start" => Patched(e, h)[Target[e]] = intended[Target[e]]
         /\ Running(e)
<1> DEFINE t == Target[e]
           c == snapshot[e]
<1>1. fetched[e][h] = router /\ router \in Routers /\ t \in Nats /\ Running(e)
  BY DEF SerialInv, TInv, TypeOK, WindowsFresh
<1>2. c \in Configs /\ intended[t] = <<c>>
  BY <1>1 DEF SerialInv, TInv, SnapshotTaken, SnapshotIsIntended, Holds, Running
<1>3. router[t] = <<>> \/ router[t] = <<c>>
  BY <1>1, <1>2 DEF SerialInv, RouterAsIntended
<1>4. [<<c>> EXCEPT ![1] = c] = <<c>>
  OBVIOUS
<1>5. \A n \in Nats : n # t => /\ WithoutNat(router, t)[n] = router[n]
                            /\ WithNat(router, t, c)[n] = router[n]
  BY <1>1 DEF WithoutNat, WithNat, Routers
<1>6. WithoutNat(router, t)[t] = <<>>
  BY <1>1 DEF WithoutNat, Routers
<1>7. WithNat(router, t, c)[t] = <<c>>
  BY <1>1, <1>3, <1>4 DEF WithNat, HasNat, Routers
<1> HIDE DEF t, c
<1>8. Patched(e, h) = IF h = "start" THEN WithoutNat(router, t) ELSE WithNat(router, t, c)
  BY <1>1 DEF Patched, t, c
<1> QED BY <1>1, <1>2, <1>5, <1>6, <1>7, <1>8 DEF t, c

\* What carrying an operation out does then: Start's takes the target out, unless its
\* list was empty and ignored; another brings it back.
LEMMA SerialCarryOut ==
  ASSUME SerialInv, NEW op \in pending, CarryOut(op)
  PROVE  /\ op.exec \in Execs /\ Target[op.exec] \in Nats /\ Holds(op.exec)
         /\ intended[Target[op.exec]] # <<>>
         /\ pending' = {}
         /\ \A n \in Nats : n # Target[op.exec] => router'[n] = router[n]
         /\ op.call = "start" => /\ Running(op.exec) /\ lost' = lost
                                 /\ router'[Target[op.exec]] = <<>> \/ router' = router
         /\ op.call # "start" => /\ router'[Target[op.exec]] = intended[Target[op.exec]]
                                 /\ lost' = lost \ {Target[op.exec]}
<1> DEFINE t == Target[op.exec]
<1>1. op \in Operations
  BY DEF SerialInv, TInv, TypeOK
<1>2. op.exec \in Execs /\ t \in Nats
  BY <1>1 DEF Operations
<1>3. Holds(op.exec)
  BY <1>2 DEF Holds, Awaits
<1>4. intended[t] # <<>>
  <2>1. intended[t] = <<snapshot[op.exec]>>
    BY <1>2, <1>3 DEF SerialInv, SnapshotIsIntended
  <2> QED BY <2>1
<1>5. pending' = {}
  BY DEF SerialInv, OneAtATime, CarryOut
<1>6. router' = op.nats \/ (router' = router /\ op.nats = NoRouter)
  BY WrittenIs DEF CarryOut
<1>7. /\ op.call = "start" => Running(op.exec)
      /\ \A n \in Nats : n # t => op.nats[n] = router[n]
      /\ op.nats[t] = IF op.call = "start" THEN <<>> ELSE intended[t]
  BY DEF SerialInv, OperationsFresh
<1>8. NoRouter[t] = <<>>
  BY <1>2 DEF NoRouter
<1> QED BY <1>2, <1>3, <1>4, <1>5, <1>6, <1>7, <1>8 DEF CarryOut

\* At first no window is open and nothing accepted.
LEMMA SerialInit == Init => SerialInv
BY TInvInit
DEF Init, SerialInv, RouterAsIntended, SnapshotIsIntended, WindowsFresh, OperationsFresh,
    OneAtATime, LostIsOut, InWindow, Holds, Running, Awaits

\* One call at a time: what is read is still so when it is written.
LEMMA SerialNext ==
  ~WindowsOverlap /\ ~LateOperations /\ SerialInv /\ [Next]_vars => SerialInv'
<1> SUFFICES ASSUME ~WindowsOverlap, ~LateOperations, SerialInv, [Next]_vars PROVE SerialInv'
  OBVIOUS
<1>0. TInv /\ TInv'
  BY TInvNext DEF SerialInv
<1> USE DEF SerialInv, RouterAsIntended, SnapshotIsIntended, WindowsFresh, OperationsFresh,
            OneAtATime, LostIsOut, InWindow, Holds, Running, Awaits, UnderAttack
<1>1. ASSUME NEW e \in Execs, Prepare(e) PROVE SerialInv'
  <2>1. Target[e] \in Nats /\ intended[Target[e]] = router[Target[e]]
    BY <1>1 DEF Prepare, HasNat
  <2>2. intended[Target[e]] = <<intended[Target[e]][1]>>
    <3>1. intended[Target[e]] \in Entry /\ intended[Target[e]] # <<>>
      BY <1>0, <1>1, <2>1 DEF Prepare, HasNat, TInv, TypeOK
    <3>2. PICK c \in Configs : intended[Target[e]] = <<c>>
      BY <3>1 DEF Entry
    <3>3. <<c>>[1] = c
      OBVIOUS
    <3> QED BY <3>2, <3>3
  <2>3. /\ phase[e] = "new" /\ phase'[e] = "prepared" /\ snapshot'[e] = router[Target[e]][1]
        /\ \A d \in Execs : d # e => phase'[d] = phase[d] /\ snapshot'[d] = snapshot[d]
        /\ UNCHANGED <<router, pending, lost, intended, pc, fetched>>
    BY <1>0, <1>1 DEF Prepare, TInv, TypeOK
  <2>4. \A op \in pending : op.exec \in Execs /\ op.exec # e
    BY <1>0, <2>3 DEF TInv, TypeOK, Operations
  <2>5. RouterAsIntended'
    BY <2>3
  <2>6. SnapshotIsIntended'
    BY <2>1, <2>2, <2>3, <2>4
  <2>7. WindowsFresh' /\ OperationsFresh' /\ OneAtATime' /\ LostIsOut'
    BY <2>3, <2>4
  <2> QED BY <1>0, <2>5, <2>6, <2>7
<1>2. ASSUME NEW e \in Execs, PrepareFails(e) PROVE SerialInv'
  <2>1. /\ phase[e] = "new" /\ phase'[e] = "failed"
        /\ \A d \in Execs : d # e => phase'[d] = phase[d]
        /\ UNCHANGED <<router, pending, lost, intended, snapshot, pc, fetched>>
    BY <1>0, <1>2 DEF PrepareFails, TInv, TypeOK
  <2>2. \A op \in pending : op.exec \in Execs /\ op.exec # e
    BY <1>0, <2>1 DEF TInv, TypeOK, Operations
  <2> QED BY <1>0, <2>1, <2>2
<1>3. ASSUME NEW e \in Execs, StartFindsNatGone(e) PROVE SerialInv'
  BY <1>0, <1>3 DEF StartFindsNatGone, SetPc, TInv, TypeOK, MayCall
<1>4. ASSUME NEW e \in Execs, StopWithoutSnapshot(e) PROVE SerialInv'
  BY <1>0, <1>4 DEF StopWithoutSnapshot, SetPc, TInv, TypeOK
<1>5. ASSUME NEW e \in Execs, AgentCrash(e) PROVE SerialInv'
  <2>1. /\ phase[e] = "prepared" /\ phase'[e] = "abandoned"
        /\ \A d \in Execs : d # e => phase'[d] = phase[d]
        /\ UNCHANGED <<router, pending, lost, intended, snapshot, pc, fetched>>
    BY <1>0, <1>5 DEF AgentCrash, TInv, TypeOK
  <2>2. \A op \in pending : op.exec \in Execs
    BY <1>0 DEF TInv, TypeOK, Operations
  <2>3. \A d \in Execs : Running(d)' <=> Running(d)
    BY <2>1
  <2>4. RouterAsIntended' /\ SnapshotIsIntended'
    BY <2>1, <2>3
  <2>5. WindowsFresh' /\ OneAtATime' /\ LostIsOut'
    BY <2>1, <2>3
  <2>6. OperationsFresh'
    BY <2>1, <2>2, <2>3
  <2> QED BY <1>0, <2>4, <2>5, <2>6
<1>6. ASSUME NEW e \in Execs, NEW h \in Handlers, Get(e, h) PROVE SerialInv'
  <2>1. pending = {} /\ \A d \in Execs, k \in Handlers : ~InWindow(d, k)
    BY <1>6 DEF Get, RouterFree, Landed
  <2>2. phase[e] = "prepared"
    BY <1>0, <1>6 DEF Get, MayAsk, MayCall, HasSnapshot, TInv, SnapshotTaken
  <2>3. /\ fetched'[e][h] = router
        /\ \A d \in Execs, k \in Handlers : pc'[d][k] = "got" => d = e /\ k = h
        /\ UNCHANGED <<router, pending, lost, intended, phase, snapshot>>
    BY <1>0, <1>6, <2>1 DEF Get, SetPc, Keep, TInv, TypeOK
  <2> QED BY <1>0, <2>1, <2>2, <2>3
<1>7. ASSUME NEW e \in Execs, NEW h \in Handlers, GetFails(e, h) PROVE SerialInv'
  BY <1>0, <1>7 DEF GetFails, SetPc, TInv, TypeOK
<1>8. ASSUME NEW e \in Execs, NEW h \in Handlers, Patch(e, h) \/ PatchAnswerLost(e, h)
      PROVE  SerialInv'
  <2> DEFINE op == [exec |-> e, call |-> h, nats |-> Patched(e, h), after |-> faults]
  <2>1. pending = {} /\ pending' = {op}
    BY <1>8 DEF Patch, PatchAnswerLost, Accept, Landed
  <2>2. /\ \A d \in Execs, k \in Handlers : pc'[d][k] # "got"
        /\ UNCHANGED <<router, lost, intended, snapshot>>
    <3>1. PICK to \in {"ok", "err"} : SetPc(e, h, to)
      BY <1>8 DEF Patch, PatchAnswerLost
    <3>2. \A d \in Execs, k \in Handlers : pc[d][k] = "got" => d = e /\ k = h
      BY <1>8 DEF Patch, PatchAnswerLost
    <3>3. \A d \in Execs, k \in Handlers : pc'[d][k] # "got"
      BY <1>0, <3>1, <3>2 DEF SetPc, TInv, TypeOK
    <3> QED BY <1>8, <3>3 DEF Patch, PatchAnswerLost
  <2>3. /\ \A d \in Execs : d # e => phase'[d] = phase[d]
        /\ phase'[e] = phase[e] \/ (h = "stop" /\ phase'[e] = "stopped")
    BY <1>0, <1>8 DEF Patch, PatchAnswerLost, TInv, TypeOK
  <2>4. /\ Running(e)
        /\ \A n \in Nats : n # Target[e] => Patched(e, h)[n] = router[n]
        /\ Patched(e, h)[Target[e]] = IF h = "start" THEN <<>> ELSE intended[Target[e]]
    BY <1>8, SerialPatch DEF Patch, PatchAnswerLost
  <2>5. op.exec = e /\ op.call = h /\ op.nats = Patched(e, h)
    OBVIOUS
  <2> HIDE DEF op
  <2>6. \A d \in Execs : Holds(d)' <=> Holds(d)
    <3>1. Holds(e) /\ Holds(e)'
      BY <2>1, <2>4, <2>5
    <3>2. ASSUME NEW d \in Execs, d # e PROVE Holds(d)' <=> Holds(d)
      BY <2>1, <2>3, <2>5, <3>2
    <3> QED BY <3>1, <3>2
  <2>7. RouterAsIntended' /\ SnapshotIsIntended'
    <3>1. \A n \in Nats : UnderAttack(n)' <=> UnderAttack(n)
      BY <2>6 DEF UnderAttack
    <3> QED BY <2>2, <2>6, <3>1
  <2>8. OperationsFresh'
    BY <2>1, <2>2, <2>3, <2>4, <2>5
  <2>9. WindowsFresh' /\ OneAtATime' /\ LostIsOut'
    BY <2>1, <2>2
  <2> QED BY <1>0, <2>7, <2>8, <2>9
<1>9. ASSUME NEW e \in Execs, NEW h \in Handlers, PatchFails(e, h) PROVE SerialInv'
  BY <1>0, <1>9 DEF PatchFails, SetPc, TInv, TypeOK
<1>10. ASSUME NEW op \in pending, CarryOut(op) PROVE SerialInv'
  <2> DEFINE e == op.exec
             t == Target[op.exec]
  <2>1. UNCHANGED <<intended, phase, snapshot, pc, fetched>>
    BY <1>10 DEF CarryOut
  <2>2. \A d \in Execs, k \in Handlers : ~InWindow(d, k)
    OBVIOUS
  <2>3. \A d \in Execs : Holds(d)' => Holds(d)
    BY <1>10, <2>1, SerialCarryOut
  <2>4. \A d \in Execs : d # e /\ Holds(d) => Holds(d)'
    <3>1. \A oq \in pending : oq = op
      OBVIOUS
    <3> QED BY <2>1, <3>1
  <2>5. Running(e) => Holds(e)'
    BY <2>1
  <2>6. RouterAsIntended'
    <3>1. ASSUME NEW n \in Nats, n # t
          PROVE  \/ router'[n] = intended'[n]
                 \/ router'[n] = <<>> /\ (UnderAttack(n)' \/ n \in lost')
      <4>1. router'[n] = router[n] /\ (n \in lost => n \in lost')
        BY <1>10, <3>1, SerialCarryOut
      <4>2. UnderAttack(n) => UnderAttack(n)'
        BY <2>4, <3>1
      <4> QED BY <2>1, <4>1, <4>2
    <3>2. CASE op.call = "start"
      <4>1. UnderAttack(t)'
        BY <1>10, <2>5, <3>2, SerialCarryOut
      <4>2. \A n \in Nats : n = t =>
              \/ router'[n] = intended'[n]
              \/ router'[n] = <<>> /\ (UnderAttack(n)' \/ n \in lost')
        BY <1>10, <2>1, <3>2, <4>1, SerialCarryOut
      <4> QED BY <3>1, <4>2
    <3>3. CASE op.call # "start"
      BY <1>10, <2>1, <3>1, <3>3, SerialCarryOut
    <3> QED BY <3>2, <3>3
  <2>7. SnapshotIsIntended'
    BY <2>1, <2>3
  <2>8. WindowsFresh' /\ OperationsFresh' /\ OneAtATime'
    BY <1>10, <2>1, <2>2, SerialCarryOut
  <2>9. LostIsOut'
    <3>1. ASSUME NEW n \in lost' PROVE router'[n] # intended'[n]
      <4>1. n \in lost /\ n \in Nats /\ (n = t => op.call = "start")
        BY <1>0, <1>10, <3>1, SerialCarryOut DEF TInv, TypeOK
      <4>2. CASE n = t
        BY <1>10, <2>1, <4>1, <4>2, SerialCarryOut
      <4>3. CASE n # t
        BY <1>10, <2>1, <4>1, <4>3, SerialCarryOut
      <4> QED BY <4>2, <4>3
    <3> QED BY <3>1
  <2> QED BY <1>0, <2>6, <2>7, <2>8, <2>9
<1>11. ASSUME NEW op \in pending, OperationFails(op) PROVE SerialInv'
  <2> DEFINE e == op.exec
             t == Target[op.exec]
  <2>1. UNCHANGED <<router, intended, phase, snapshot, pc, fetched>> /\ pending' = {}
    BY <1>11 DEF OperationFails
  <2>2. /\ e \in Execs /\ t \in Nats
        /\ lost' = IF ~Running(e) /\ router[t] # intended[t] THEN lost \cup {t} ELSE lost
    BY <1>0, <1>11 DEF OperationFails, TInv, TypeOK, Operations
  <2>3. \A oq \in pending : oq = op
    OBVIOUS
  <2>4. \A d \in Execs : d # e /\ Holds(d) => Holds(d)'
    BY <2>1, <2>3
  <2>5. Running(e) => Holds(e)'
    BY <2>1
  <2>6. RouterAsIntended'
    <3> SUFFICES ASSUME NEW n \in Nats, router[n] # intended[n]
                 PROVE  router[n] = <<>> /\ (UnderAttack(n)' \/ n \in lost')
      BY <2>1
    <3>1. router[n] = <<>> /\ (UnderAttack(n) \/ n \in lost)
      OBVIOUS
    <3>2. n \in lost => n \in lost'
      BY <2>2
    <3>3. UnderAttack(n) => UnderAttack(n)' \/ n \in lost'
      BY <2>2, <2>4, <2>5
    <3> QED BY <3>1, <3>2, <3>3
  <2>7. SnapshotIsIntended' /\ WindowsFresh' /\ OperationsFresh' /\ OneAtATime' /\ LostIsOut'
    BY <2>1, <2>2
  <2> QED BY <1>0, <2>6, <2>7
<1>12. ASSUME NEW n \in Nats, NEW entry \in Entry, OperatorEdit(n, entry) PROVE SerialInv'
  <2>1. pending = {} /\ \A d \in Execs, k \in Handlers : ~InWindow(d, k)
    BY <1>12 DEF OperatorEdit, RouterFree, Landed
  <2>2. /\ router'[n] = entry /\ intended'[n] = entry
        /\ \A m \in Nats : m # n => router'[m] = router[m] /\ intended'[m] = intended[m]
        /\ lost' = lost \ {n}
        /\ \A e \in Execs : Running(e) => Target[e] # n
        /\ UNCHANGED <<pending, phase, snapshot, pc, fetched>>
    BY <1>0, <1>12 DEF OperatorEdit, TInv, TypeOK, Routers
  <2>3. RouterAsIntended'
    BY <2>2
  <2>4. SnapshotIsIntended'
    BY <2>1, <2>2
  <2>5. WindowsFresh' /\ OperationsFresh' /\ OneAtATime' /\ LostIsOut'
    BY <1>0, <2>1, <2>2 DEF TInv, TypeOK
  <2> QED BY <1>0, <2>3, <2>4, <2>5
<1>13. CASE UNCHANGED vars
  BY <1>0, <1>13 DEF vars
<1> HIDE DEF SerialInv, RouterAsIntended, SnapshotIsIntended, WindowsFresh, OperationsFresh,
             OneAtATime, LostIsOut, InWindow, Holds, Running, Awaits, UnderAttack
<1> QED
  BY <1>1, <1>2, <1>3, <1>4, <1>5, <1>6, <1>7, <1>8, <1>9, <1>10, <1>11, <1>12, <1>13
  DEF Next, ExecStep, Call, Finish, ServiceStep

\* Hence always.
LEMMA SerialInvariant ==
  ASSUME ~WindowsOverlap, ~LateOperations
  PROVE  Spec => []SerialInv
<1>1. SerialInv /\ [Next]_vars => SerialInv'
  BY SerialNext
<1> QED BY SerialInit, <1>1, PTL DEF Spec

\* RouterAsIntended: if nobody acts on the router between a Get and the end of the
\* operation it leads to, every edit to a sibling NAT survives and a NAT is out only
\* while an execution is prepared for it or waits for the service, or because an
\* operation the service had accepted failed after Stop's success.
THEOREM AttackLeavesNoTrace ==
  ASSUME ~WindowsOverlap, ~LateOperations
  PROVE  Spec => []RouterAsIntended
<1>1. SerialInv => RouterAsIntended
  BY DEF SerialInv
<1> QED BY SerialInvariant, <1>1, PTL

\* SnapshotIsIntended: under the same assumption a restore, also one that is carried
\* out after Stop's success, can only bring back what the operators configured, even
\* with several executions on one NAT.
THEOREM SnapshotIsTrue ==
  ASSUME ~WindowsOverlap, ~LateOperations
  PROVE  Spec => []SnapshotIsIntended
<1>1. SerialInv => SnapshotIsIntended
  BY DEF SerialInv
<1> QED BY SerialInvariant, <1>1, PTL

-------------------------------------------------------------------------------
(* The detailed specification implements the abstract promise.               *)

\* At first nothing is out and nobody holds anything.
LEMMA PromiseInit == Init => Outage!Init
<1> SUFFICES ASSUME Init PROVE Outage!Init
  OBVIOUS
<1>1. intended \in [Nats -> Outage!Entry]
  BY DEF Init, Entry, Outage!Entry
<1> QED BY <1>1 DEF Init, Outage!Init, Holds, Running, Awaits

\* An operation that is carried out takes the target out, brings it back, or ends the
\* execution.
LEMMA PromiseCarryOut ==
  ASSUME SerialInv, NEW op \in pending, CarryOut(op)
  PROVE  Outage!Next \/ UNCHANGED Outage!vars
<1> DEFINE out == {n \in Nats : router[n] # intended[n]}
           held == {d \in Execs : Holds(d)}
           e == op.exec
           t == Target[op.exec]
<1>1. e \in held /\ intended' = intended /\ phase' = phase
  BY SerialCarryOut DEF CarryOut
<1>2. ASSUME NEW d \in Execs, d # e PROVE Holds(d)' <=> Holds(d)
  <2>1. \A oq \in pending : oq = op
    BY DEF SerialInv, OneAtATime
  <2> QED BY <1>1, <1>2, <2>1, SerialCarryOut DEF Holds, Running, Awaits
<1>3. Holds(e)' <=> Running(e)
  BY <1>1, SerialCarryOut DEF Holds, Running, Awaits
<1>4. CASE op.call = "start"
  <2>1. held' = held /\ lost' = lost
    BY <1>1, <1>2, <1>3, <1>4, SerialCarryOut
  <2>2. CASE router' = router
    BY <1>1, <2>1, <2>2 DEF Outage!vars
  <2>3. CASE router'[t] = <<>>
    <3>1. out' = out \cup {t}
      BY <1>1, <2>3, SerialCarryOut
    <3> QED BY <1>1, <2>1, <3>1 DEF Outage!Next, Outage!TakeOut
  <2> QED BY <1>4, <2>2, <2>3, SerialCarryOut
<1>5. CASE op.call # "start"
  <2>1. out' = out \ {t} /\ lost' = lost \ {t}
    BY <1>1, <1>5, SerialCarryOut
  <2>2. CASE Running(e)
    <3>1. held' = held
      BY <1>1, <1>2, <1>3, <2>2
    <3> QED BY <1>1, <2>1, <3>1 DEF Outage!Next, Outage!BringBack, Outage!Back
  <2>3. CASE ~Running(e)
    <3>1. held' = held \ {e}
      BY <1>1, <1>2, <1>3, <2>3
    <3> QED BY <1>1, <2>1, <3>1 DEF Outage!Next, Outage!End, Outage!Back
  <2> QED BY <2>2, <2>3
<1> QED BY <1>4, <1>5

\* One that fails changes nothing, or ends the execution with its NAT lost if it is out.
LEMMA PromiseOperationFails ==
  ASSUME SerialInv, NEW op \in pending, OperationFails(op)
  PROVE  Outage!Next \/ UNCHANGED Outage!vars
<1> DEFINE out == {n \in Nats : router[n] # intended[n]}
           held == {d \in Execs : Holds(d)}
           e == op.exec
           t == Target[op.exec]
<1>1. UNCHANGED <<router, intended, phase>>
  BY DEF OperationFails
<1>2. e \in held /\ t \in Nats /\ e \in Execs
  BY DEF SerialInv, TInv, TypeOK, Operations, Holds, Awaits
<1>3. pending' = {} /\ \A oq \in pending : oq = op
  BY DEF SerialInv, OneAtATime, OperationFails
<1>4. \A d \in Execs : d # e => (Holds(d)' <=> Holds(d))
  BY <1>1, <1>3 DEF Holds, Running, Awaits
<1>5. Holds(e)' <=> Running(e)
  BY <1>1, <1>3 DEF Holds, Running, Awaits
<1>6. out' = out
  BY <1>1
<1>7. CASE Running(e)
  <2>1. held' = held /\ lost' = lost
    BY <1>2, <1>4, <1>5, <1>7 DEF OperationFails
  <2> QED BY <1>1, <1>6, <2>1 DEF Outage!vars
<1>8. CASE ~Running(e)
  <2>1. held' = held \ {e}
    BY <1>2, <1>4, <1>5, <1>8
  <2>2. CASE t \in out
    <3>1. lost' = lost \cup {t}
      BY <1>8, <2>2 DEF OperationFails
    <3> QED BY <1>1, <1>2, <1>6, <2>1, <2>2, <3>1 DEF Outage!Next, Outage!Lose
  <2>3. CASE t \notin out
    <3>1. lost' = lost \ {t}
      BY <1>2, <1>8, <2>3 DEF OperationFails, SerialInv, LostIsOut
    <3>2. out' = out \ {t}
      BY <1>6, <2>3
    <3> QED BY <1>1, <1>2, <2>1, <3>1, <3>2 DEF Outage!Next, Outage!End, Outage!Back
  <2> QED BY <2>2, <2>3
<1> QED BY <1>7, <1>8

\* Each step of the attack is one of the promise or none.
LEMMA PromiseNext ==
  ~WindowsOverlap /\ ~LateOperations /\ SerialInv /\ [Next]_vars
    => [Outage!Next]_(Outage!vars)
<1> SUFFICES ASSUME ~WindowsOverlap, ~LateOperations, SerialInv, [Next]_vars
             PROVE  [Outage!Next]_(Outage!vars)
  OBVIOUS
<1> DEFINE out == {n \in Nats : router[n] # intended[n]}
           held == {d \in Execs : Holds(d)}
<1>0. /\ phase \in [Execs -> {"new", "failed", "prepared", "abandoned", "stopped"}]
      /\ router \in [Nats -> Seq(Configs)] /\ intended \in [Nats -> Entry]
      /\ pending \subseteq Operations
  BY DEF SerialInv, TInv, TypeOK, Routers
<1>1. ASSUME UNCHANGED <<router, intended, lost>>,
             \A d \in Execs : Holds(d)' <=> Holds(d)
      PROVE  UNCHANGED Outage!vars
  BY <1>1 DEF Outage!vars
<1>2. ASSUME NEW e \in Execs, Prepare(e) PROVE Outage!Next
  <2>1. e \notin held
    BY <1>2 DEF Prepare, Holds, Running, Awaits, SerialInv, OperationsFresh
  <2>2. intended[Target[e]] # <<>>
    BY <1>2 DEF Prepare, HasNat, SerialInv, RouterAsIntended
  <2>3. held' = held \cup {e} /\ out' = out /\ UNCHANGED <<intended, lost>>
    BY <1>0, <1>2 DEF Prepare, Holds, Running, Awaits
  <2> QED BY <2>1, <2>2, <2>3 DEF Outage!Next, Outage!Begin
<1>3. ASSUME NEW e \in Execs, PrepareFails(e) \/ AgentCrash(e) PROVE UNCHANGED Outage!vars
  <2>1. \A d \in Execs : Holds(d)' <=> Holds(d)
    BY <1>0, <1>3 DEF PrepareFails, AgentCrash, Holds, Running, Awaits
  <2> QED BY <1>1, <1>3, <2>1 DEF PrepareFails, AgentCrash
<1>4. ASSUME NEW e \in Execs, StartFindsNatGone(e) \/ StopWithoutSnapshot(e)
      PROVE  UNCHANGED Outage!vars
  BY <1>1, <1>4 DEF StartFindsNatGone, StopWithoutSnapshot, Holds, Running, Awaits
<1>5. ASSUME NEW e \in Execs, NEW h \in Handlers,
             Get(e, h) \/ GetFails(e, h) \/ PatchFails(e, h)
      PROVE  UNCHANGED Outage!vars
  BY <1>1, <1>5 DEF Get, GetFails, PatchFails, Holds, Running, Awaits
<1>6. ASSUME NEW e \in Execs, NEW h \in Handlers, Patch(e, h) \/ PatchAnswerLost(e, h)
      PROVE  UNCHANGED Outage!vars
  <2>1. UNCHANGED <<router, intended, lost>>
    BY <1>6 DEF Patch, PatchAnswerLost
  <2>2. Running(e)
    BY <1>6, SerialPatch DEF Patch, PatchAnswerLost
  <2>3. \A d \in Execs : d # e => phase'[d] = phase[d]
    BY <1>0, <1>6 DEF Patch, PatchAnswerLost
  <2>4. PICK op : op.exec = e /\ pending' = pending \cup {op}
    BY <1>6 DEF Patch, PatchAnswerLost, Accept
  <2>5. \A d \in Execs : Holds(d)' <=> Holds(d)
    <3>1. Holds(e) /\ Holds(e)'
      BY <2>2, <2>4 DEF Holds, Awaits
    <3>2. \A d \in Execs : d # e => (Holds(d)' <=> Holds(d))
      BY <2>3, <2>4 DEF Holds, Running, Awaits
    <3> QED BY <3>1, <3>2
  <2> QED BY <1>1, <2>1, <2>5
<1>7. ASSUME NEW n \in Nats, NEW entry \in Entry, OperatorEdit(n, entry)
      PROVE  Outage!Next
  <2>1. pending = {} /\ \A e \in Execs : Running(e) => Target[e] # n
    BY <1>7 DEF OperatorEdit, RouterFree, Landed
  <2>2. /\ held' = held /\ lost' = lost \ {n}
        /\ out' = out \ {n}
    BY <1>0, <1>7 DEF OperatorEdit, Holds, Running, Awaits
  <2>3. intended' = [intended EXCEPT ![n] = entry] /\ entry \in Outage!Entry
    BY <1>7 DEF OperatorEdit, Entry, Outage!Entry
  <2>4. \A e \in held : Target[e] # n
    BY <2>1 DEF Holds, Awaits
  <2> QED BY <2>2, <2>3, <2>4 DEF Outage!Next, Outage!Edit, Outage!Back
<1>8. CASE UNCHANGED vars
  BY <1>1, <1>8 DEF vars, Holds, Running, Awaits
<1> QED
  BY <1>2, <1>3, <1>4, <1>5, <1>6, <1>7, <1>8, PromiseCarryOut, PromiseOperationFails
  DEF Next, ExecStep, Call, Finish, ServiceStep

\* Promise: under the same assumption the Get and Patch of Start and Stop, with
\* their errors, lost answers and retries, and the operations that are carried out
\* after the answer or fail, are steps of the abstract promise.
THEOREM KeepsPromise ==
  ASSUME ~WindowsOverlap, ~LateOperations
  PROVE  Spec => Promise
<1>1. SerialInv /\ [Next]_vars => [Outage!Next]_(Outage!vars)
  BY PromiseNext
<1> QED BY PromiseInit, <1>1, SerialInvariant, PTL DEF Spec, Promise, Outage!Spec

-------------------------------------------------------------------------------
(* What an end to every outage rests on: it can be ended, and only finitely    *)
(* many steps are taken before.                                                *)

\* An agent that has not given up has not had the success of its Stop.
StopOwed ==
  \A e \in Execs : phase[e] \in {"new", "prepared"} => pc[e]["stop"] # "ok"

\* The Stop of an execution can begin: what Get asks for.
StopMayBegin(e) == MayAsk(e, "stop") /\ RouterFree

\* A NAT that is out stays so only while a call or an operation is under way, which
\* can end, while a Stop can begin, because an agent died or because an operation failed
\* and nobody is left to try again.
OutCanEnd ==
  \A n \in Nats :
    router[n] # intended[n] =>
      \/ \E e \in Execs, h \in Handlers : InWindow(e, h)
      \/ pending # {} \/ n \in lost
      \/ \E e \in Execs : Target[e] = n /\ (StopMayBegin(e) \/ phase[e] = "abandoned")

\* Calls that may begin, for the first time or again, and those that may end well;
\* executions whose Stop was not tried, which are not prepared, which may be stopped.
MayBegin == {c \in Execs \X Handlers : pc[c[1]][c[2]] \in {"idle", "err"}}
NotOver == {c \in Execs \X Handlers : pc[c[1]][c[2]] # "ok"}
Untried == {e \in Execs : pc[e]["stop"] = "idle"}
Unprepared == {e \in Execs : phase[e] = "new"}
Unstopped == {e \in Execs : phase[e] \in {"new", "prepared"}}

\* A bound on the steps that can still be taken.  A call that ends well may leave an
\* operation, one that fails may also begin again, so they count for more.
StepsLeft ==
  4 * (MaxFaults - faults) + (MaxEdits - edits)
    + Cardinality(MayBegin) + 2 * Cardinality(NotOver) + Cardinality(Untried)
    + Cardinality(Unprepared) + Cardinality(Unstopped) + Cardinality(pending)

\* Only its own success ends the need for a Stop, and that is heard.
LEMMA StopOwedNext == TInv /\ StopOwed /\ [Next]_vars => StopOwed'
<1> SUFFICES ASSUME TInv, StopOwed, [Next]_vars PROVE StopOwed'
  OBVIOUS
<1> USE DEF TInv, TypeOK, StopOwed, Handlers
<1>1. ASSUME NEW e \in Execs, Prepare(e) \/ PrepareFails(e) \/ AgentCrash(e) PROVE StopOwed'
  BY <1>1 DEF Prepare, PrepareFails, AgentCrash
<1>2. ASSUME NEW e \in Execs, StartFindsNatGone(e) \/ StopWithoutSnapshot(e) PROVE StopOwed'
  <2>1. CASE StartFindsNatGone(e)
    BY <2>1 DEF StartFindsNatGone, SetPc
  <2>2. CASE StopWithoutSnapshot(e)
    BY <2>2 DEF StopWithoutSnapshot, SetPc
  <2> QED BY <1>2, <2>1, <2>2
<1>3. ASSUME NEW e \in Execs, NEW h \in Handlers, Call(e, h) PROVE StopOwed'
  BY <1>3 DEF Call, Get, GetFails, SetPc
<1>4. ASSUME NEW e \in Execs, NEW h \in Handlers, Patch(e, h) PROVE StopOwed'
  <2>1. phase[e] \notin {"new", "failed"}
    BY <1>4 DEF Patch, SnapshotTaken
  <2>2. ASSUME NEW d \in Execs, d # e PROVE phase'[d] = phase[d] /\ pc'[d] = pc[d]
    BY <1>4, <2>2 DEF Patch, SetPc
  <2>3. h # "stop" => phase' = phase /\ pc'[e]["stop"] = pc[e]["stop"]
    BY <1>4 DEF Patch, SetPc
  <2>4. h = "stop" => phase'[e] \notin {"new", "prepared"}
    BY <1>4, <2>1 DEF Patch
  <2> QED BY <2>2, <2>3, <2>4
<1>5. ASSUME NEW e \in Execs, NEW h \in Handlers, PatchAnswerLost(e, h) \/ PatchFails(e, h)
      PROVE  StopOwed'
  BY <1>5 DEF PatchAnswerLost, PatchFails, SetPc
<1>6. ASSUME NEW n \in Nats, NEW entry \in Entry, OperatorEdit(n, entry) PROVE StopOwed'
  BY <1>6 DEF OperatorEdit
<1>7. ASSUME NEW op \in pending, CarryOut(op) \/ OperationFails(op) PROVE StopOwed'
  BY <1>7 DEF CarryOut, OperationFails
<1>8. CASE UNCHANGED vars
  BY <1>8 DEF vars
<1> QED
  BY <1>1, <1>2, <1>3, <1>4, <1>5, <1>6, <1>7, <1>8
  DEF Next, ExecStep, Call, Finish, ServiceStep

\* No outage is stuck: as long as a NAT is out, a call or an operation under way can
\* finish, or the agent of an execution that holds the NAT can begin a Stop, unless that
\* agent died or the service failed to carry out an operation it had accepted.
\* With OutagesEnd and the fairness of FairSpec this is why EventuallyAsIntended holds.
THEOREM OutagesCanEnd ==
  ASSUME ~WindowsOverlap, ~LateOperations
  PROVE  Spec => []OutCanEnd
<1>1. ASSUME SerialInv, StopOwed PROVE OutCanEnd
  <2> SUFFICES ASSUME NEW n \in Nats, router[n] # intended[n], pending = {}, n \notin lost,
                      \A e \in Execs, h \in Handlers : ~InWindow(e, h)
               PROVE  \E e \in Execs : Target[e] = n /\ (StopMayBegin(e) \/ phase[e] = "abandoned")
    BY DEF OutCanEnd
  <2>1. PICK e \in Execs : Target[e] = n /\ Holds(e)
    BY <1>1 DEF SerialInv, RouterAsIntended, UnderAttack
  <2>0. Running(e)
    BY <2>1 DEF Holds, Awaits
  <2>2. CASE phase[e] = "abandoned"
    BY <2>1, <2>2
  <2>3. CASE phase[e] = "prepared"
    <3>1. pc[e]["stop"] \in {"idle", "err"}
      BY <1>1, <2>3 DEF StopOwed, SerialInv, TInv, TypeOK, InWindow, Handlers
    <3>2. HasSnapshot(e)
      BY <1>1, <2>3 DEF SerialInv, TInv, SnapshotTaken, HasSnapshot
    <3>3. RouterFree /\ ~InWindow(e, "start")
      BY DEF RouterFree, Landed, Handlers
    <3>4. StopMayBegin(e)
      BY <2>3, <3>1, <3>2, <3>3 DEF StopMayBegin, MayAsk, MayCall
    <3> QED BY <2>1, <3>4
  <2> QED BY <2>0, <2>2, <2>3 DEF Running
<1>2. Init => StopOwed
  BY DEF Init, StopOwed, Handlers
<1>3. SerialInv => TInv
  BY DEF SerialInv
<1> QED BY SerialInvariant, StopOwedNext, <1>1, <1>2, <1>3, PTL DEF Spec

\* A part of a finite set has fewer elements.
LEMMA Fewer ==
  ASSUME NEW S, IsFiniteSet(S), NEW T \in SUBSET S
  PROVE  /\ Cardinality(S) \in Nat /\ Cardinality(T) \in Nat
         /\ Cardinality(T) <= Cardinality(S)
         /\ T # S => Cardinality(T) < Cardinality(S)
<1>1. /\ IsFiniteSet(T) /\ Cardinality(T) <= Cardinality(S)
      /\ Cardinality(T) = Cardinality(S) => S = T
  BY FS_Subset
<1>2. Cardinality(S) \in Nat /\ Cardinality(T) \in Nat
  BY <1>1, FS_CardinalityType
<1> QED BY <1>1, <1>2

\* What is counted is finite.
LEMMA FiniteLeft ==
  ASSUME IsFiniteSet(Execs)
  PROVE  /\ IsFiniteSet(MayBegin) /\ IsFiniteSet(NotOver) /\ IsFiniteSet(Untried)
         /\ IsFiniteSet(Unprepared) /\ IsFiniteSet(Unstopped)
<1>1. IsFiniteSet({"start"} \cup {"stop"} \cup {"signal"})
  BY FS_Singleton, FS_Union
<1>2. IsFiniteSet(Handlers)
  <2>1. Handlers = {"start"} \cup {"stop"} \cup {"signal"}
    BY DEF Handlers
  <2> QED BY <1>1, <2>1
<1>3. IsFiniteSet(Execs \X Handlers)
  BY <1>2, FS_Product
<1> QED BY <1>3, FS_Subset DEF MayBegin, NotOver, Untried, Unprepared, Unstopped

\* A step, by what it does to what is counted.
NoneAdded ==
  /\ NotOver' \subseteq NotOver /\ Untried' \subseteq Untried
  /\ Unprepared' \subseteq Unprepared /\ Unstopped' \subseteq Unstopped
OneDone ==
  \/ NotOver' # NotOver \/ Untried' # Untried
  \/ Unprepared' # Unprepared \/ Unstopped' # Unstopped
NoCallAdded == MayBegin' \subseteq MayBegin
OneCallAdded == \E c : MayBegin' = MayBegin \cup {c}
NoOperationAdded == pending' \subseteq pending
OneOperationAdded == \E op : pending' = pending \cup {op}

\* A step that fails leaves fewer, because of its fault; an edit as well; a call that
\* ends well, though it leaves an operation; any other if it completes something.
LEMMA LeavesFewer ==
  ASSUME IsFiniteSet(Execs), IsFiniteSet(pending), TypeOK, TypeOK', NoneAdded,
         \/ /\ faults' = faults + 1 /\ edits' = edits
            /\ NoCallAdded \/ OneCallAdded
            /\ NoOperationAdded \/ OneOperationAdded
         \/ faults' = faults /\ edits' = edits + 1 /\ NoCallAdded /\ NoOperationAdded
         \/ /\ faults' = faults /\ edits' = edits /\ NoCallAdded
            /\ OneOperationAdded /\ NotOver' # NotOver
         \/ /\ faults' = faults /\ edits' = edits /\ NoCallAdded /\ NoOperationAdded
            /\ OneDone \/ MayBegin' # MayBegin \/ pending' # pending
  PROVE  StepsLeft' < StepsLeft
<1> DEFINE Less(S, T) == /\ Cardinality(S) \in Nat /\ Cardinality(T) \in Nat
                         /\ Cardinality(T) <= Cardinality(S)
                         /\ T # S => Cardinality(T) < Cardinality(S)
<1>1. /\ Less(NotOver, NotOver') /\ Less(Untried, Untried')
      /\ Less(Unprepared, Unprepared') /\ Less(Unstopped, Unstopped')
  BY FiniteLeft, Fewer DEF NoneAdded
<1>2. NoCallAdded => Less(MayBegin, MayBegin')
  BY FiniteLeft, Fewer DEF NoCallAdded
<1>3. ASSUME NEW S, IsFiniteSet(S), NEW c
      PROVE  /\ Cardinality(S) \in Nat /\ Cardinality(S \cup {c}) \in Nat
             /\ Cardinality(S \cup {c}) <= Cardinality(S) + 1
  <2>1. /\ IsFiniteSet(S \cup {c})
        /\ Cardinality(S \cup {c}) = IF c \in S THEN Cardinality(S) ELSE Cardinality(S) + 1
    BY <1>3, FS_AddElement
  <2>2. Cardinality(S) \in Nat
    BY <1>3, FS_CardinalityType
  <2> QED BY <2>1, <2>2
<1>5. OneCallAdded => /\ Cardinality(MayBegin) \in Nat /\ Cardinality(MayBegin') \in Nat
                      /\ Cardinality(MayBegin') <= Cardinality(MayBegin) + 1
  BY <1>3, FiniteLeft DEF OneCallAdded
<1>6. OneOperationAdded => /\ Cardinality(pending) \in Nat /\ Cardinality(pending') \in Nat
                           /\ Cardinality(pending') <= Cardinality(pending) + 1
  BY <1>3 DEF OneOperationAdded
<1>7. NoOperationAdded => Less(pending, pending')
  BY Fewer DEF NoOperationAdded
<1>4. /\ faults \in 0..MaxFaults /\ faults' \in 0..MaxFaults
      /\ edits \in 0..MaxEdits /\ edits' \in 0..MaxEdits
  BY DEF TypeOK
<1>8. NotOver' # NotOver => Cardinality(NotOver') < Cardinality(NotOver)
  BY <1>1
<1> QED BY <1>1, <1>2, <1>4, <1>5, <1>6, <1>7, <1>8 DEF OneDone, StepsLeft

\* What moving one call on does to what is counted of the calls.
LEMMA MovedCall ==
  ASSUME TypeOK, NEW e \in Execs, NEW h \in Handlers,
         NEW to \in {"got", "ok", "err"}, SetPc(e, h, to)
  PROVE  /\ to = "ok" => NotOver' = NotOver \ {<<e, h>>}
         /\ to # "ok" => NotOver' = NotOver \cup {<<e, h>>}
         /\ to = "err" => MayBegin' = MayBegin \cup {<<e, h>>}
         /\ to # "err" => MayBegin' = MayBegin \ {<<e, h>>}
         /\ Untried' \subseteq Untried /\ (h = "stop" => Untried' = Untried \ {e})
<1>1. \A d \in Execs, k \in Handlers :
        pc'[d][k] = IF d = e /\ k = h THEN to ELSE pc[d][k]
  BY DEF SetPc, TypeOK
<1>2. \A c \in Execs \X Handlers : c[1] \in Execs /\ c[2] \in Handlers /\ c = <<c[1], c[2]>>
  OBVIOUS
<1>3. /\ to = "ok" => NotOver' = NotOver \ {<<e, h>>}
      /\ to # "ok" => NotOver' = NotOver \cup {<<e, h>>}
  BY <1>1, <1>2 DEF NotOver
<1>4. /\ to = "err" => MayBegin' = MayBegin \cup {<<e, h>>}
      /\ to # "err" => MayBegin' = MayBegin \ {<<e, h>>}
  BY <1>1, <1>2 DEF MayBegin
<1>5. Untried' \subseteq Untried /\ (h = "stop" => Untried' = Untried \ {e})
  BY <1>1 DEF Untried, Handlers
<1> QED BY <1>3, <1>4, <1>5

\* Every step leaves fewer to take, whatever overlaps: also when calls fail and are
\* repeated, every behaviour comes to rest after finitely many steps.
LEMMA FewerSteps ==
  ASSUME IsFiniteSet(Execs), IsFiniteSet(pending), TInv, TInv', Next, vars' # vars
  PROVE  StepsLeft' < StepsLeft
<1>0. TypeOK /\ TypeOK'
  BY DEF TInv
<1> DEFINE SameCalls == UNCHANGED <<MayBegin, NotOver, Untried>>
           SamePhases == UNCHANGED <<Unprepared, Unstopped>>
<1>1. ASSUME pc' = pc PROVE SameCalls
  BY <1>1 DEF MayBegin, NotOver, Untried
<1>2. ASSUME phase' = phase PROVE SamePhases
  BY <1>2 DEF Unprepared, Unstopped
<1>3. ASSUME NEW e \in Execs, Prepare(e) \/ PrepareFails(e) \/ AgentCrash(e)
      PROVE  StepsLeft' < StepsLeft
  <2>1. SameCalls /\ edits' = edits /\ pending' = pending
    BY <1>1, <1>3 DEF Prepare, PrepareFails, AgentCrash
  <2>2. /\ Unprepared' \subseteq Unprepared /\ Unstopped' \subseteq Unstopped
        /\ Unprepared' # Unprepared \/ Unstopped' # Unstopped
    <3>1. CASE Prepare(e) \/ PrepareFails(e)
      <4>1. /\ \A d \in Execs : d # e => phase'[d] = phase[d]
            /\ phase[e] = "new" /\ phase'[e] \in {"prepared", "failed"}
        BY <1>0, <3>1 DEF Prepare, PrepareFails, TypeOK
      <4>2. e \in Unprepared /\ e \notin Unprepared'
        BY <4>1 DEF Unprepared
      <4> QED BY <4>1, <4>2 DEF Unprepared, Unstopped
    <3>2. CASE AgentCrash(e)
      <4>1. /\ \A d \in Execs : d # e => phase'[d] = phase[d]
            /\ phase[e] = "prepared" /\ phase'[e] = "abandoned"
        BY <1>0, <3>2 DEF AgentCrash, TypeOK
      <4>2. e \in Unstopped /\ e \notin Unstopped'
        BY <4>1 DEF Unstopped
      <4> QED BY <4>1, <4>2 DEF Unprepared, Unstopped
    <3> QED BY <1>3, <3>1, <3>2
  <2>3. faults' = faults \/ faults' = faults + 1
    BY <1>3 DEF Prepare, PrepareFails, AgentCrash, Fault
  <2> QED BY <1>0, <2>1, <2>2, <2>3, LeavesFewer
    DEF NoneAdded, OneDone, NoCallAdded, NoOperationAdded
<1>4. ASSUME NEW e \in Execs, StartFindsNatGone(e) PROVE StepsLeft' < StepsLeft
  <2>1. /\ pc[e]["start"] \in {"idle", "err"} /\ "start" \in Handlers /\ SetPc(e, "start", "ok")
        /\ UNCHANGED <<pending, faults, edits>> /\ SamePhases
    BY <1>2, <1>4 DEF StartFindsNatGone, MayCall, Handlers
  <2>2. <<e, "start">> \in NotOver
    BY <2>1 DEF NotOver
  <2>3. /\ NotOver' = NotOver \ {<<e, "start">>} /\ MayBegin' \subseteq MayBegin
        /\ Untried' \subseteq Untried
    BY <1>0, <2>1, MovedCall
  <2> QED BY <1>0, <2>1, <2>2, <2>3, LeavesFewer
    DEF NoneAdded, OneDone, NoCallAdded, NoOperationAdded
<1>5. ASSUME NEW e \in Execs, StopWithoutSnapshot(e) PROVE StepsLeft' < StepsLeft
  <2>1. /\ pc[e]["stop"] \in {"idle", "err"} /\ "stop" \in Handlers /\ SetPc(e, "stop", "err")
        /\ UNCHANGED <<router, pending, lost, intended, phase, snapshot, fetched>>
        /\ UNCHANGED <<faults, edits>> /\ SamePhases
    BY <1>2, <1>5 DEF StopWithoutSnapshot, MayCall, Handlers
  <2>2. pc[e]["stop"] = "idle"
    <3>1. pc[e]["stop"] = "err" => pc' = pc
      BY <1>0, <2>1 DEF SetPc, TypeOK
    <3> QED BY <2>1, <3>1 DEF vars
  <2>3. <<e, "stop">> \in MayBegin /\ <<e, "stop">> \in NotOver /\ e \in Untried
    BY <2>1, <2>2 DEF MayBegin, NotOver, Untried
  <2>4. /\ NotOver' = NotOver \cup {<<e, "stop">>} /\ MayBegin' = MayBegin \cup {<<e, "stop">>}
        /\ Untried' = Untried \ {e}
    BY <1>0, <2>1, MovedCall
  <2>5. NotOver' = NotOver /\ MayBegin' = MayBegin
    BY <2>3, <2>4
  <2> QED BY <1>0, <2>1, <2>3, <2>4, <2>5, LeavesFewer
    DEF NoneAdded, OneDone, NoCallAdded, NoOperationAdded
<1>6. ASSUME NEW e \in Execs, NEW h \in Handlers, Get(e, h) PROVE StepsLeft' < StepsLeft
  <2>1. /\ pc[e][h] \in {"idle", "err"} /\ SetPc(e, h, "got")
        /\ UNCHANGED <<pending, faults, edits>> /\ SamePhases
    BY <1>2, <1>6 DEF Get, MayAsk, MayCall, Handlers
  <2>2. <<e, h>> \in MayBegin /\ <<e, h>> \in NotOver
    BY <2>1 DEF MayBegin, NotOver
  <2>3. /\ NotOver' = NotOver \cup {<<e, h>>} /\ MayBegin' = MayBegin \ {<<e, h>>}
        /\ Untried' \subseteq Untried
    BY <1>0, <2>1, MovedCall
  <2>4. NotOver' = NotOver
    BY <2>2, <2>3
  <2> QED BY <1>0, <2>1, <2>2, <2>3, <2>4, LeavesFewer
    DEF NoneAdded, NoCallAdded, NoOperationAdded
<1>7. ASSUME NEW e \in Execs, NEW h \in Handlers,
             GetFails(e, h) \/ PatchAnswerLost(e, h) \/ PatchFails(e, h)
      PROVE  StepsLeft' < StepsLeft
  <2>1. /\ pc[e][h] # "ok" /\ SetPc(e, h, "err")
        /\ faults' = faults + 1 /\ edits' = edits /\ SamePhases
        /\ NoOperationAdded \/ OneOperationAdded
    BY <1>2, <1>7
    DEF GetFails, PatchAnswerLost, PatchFails, Accept, InWindow, MayAsk, MayCall, Handlers,
        Fault, NoOperationAdded, OneOperationAdded
  <2>2. <<e, h>> \in NotOver
    BY <2>1 DEF NotOver
  <2>3. /\ NotOver' = NotOver \cup {<<e, h>>} /\ MayBegin' = MayBegin \cup {<<e, h>>}
        /\ Untried' \subseteq Untried
    BY <1>0, <2>1, MovedCall
  <2>4. NotOver' = NotOver
    BY <2>2, <2>3
  <2> QED BY <1>0, <2>1, <2>3, <2>4, LeavesFewer DEF NoneAdded, OneCallAdded
<1>8. ASSUME NEW e \in Execs, NEW h \in Handlers, Patch(e, h) PROVE StepsLeft' < StepsLeft
  <2>1. pc[e][h] = "got" /\ SetPc(e, h, "ok") /\ UNCHANGED <<faults, edits>>
        /\ OneOperationAdded
    BY <1>8 DEF Patch, Accept, InWindow, OneOperationAdded
  <2>2. <<e, h>> \in NotOver
    BY <2>1 DEF NotOver
  <2>3. /\ NotOver' = NotOver \ {<<e, h>>} /\ MayBegin' \subseteq MayBegin
        /\ Untried' \subseteq Untried
    BY <1>0, <2>1, MovedCall
  <2>4. Unprepared' \subseteq Unprepared /\ Unstopped' \subseteq Unstopped
    <3>1. \A d \in Execs : phase'[d] = phase[d] \/ phase'[d] = "stopped"
      BY <1>0, <1>8 DEF Patch, TypeOK
    <3> QED BY <3>1 DEF Unprepared, Unstopped
  <2> QED BY <1>0, <2>1, <2>2, <2>3, <2>4, LeavesFewer
    DEF NoneAdded, OneDone, NoCallAdded, NoOperationAdded
<1>9. ASSUME NEW n \in Nats, NEW entry \in Entry, OperatorEdit(n, entry)
      PROVE  StepsLeft' < StepsLeft
  <2>1. /\ SameCalls /\ SamePhases /\ pending' = pending
        /\ faults' = faults /\ edits' = edits + 1
    BY <1>1, <1>2, <1>9 DEF OperatorEdit
  <2> QED BY <1>0, <2>1, LeavesFewer
    DEF NoneAdded, NoCallAdded, NoOperationAdded
<1>10. ASSUME NEW op \in pending, CarryOut(op) \/ OperationFails(op)
       PROVE  StepsLeft' < StepsLeft
  <2>1. /\ SameCalls /\ SamePhases /\ edits' = edits
        /\ pending' \subseteq pending /\ pending' # pending
        /\ faults' = faults \/ faults' = faults + 1
    BY <1>1, <1>2, <1>10 DEF CarryOut, OperationFails, Fault
  <2> QED BY <1>0, <2>1, LeavesFewer DEF NoneAdded, NoCallAdded, NoOperationAdded
<1> QED
  BY <1>3, <1>4, <1>5, <1>6, <1>7, <1>8, <1>9, <1>10
  DEF Next, ExecStep, Call, Finish, ServiceStep

\* What there is to count is finite.
Countable == TInv /\ IsFiniteSet(pending)

\* What the service has accepted is finite at any time.
LEMMA CountableAlways ==
  /\ Init => Countable
  /\ Countable /\ [Next]_vars => Countable'
<1>1. Init => IsFiniteSet(pending)
  BY FS_EmptySet DEF Init
<1>2. ASSUME IsFiniteSet(pending), [Next]_vars PROVE IsFiniteSet(pending')
  <2>1. CASE pending' \subseteq pending
    BY <1>2, <2>1, FS_Subset
  <2>2. ASSUME NEW e \in Execs, NEW h \in Handlers, Patch(e, h) \/ PatchAnswerLost(e, h)
        PROVE  IsFiniteSet(pending')
    <3>1. PICK op : pending' = pending \cup {op}
      BY <2>2 DEF Patch, PatchAnswerLost, Accept
    <3> QED BY <1>2, <3>1, FS_AddElement
  <2> QED BY <1>2, <2>1, <2>2, PendingStep
<1> QED BY <1>1, <1>2, TInvInit, TInvNext DEF Countable

\* All switches free: executions, faults and edits being finitely many, so are the
\* steps, retries included; none is taken in a circle.
THEOREM OutagesEnd ==
  ASSUME IsFiniteSet(Execs)
  PROVE  Spec => [](StepsLeft \in Nat) /\ [][StepsLeft' < StepsLeft]_vars
<1>1. Countable => StepsLeft \in Nat
  <2> SUFFICES ASSUME TInv, IsFiniteSet(pending) PROVE StepsLeft \in Nat
    BY DEF Countable
  <2>1. /\ Cardinality(MayBegin) \in Nat /\ Cardinality(NotOver) \in Nat
        /\ Cardinality(Untried) \in Nat /\ Cardinality(Unprepared) \in Nat
        /\ Cardinality(Unstopped) \in Nat /\ Cardinality(pending) \in Nat
    BY FiniteLeft, FS_CardinalityType
  <2>2. faults \in 0..MaxFaults /\ edits \in 0..MaxEdits
    BY DEF TInv, TypeOK
  <2> QED BY <2>1, <2>2 DEF StepsLeft
<1>2. Countable /\ Countable' /\ [Next]_vars => [StepsLeft' < StepsLeft]_vars
  BY FewerSteps DEF Countable
<1>3. (Init => Countable) /\ (Countable /\ [Next]_vars => Countable')
  BY CountableAlways
<1> QED BY <1>1, <1>2, <1>3, PTL DEF Spec

===============================================================================
