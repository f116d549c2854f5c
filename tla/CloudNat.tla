------------------------------- MODULE CloudNat -------------------------------
(***************************************************************************)
(* The "Suspend Cloud NAT" attack, extnat/nat_attack_disassociate.go.      *)
(*                                                                         *)
(* Compute Engine keeps the NATs of a router as one repeated field, so the *)
(* extension removes a NAT, and restores it, by reading the whole router   *)
(* (Get) and writing the whole list back (Patch).  Nothing ties the Patch  *)
(* to the Get: no lock in the extension, no fingerprint in the request.    *)
(* The two calls are therefore two steps here, and other writers of the    *)
(* router -- operators, other executions, the signal handler's Stop -- act *)
(* in between when WindowsOverlap is TRUE.                                 *)
(*                                                                         *)
(* A Patch is answered with an operation, which the code drops: success is *)
(* that the service accepted the list.  It writes the list later, or fails *)
(* to and tells nobody; Start and Stop may have reported success by then.  *)
(* When LateOperations is TRUE others use the router before it is written. *)
(*                                                                         *)
(* A router is a function from NAT names to the sequence of entries with   *)
(* that name, in list order.  The order of entries of different names has  *)
(* no meaning to the attack and is left out; two entries with one name is  *)
(* what restoreNat must never produce, so it can be expressed.             *)
(***************************************************************************)

EXTENDS Naturals, Sequences

CONSTANTS
  Nats,             \* names of the Cloud NATs of one router
  Configs,          \* what a NAT entry holds besides its name
  None,             \* "no snapshot": CloudNatDisassociateState.NatSnapshot empty
  Execs,            \* attack executions, each with its own action state
  Target,           \* state.NatName of each execution
  WindowsOverlap,   \* may other writers act between a Get and its Patch?
  LateOperations,   \* may they act before an accepted Patch is carried out?
  EmptyListWritten, \* does a list without entries reach the service?
  StopAwaitsStart,  \* does the agent wait for Start's answer before Stop?
  MaxFaults,        \* bound: failed calls, lost answers and failed operations
  MaxEdits          \* bound: operator edits of the router

ASSUME TargetAssumption == Target \in [Execs -> Nats]
ASSUME NoneAssumption == None \notin Configs
ASSUME FlagAssumption ==
  {WindowsOverlap, LateOperations, EmptyListWritten, StopAwaitsStart} \subseteq BOOLEAN
ASSUME BoundAssumption == MaxFaults \in Nat /\ MaxEdits \in Nat

\* The calls that reach the extension for one execution: the agent's Start
\* and Stop, and the Stop its own signal handler runs for active actions.
Handlers == {"start", "stop", "signal"}

VARIABLES
  router,    \* the router as Compute Engine has it
  pending,   \* the Patches Compute Engine accepted and has not carried out
  lost,      \* ghost: NATs that stay out because an accepted operation failed
  intended,  \* ghost: the router as the operators alone would have made it
  phase,     \* each execution, as the agent sees it
  snapshot,  \* state.NatSnapshot of each execution
  pc,        \* where each call of each execution is
  fetched,   \* the router a call got and has not patched yet
  faults,    \* service calls and operations that failed so far
  edits      \* operator edits so far

vars == <<router, pending, lost, intended, phase, snapshot, pc, fetched, faults, edits>>

Routers == [Nats -> Seq(Configs)]
NoRouter == [n \in Nats |-> <<>>]

\* The entries an operator can leave under one name: none or one.
Entry == {<<>>} \cup {<<c>> : c \in Configs}

\* An accepted Patch: whose it is, the list it writes and, to tell it from an earlier
\* one of the same call, how many faults came before.
Operations == [exec : Execs, call : Handlers, nats : Routers, after : 0..MaxFaults]

TypeOK ==
  /\ router \in Routers
  /\ pending \subseteq Operations
  /\ lost \subseteq Nats
  /\ intended \in [Nats -> Entry]
  /\ phase \in [Execs -> {"new", "failed", "prepared", "abandoned", "stopped"}]
  /\ snapshot \in [Execs -> Configs \cup {None}]
  /\ pc \in [Execs -> [Handlers -> {"idle", "got", "ok", "err"}]]
  /\ fetched \in [Execs -> [Handlers -> Routers]]
  /\ faults \in 0..MaxFaults
  /\ edits \in 0..MaxEdits

Init ==
  /\ intended \in [Nats -> Entry]
  /\ router = intended
  /\ pending = {}
  /\ lost = {}
  /\ phase = [e \in Execs |-> "new"]
  /\ snapshot = [e \in Execs |-> None]
  /\ pc = [e \in Execs |-> [h \in Handlers |-> "idle"]]
  /\ fetched = [e \in Execs |-> [h \in Handlers |-> NoRouter]]
  /\ faults = 0
  /\ edits = 0

-------------------------------------------------------------------------------
(* The pure part: what the handlers do to a router they hold in memory.      *)

\* findNat: is there an entry of that name?
HasNat(r, n) == r[n] # <<>>

\* Three mistakes in them: every NAT is dropped, a NAT is only replaced, a NAT is
\* only appended.
WithoutAnyNat(r, n) == NoRouter
WithNatReplaced(r, n, c) == [r EXCEPT ![n] = IF HasNat(r, n) THEN <<c>> ELSE <<>>]
WithNatAppended(r, n, c) == [r EXCEPT ![n] = Append(@, c)]

\* The list removeNat patches: every entry of that name dropped.
WithoutNat(r, n) == [r EXCEPT ![n] = <<>>]

\* The list restoreNat patches: the first entry of that name replaced by the
\* snapshot, or the snapshot appended when there is none.
WithNat(r, n, c) ==
  [r EXCEPT ![n] = IF HasNat(r, n) THEN [r[n] EXCEPT ![1] = c] ELSE <<c>>]

-------------------------------------------------------------------------------
(* Windows: the time between a call's Get and its Patch.                     *)

InWindow(e, h) == pc[e][h] = "got"

\* Another writer of the router may act now.
Landed == LateOperations \/ pending = {}
RouterFree == Landed /\ (WindowsOverlap \/ \A e \in Execs, h \in Handlers : ~InWindow(e, h))

\* An execution that was prepared and not stopped with success; one that may still
\* change the router.
Running(e) == phase[e] \in {"prepared", "abandoned"}
Awaits(e) == \E op \in pending : op.exec = e
Holds(e) == Running(e) \/ Awaits(e)
UnderAttack(n) == \E e \in Execs : Target[e] = n /\ Holds(e)

Fault == faults < MaxFaults /\ faults' = faults + 1

SetPc(e, h, to) == pc' = [pc EXCEPT ![e][h] = to]
Keep(e, h, r) == fetched' = [fetched EXCEPT ![e][h] = r]

-------------------------------------------------------------------------------
(* Prepare                                                                   *)

\* A mistake: findNat returns the first NAT, whatever its name.
PrepareFirstNat(e) ==
  /\ phase[e] = "new"
  /\ \E n \in Nats :
       /\ HasNat(router, n)
       /\ snapshot' = [snapshot EXCEPT ![e] = router[n][1]]
  /\ phase' = [phase EXCEPT ![e] = "prepared"]
  /\ UNCHANGED <<router, pending, lost, intended, pc, fetched, faults, edits>>

\* One Get; the entry found is snapshotted whole.
Prepare(e) ==
  /\ phase[e] = "new"
  /\ HasNat(router, Target[e])
  /\ snapshot' = [snapshot EXCEPT ![e] = router[Target[e]][1]]
  /\ phase' = [phase EXCEPT ![e] = "prepared"]
  /\ UNCHANGED <<router, pending, lost, intended, pc, fetched, faults, edits>>

\* The NAT is not on the router, or the service could not be asked.
PrepareFails(e) ==
  /\ phase[e] = "new"
  /\ \/ ~HasNat(router, Target[e]) /\ UNCHANGED faults
     \/ Fault
  /\ phase' = [phase EXCEPT ![e] = "failed"]
  /\ UNCHANGED <<router, pending, lost, intended, snapshot, pc, fetched, edits>>

-------------------------------------------------------------------------------
(* The calls of Start and Stop                                               *)

\* Start is retried after an error, and is not sent once Stop was.
\* The agent stops when it wants to, also after a failed Prepare, and retries
\* until Stop succeeds.  The signal handler stops an active action at most once.
MayCall(e, h) ==
  /\ phase[e] = "prepared" \/ (h = "stop" /\ phase[e] = "failed")
  /\ CASE h = "start"  -> pc[e]["start"] \in {"idle", "err"} /\ pc[e]["stop"] = "idle"
       [] h = "stop"   -> /\ pc[e]["stop"] \in {"idle", "err"}
                          /\ StopAwaitsStart => ~InWindow(e, "start")
       [] h = "signal" -> pc[e]["signal"] = "idle"

\* restoreNat asks for a snapshot before it does anything else.
AssumesSnapshot(e) == TRUE  \* a mistake
HasSnapshot(e) == snapshot[e] # None
MayAsk(e, h) == MayCall(e, h) /\ (h # "start" => HasSnapshot(e))

\* client.Get succeeds and there is something to patch: always for restoreNat,
\* for removeNat only when the NAT is there.
Get(e, h) ==
  /\ MayAsk(e, h)
  /\ RouterFree
  /\ h = "start" => HasNat(router, Target[e])
  /\ Keep(e, h, router)
  /\ SetPc(e, h, "got")
  /\ UNCHANGED <<router, pending, lost, intended, phase, snapshot, faults, edits>>

\* removeNat finds the NAT gone already: success without a Patch.
StartFindsNatGone(e) ==
  /\ MayCall(e, "start")
  /\ ~HasNat(router, Target[e])
  /\ SetPc(e, "start", "ok")
  /\ UNCHANGED <<router, pending, lost, intended, phase, snapshot, fetched, faults, edits>>

\* No client, or client.Get fails.
GetFails(e, h) ==
  /\ MayAsk(e, h)
  /\ Fault
  /\ SetPc(e, h, "err")
  /\ UNCHANGED <<router, pending, lost, intended, phase, snapshot, fetched, edits>>

\* The router resource sent with the Patch.
Patched(e, h) ==
  IF h = "start" THEN WithoutNat(fetched[e][h], Target[e])
                 ELSE WithNat(fetched[e][h], Target[e], snapshot[e])

\* The service accepts the Patch and will carry it out.
Accept(e, h) ==
  /\ Landed
  /\ pending' = pending \cup
       {[exec |-> e, call |-> h, nats |-> Patched(e, h), after |-> faults]}

\* client.Patch succeeds; nobody waits for its operation.  A Stop the agent hears the
\* success of is the last.
Patch(e, h) ==
  /\ InWindow(e, h)
  /\ Accept(e, h)
  /\ Keep(e, h, NoRouter)
  /\ SetPc(e, h, "ok")
  /\ phase' = IF h = "stop" /\ phase[e] = "prepared"
                THEN [phase EXCEPT ![e] = "stopped"] ELSE phase
  /\ UNCHANGED <<router, lost, intended, snapshot, faults, edits>>

\* client.Patch is accepted, but the call ends in an error: a lost answer, a
\* cancelled context, the extension gone before it could reply.
PatchAnswerLost(e, h) ==
  /\ InWindow(e, h)
  /\ Fault
  /\ Accept(e, h)
  /\ Keep(e, h, NoRouter)
  /\ SetPc(e, h, "err")
  /\ UNCHANGED <<router, lost, intended, phase, snapshot, edits>>

\* client.Patch is refused, or the extension crashes before it sends it.
PatchFails(e, h) ==
  /\ InWindow(e, h)
  /\ Fault
  /\ Keep(e, h, NoRouter)
  /\ SetPc(e, h, "err")
  /\ UNCHANGED <<router, pending, lost, intended, phase, snapshot, edits>>

\* Stop for an execution whose Prepare failed: "no NAT snapshot to restore".
StopWithoutSnapshot(e) ==
  /\ MayCall(e, "stop")
  /\ ~HasSnapshot(e)
  /\ SetPc(e, "stop", "err")
  /\ UNCHANGED <<router, pending, lost, intended, phase, snapshot, fetched, faults, edits>>

-------------------------------------------------------------------------------
(* The world around the attack                                               *)

\* What carrying out a list can make of the router.  One without entries may have
\* been left out of the request as an empty field, and then changes nothing.
Written(nats) ==
  IF nats = NoRouter THEN {router} \cup {r \in {nats} : EmptyListWritten} ELSE {nats}

\* Compute Engine carries an accepted Patch out, in no order in particular.
CarryOut(op) ==
  /\ op \in pending
  /\ pending' = pending \ {op}
  /\ router' \in Written(op.nats)
  /\ lost' = IF op.call = "start" THEN lost ELSE lost \ {Target[op.exec]}
  /\ UNCHANGED <<intended, phase, snapshot, pc, fetched, faults, edits>>

\* Or it fails to, and no call hears of it.  The execution is over if its Stop was
\* answered with success: nobody will try to bring the NAT back again.
OperationFails(op) ==
  /\ op \in pending
  /\ Fault
  /\ pending' = pending \ {op}
  /\ lost' = IF ~Running(op.exec) /\ router[Target[op.exec]] # intended[Target[op.exec]]
                THEN lost \cup {Target[op.exec]} ELSE lost
  /\ UNCHANGED <<router, intended, phase, snapshot, pc, fetched, edits>>

\* The agent dies: it sends no further call, Stop included.  Calls that are
\* already in the extension, and its signal handler's, may still finish.
AgentCrash(e) ==
  /\ phase[e] = "prepared"
  /\ phase' = [phase EXCEPT ![e] = "abandoned"]
  /\ UNCHANGED <<router, pending, lost, intended, snapshot, pc, fetched, faults, edits>>

\* An operator adds, changes or removes a NAT that no execution has prepared for.
OperatorEdit(n, entry) ==
  /\ edits < MaxEdits
  /\ RouterFree
  /\ \A e \in Execs : Running(e) => Target[e] # n
  /\ router' = [router EXCEPT ![n] = entry]
  /\ intended' = [intended EXCEPT ![n] = entry]
  /\ lost' = lost \ {n}
  /\ edits' = edits + 1
  /\ UNCHANGED <<pending, phase, snapshot, pc, fetched, faults>>

Call(e, h) == Get(e, h) \/ GetFails(e, h)
Finish(e, h) == Patch(e, h) \/ PatchAnswerLost(e, h) \/ PatchFails(e, h)

ExecStep(e) ==
  \/ Prepare(e) \/ PrepareFails(e) \/ StartFindsNatGone(e)
  \/ StopWithoutSnapshot(e) \/ AgentCrash(e)

ServiceStep == \E op \in pending : CarryOut(op) \/ OperationFails(op)

Next ==
  \/ \E e \in Execs : ExecStep(e)
  \/ \E e \in Execs, h \in Handlers : Call(e, h) \/ Finish(e, h)
  \/ \E n \in Nats, entry \in Entry : OperatorEdit(n, entry)
  \/ ServiceStep

Spec == Init /\ [][Next]_vars

\* A call that is running goes on running, an agent that is up keeps calling Stop
\* until it succeeds, and the service brings what it accepted to an end, good or bad.
\* Starting, crashing, operators and signals are not owed anything.
Fairness ==
  /\ \A e \in Execs, h \in Handlers : WF_vars(Finish(e, h))
  /\ \A e \in Execs : WF_vars(Call(e, "stop"))
  /\ WF_vars(ServiceStep)

FairSpec == Spec /\ Fairness

-------------------------------------------------------------------------------
(* Properties                                                                *)

\* The router never holds two NATs of one name, whatever overlaps and whatever
\* is retried: restoreNat replaces "rather than duplicating".
NoDuplicateNat == \A n \in Nats : Len(router[n]) <= 1

\* When nobody acts on the router between a Get and the end of the operation it leads
\* to: a NAT is exactly what the operators made of it (every edit made between Start
\* and Stop survives, every ended attack left no trace) or missing, and missing only
\* while an execution is prepared for it, while a Patch is accepted and not carried
\* out, also after Stop's success, or because the service failed to carry it out.
RouterAsIntended ==
  \A n \in Nats :
    \/ router[n] = intended[n]
    \/ router[n] = <<>> /\ (UnderAttack(n) \/ n \in lost)

\* What Prepare snapshotted is what the operators configured, even when another
\* execution has the same NAT, as long as a restore is owed or under way: a restore
\* never brings back anything else.
SnapshotIsIntended ==
  \A e \in Execs : Holds(e) => intended[Target[e]] = <<snapshot[e]>>

\* With operators idle, overlapping windows and late operations may lose a NAT but
\* never corrupt one: every entry is absent or is the one the operators configured.
AbsentOrIntended == \A n \in Nats : router[n] \in {<<>>, intended[n]}

\* README, "Attack safety": the NAT captured at Prepare is restored at Stop.
\* Once every attack on a NAT was stopped with success and what was accepted for it
\* was carried out, the NAT is back.
RestoredAtStop ==
  \A e \in Execs :
    phase[e] = "stopped" /\ ~UnderAttack(Target[e])
      => router[Target[e]] = intended[Target[e]]

\* In the end every NAT is back as the operators configured it, unless the agent of
\* an execution on it died or the service failed to carry out an accepted restore:
\* Stop has reported success then and nobody tries again.
EventuallyAsIntended ==
  \A n \in Nats :
    <>[](\/ router[n] = intended[n]
         \/ n \in lost
         \/ \E e \in Execs : Target[e] = n /\ phase[e] = "abandoned")

\* The abstract promise: the NATs out are those that differ from what is intended, and
\* an execution holds its NAT until what it had accepted is carried out.
Outage == INSTANCE NatOutage WITH
  held <- {e \in Execs : Holds(e)},
  out  <- {n \in Nats : router[n] # intended[n]}

Promise == Outage!Spec

===============================================================================
