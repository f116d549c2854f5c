-------------------------------- MODULE VmState --------------------------------
(***************************************************************************)
(* The VM state attack, extvm/vm_attack_state.go, with the discovery that  *)
(* names its target, extvm/vm_discovery.go.  The discovery identifies a VM *)
(* by its numeric id, the attack addresses it by project, zone and name.   *)
(* Names live longer than VMs: a deleted VM's name is free for a new one,  *)
(* and the same name may be in use in another zone or project.             *)
(*                                                                         *)
(* Start only submits the operation; the service carries it out later.     *)
(***************************************************************************)

EXTENDS Executions, FiniteSets

CONSTANTS
  Places,      \* <<project, zone, name>>: where a VM can be
  Ids,         \* ids of VMs, given out once
  Requests     \* values of the "action" parameter

Actions == {"reset", "stop", "delete", "suspend", "start"}

ASSUME NoneAssumption == None \notin Ids \cup Places \cup Requests

VARIABLES
  at,       \* the VM at each place, None if there is none
  status,   \* of each VM: never created, running, stopped, suspended or deleted
  pending,  \* operations the service has accepted and not carried out
  target,   \* ghost: the VM the discovery had reported to the execution
  place,    \* ghost: where the discovery had found that VM
  address,  \* state.ProjectId, Zone, VmName
  action,   \* state.Action
  hits      \* ghost: what each execution had submitted, as <<number of the Start, VM>>

vars == <<executions, at, status, pending, target, place, address, action, hits>>

Statuses == {"unborn", "RUNNING", "TERMINATED", "SUSPENDED", "deleted"}

TypeOK ==
  /\ ExecutionsTypeOK
  /\ at \in [Places -> Ids \cup {None}]
  /\ status \in [Ids -> Statuses]
  /\ pending \subseteq Execs \X Ids \X Actions
  /\ target \in [Execs -> Ids \cup {None}]
  /\ place \in [Execs -> Places \cup {None}]
  /\ address \in [Execs -> Places \cup {None}]
  /\ action \in [Execs -> Requests \cup {None}]
  /\ hits \in [Execs -> SUBSET ((1..MaxStarts) \X Ids)]

Init ==
  /\ ExecutionsInit
  /\ at = [p \in Places |-> None]
  /\ status = [v \in Ids |-> "unborn"]
  /\ pending = {}
  /\ target = [e \in Execs |-> None]
  /\ place = [e \in Execs |-> None]
  /\ address = [e \in Execs |-> None]
  /\ action = [e \in Execs |-> None]
  /\ hits = [e \in Execs |-> {}]

-------------------------------------------------------------------------------
(* Compute Engine                                                            *)

\* Somebody creates a VM in a free place.
Create(p) ==
  /\ at[p] = None
  /\ \E v \in Ids :
       /\ status[v] = "unborn"
       /\ at' = [at EXCEPT ![p] = v]
       /\ status' = [status EXCEPT ![v] = "RUNNING"]
  /\ UNCHANGED <<pending, phase, target, place, address, action, starts, hits, faults>>

\* The status an operation leads to.
Outcome(a) ==
  CASE a \in {"reset", "start"} -> "RUNNING"
    [] a = "stop" -> "TERMINATED"
    [] a = "suspend" -> "SUSPENDED"
    [] a = "delete" -> "deleted"

\* An accepted operation is carried out.
CarryOut(op) ==
  /\ op \in pending
  /\ pending' = pending \ {op}
  /\ status' = [status EXCEPT ![op[2]] = IF @ = "deleted" THEN @ ELSE Outcome(op[3])]
  /\ at' = [p \in Places |-> IF op[3] = "delete" /\ at[p] = op[2] THEN None ELSE at[p]]
  /\ UNCHANGED <<phase, target, place, address, action, starts, hits, faults>>

-------------------------------------------------------------------------------
(* Attack                                                                    *)

Named(p) == p[3]

\* A mistake: the zone is left to chance.
AddressByName(p) == CHOOSE q \in Places : Named(q) = Named(p)

\* What Prepare copies from the attributes of a target discovered at a place.
Address(p) == p

\* The agent hands the extension a target the discovery had reported, and a
\* request; nothing says that the VM still exists when Start comes.
Prepare(e) ==
  /\ phase[e] = "new"
  /\ \E p \in Places, r \in Requests :
       /\ at[p] # None
       /\ target' = [target EXCEPT ![e] = at[p]]
       /\ place' = [place EXCEPT ![e] = p]
       /\ address' = [address EXCEPT ![e] = Address(p)]
       /\ action' = [action EXCEPT ![e] = r]
  /\ Goto(e, "prepared")
  /\ UNCHANGED <<at, status, pending, starts, hits, faults>>

\* An attribute or the parameter is missing.
PrepareFails(e) ==
  /\ phase[e] = "new"
  /\ Goto(e, "failed")
  /\ UNCHANGED <<at, status, pending, target, place, address, action, starts, hits, faults>>

\* A mistake: what is not known is a start.
OperationOrStart(e) == IF action[e] \in Actions THEN action[e] ELSE "start"

\* A mistake: whatever was requested is passed on.
OperationAsGiven(e) == action[e]

\* The operation Start's chain of comparisons selects, None if there is none.
Operation(e) == IF action[e] \in Actions THEN action[e] ELSE None

\* Start is called, again after an error; it gets its client and selects the call.
Start(e) ==
  /\ Called(e)
  /\ \/ Operation(e) # None /\ Goto(e, "calling") /\ UNCHANGED faults
     \/ Operation(e) = None /\ Goto(e, "err") /\ UNCHANGED faults
     \/ Fault /\ Goto(e, "err")
  /\ UNCHANGED <<at, status, pending, target, place, address, action, hits>>

\* The service accepts the operation on what is at the address by now.
Submitted(e) ==
  /\ at[address[e]] # None
  /\ pending' = pending \cup {<<e, at[address[e]], Operation(e)>>}
  /\ hits' = [hits EXCEPT ![e] = @ \cup {<<starts[e], at[address[e]]>>}]

Submit(e) ==
  /\ phase[e] = "calling"
  /\ Submitted(e)
  /\ Goto(e, "ok")
  /\ UNCHANGED <<at, status, target, place, address, action, starts, faults>>

\* The operation was submitted, the answer did not arrive.
SubmitAnswerLost(e) ==
  /\ phase[e] = "calling"
  /\ Fault
  /\ Submitted(e)
  /\ Goto(e, "err")
  /\ UNCHANGED <<at, status, target, place, address, action, starts>>

\* A mistake: the error of the call is dropped.
SubmitFailsUnnoticed(e) ==
  /\ phase[e] = "calling"
  /\ at[address[e]] = None
  /\ Goto(e, "ok")
  /\ UNCHANGED <<at, status, pending, target, place, address, action, starts, hits, faults>>

\* Nothing is at the address, or the call fails.
SubmitFails(e) ==
  /\ phase[e] = "calling"
  /\ \/ at[address[e]] = None /\ UNCHANGED faults
     \/ Fault
  /\ Goto(e, "err")
  /\ UNCHANGED <<at, status, pending, target, place, address, action, starts, hits>>

Next ==
  \/ \E p \in Places : Create(p)
  \/ \E op \in Execs \X Ids \X Actions : CarryOut(op)
  \/ \E e \in Execs :
       \/ Prepare(e) \/ PrepareFails(e) \/ Start(e)
       \/ Submit(e) \/ SubmitAnswerLost(e) \/ SubmitFails(e)

Spec == Init /\ [][Next]_vars

-------------------------------------------------------------------------------
(* Properties                                                                *)

\* A name may outlive its VM, so a late or repeated Start can reach a VM that was
\* never a target.  It can only be the successor at the target's own place: what is
\* hit is what is where the target was discovered, never a VM of the same name in
\* another zone or project, and as long as the discovered VM exists it is that VM.
OnlyASuccessorIsHitInstead ==
  [][\A e \in Execs : \A h \in hits'[e] \ hits[e] :
       /\ h[2] = at[place[e]]
       /\ h[2] = target[e] \/ status[target[e]] = "deleted"]_vars

\* Attacks change a VM only as the user asked: one that leaves the running state
\* was the object of an execution that requested just that, and a VM disappears
\* only when a deletion was requested.
ChangesAsRequested ==
  [][\A v \in Ids : status'[v] # status[v] /\ status[v] # "unborn" =>
       \E e \in Execs : /\ \E h \in hits[e] : h[2] = v
                        /\ action[e] \in Actions /\ status'[v] = Outcome(action[e])]_vars

\* A deletion cannot be taken back, nor can a reset: each Start is one shot, which
\* has at most one operation accepted, answered or not, and had one accepted if it
\* reports success.
Attack == INSTANCE OneShot WITH stage <- [e \in Execs |-> Stage(e)],
                                effects <- [e \in Execs |-> Cardinality(hits[e])]
Promise == Attack!Spec

===============================================================================
