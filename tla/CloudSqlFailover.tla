---------------------------- MODULE CloudSqlFailover ----------------------------
(***************************************************************************)
(* The Cloud SQL failover attack, extcloudsql/instance_attack_failover.go, *)
(* with the discovery that feeds it, extcloudsql/instance_discovery.go.    *)
(*                                                                         *)
(* Prepare decides on the availability type the last discovery saw.  Start *)
(* makes two calls: Get, for the settingsVersion, then Failover with that  *)
(* version, which the service refuses if the instance was mutated since.   *)
(* Operators, other executions and the discovery act at any moment.        *)
(***************************************************************************)

EXTENDS Executions

CONSTANT
  MaxVersion    \* bound: settingsVersion

ASSUME NoneAssumption == None \notin {"REGIONAL", "ZONAL"} \cup Nat
ASSUME VersionAssumption == MaxVersion \in Nat

VARIABLES
  settings,     \* of the instance: [avail, version], or None while it has none
  discovered,   \* availability-type of the target, None if it has no such attribute
  fetched,      \* inst.Settings.SettingsVersion, between Get and Failover
  given,        \* ghost: the availability type Prepare was given
  mutated,      \* ghost: was the instance mutated since the last Get of the execution
  failovers     \* ghost: failovers each execution caused

vars == <<executions, settings, discovered, fetched, given, mutated, failovers>>

Types == {"REGIONAL", "ZONAL"}

TypeOK ==
  /\ ExecutionsTypeOK
  /\ settings \in [avail : Types, version : 0..MaxVersion] \cup {None}
  /\ discovered \in Types \cup {None}
  /\ fetched \in [Execs -> 0..MaxVersion]
  /\ given \in [Execs -> Types \cup {None}]
  /\ mutated \in [Execs -> BOOLEAN]
  /\ failovers \in [Execs -> Nat]

Init ==
  /\ ExecutionsInit
  /\ settings \in [avail : Types, version : {0}]
  /\ discovered = None
  /\ fetched = [e \in Execs |-> 0]
  /\ given = [e \in Execs |-> None]
  /\ mutated = [e \in Execs |-> FALSE]
  /\ failovers = [e \in Execs |-> 0]

-------------------------------------------------------------------------------
(* Instance and discovery                                                    *)

\* An operator changes the settings, the availability type perhaps.
OperatorEdit ==
  /\ settings # None
  /\ settings.version < MaxVersion
  /\ \E a \in Types : settings' = [avail |-> a, version |-> settings.version + 1]
  /\ mutated' = [e \in Execs |-> TRUE]
  /\ UNCHANGED <<discovered, phase, fetched, given, starts, failovers, faults>>

\* The service answers without Settings from now on.
SettingsVanish ==
  /\ settings # None
  /\ settings' = None
  /\ mutated' = [e \in Execs |-> TRUE]
  /\ UNCHANGED <<discovered, phase, fetched, given, starts, failovers, faults>>

\* toInstanceTarget in a later refresh of the targets: an instance without
\* Settings has no availability type.
Discover ==
  /\ discovered' = IF settings = None THEN None ELSE settings.avail
  /\ UNCHANGED <<settings, phase, fetched, given, mutated, starts, failovers, faults>>

-------------------------------------------------------------------------------
(* Attack                                                                    *)

\* A mistake: a target without the attribute passes.
HighlyAvailableOrUnknown(a) == a # "ZONAL"

HighlyAvailable(a) == a = "REGIONAL"

Prepare(e) ==
  /\ phase[e] = "new"
  /\ Goto(e, IF HighlyAvailable(discovered) THEN "prepared" ELSE "failed")
  /\ given' = [given EXCEPT ![e] = discovered]
  /\ UNCHANGED <<settings, discovered, fetched, mutated, starts, failovers, faults>>

\* Start is called, again after an error; the service client is created.
Start(e) ==
  /\ Called(e)
  /\ Goto(e, "fetching")
  /\ UNCHANGED <<settings, discovered, fetched, given, mutated, failovers, faults>>

\* A mistake: an instance without Settings is read all the same.
GetAny(e) ==
  /\ phase[e] = "fetching"
  /\ fetched' = [fetched EXCEPT ![e] = IF settings = None THEN None ELSE settings.version]
  /\ mutated' = [mutated EXCEPT ![e] = FALSE]
  /\ Goto(e, "calling")
  /\ UNCHANGED <<settings, discovered, given, starts, failovers, faults>>

Get(e) ==
  /\ phase[e] = "fetching"
  /\ settings # None
  /\ fetched' = [fetched EXCEPT ![e] = settings.version]
  /\ mutated' = [mutated EXCEPT ![e] = FALSE]
  /\ Goto(e, "calling")
  /\ UNCHANGED <<settings, discovered, given, starts, failovers, faults>>

\* The client or the Get fails, or the instance has no Settings.
GetFails(e) ==
  /\ phase[e] = "fetching"
  /\ \/ settings = None /\ UNCHANGED faults
     \/ Fault
  /\ Goto(e, "err")
  /\ UNCHANGED <<settings, discovered, fetched, given, mutated, starts, failovers>>

\* A mistake: the context is sent without the version.
ServiceTakesAny(e) == settings # None /\ settings.avail = "REGIONAL"

\* The service fails a highly available instance over if the version is the
\* instance's.
ServiceTakes(e) ==
  /\ settings # None
  /\ settings.avail = "REGIONAL"
  /\ settings.version = fetched[e]

\* The instance changes its primary, which may or may not count as a new version
\* of its settings.
FailsOver(e) ==
  /\ ServiceTakes(e)
  /\ \/ UNCHANGED <<settings, mutated>>
     \/ /\ settings.version < MaxVersion
        /\ settings' = [settings EXCEPT !.version = @ + 1]
        /\ mutated' = [f \in Execs |-> TRUE]
  /\ failovers' = [failovers EXCEPT ![e] = @ + 1]

Failover(e) ==
  /\ phase[e] = "calling"
  /\ FailsOver(e)
  /\ Goto(e, "ok")
  /\ UNCHANGED <<discovered, fetched, given, starts, faults>>

\* The call took effect, its answer did not arrive.
FailoverAnswerLost(e) ==
  /\ phase[e] = "calling"
  /\ Fault
  /\ FailsOver(e)
  /\ Goto(e, "err")
  /\ UNCHANGED <<discovered, fetched, given, starts>>

\* A mistake: the error of the call is dropped.
FailoverFailsUnnoticed(e) ==
  /\ phase[e] = "calling"
  /\ \/ ~ServiceTakes(e) /\ UNCHANGED faults
     \/ Fault
  /\ Goto(e, "ok")
  /\ UNCHANGED <<settings, discovered, fetched, given, mutated, starts, failovers>>

FailoverFails(e) ==
  /\ phase[e] = "calling"
  /\ \/ ~ServiceTakes(e) /\ UNCHANGED faults
     \/ Fault
  /\ Goto(e, "err")
  /\ UNCHANGED <<settings, discovered, fetched, given, mutated, starts, failovers>>

Next ==
  \/ OperatorEdit \/ SettingsVanish \/ Discover
  \/ \E e \in Execs :
       \/ Prepare(e) \/ Start(e) \/ Get(e) \/ GetFails(e)
       \/ Failover(e) \/ FailoverAnswerLost(e) \/ FailoverFails(e)

Spec == Init /\ [][Next]_vars

-------------------------------------------------------------------------------
(* Properties                                                                *)

\* The comment in Start: the service fails the request if the instance was mutated
\* between Start's Get and its Failover.  So nobody's edit, and no other
\* execution's failover that counts as one, ever lies between the two.
NothingSlipsBetween == [][\A e \in Execs : failovers'[e] # failovers[e] => ~mutated[e]]_vars

\* A failover cannot be taken back, so each must be accounted for: the two calls
\* of a Start are one shot, which has at most one effect, answered or not, on a
\* target that Prepare confirmed, and had it if it reports success.
Attack == INSTANCE OneShot WITH stage <- [e \in Execs |-> Stage(e)], effects <- failovers
Promise == Attack!Spec

\* "Gated on availability-type=REGIONAL": whatever became of the instance since,
\* only an execution whose target was discovered as highly available fails it
\* over.
OnlyIfDiscoveredAvailable == \A e \in Execs : failovers[e] > 0 => given[e] = "REGIONAL"

===============================================================================
