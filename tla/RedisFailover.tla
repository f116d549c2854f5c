----------------------------- MODULE RedisFailover -----------------------------
(***************************************************************************)
(* The Memorystore failover attack,                                        *)
(* extmemorystore/redis_attack_failover.go.  Prepare takes the tier from   *)
(* the discovered target and the data protection mode from the user; the   *)
(* agent keeps both in the action's state and sends them back with Start,  *)
(* perhaps after an upgrade or damaged: the mode may have become a text    *)
(* this version does not know.  That it is not changed to the other known  *)
(* mode is assumed; Start has nothing to tell such a change by.  Start     *)
(* only requests the failover: the operation runs on in the service, at    *)
(* most one per instance.                                                  *)
(*                                                                         *)
(* Names that CloudSqlFailover has as well begin with Redis here: one      *)
(* proof module is about both attacks, which share Executions.             *)
(***************************************************************************)

EXTENDS Executions, FiniteSets

CONSTANTS
  Instances,  \* fully qualified instance names
  Target,     \* state.InstanceName of each execution
  Unknown,    \* mode texts that are neither of the two, "" and typos among them
  MaxDamage   \* bound: states damaged on the agent's side

Modes == {"LIMITED_DATA_LOSS", "FORCE_DATA_LOSS"}
Unspecified == "DATA_PROTECTION_MODE_UNSPECIFIED"
Tiers == {"STANDARD_HA", "BASIC"}

ASSUME TargetAssumption == Target \in [Execs -> Instances]
ASSUME UnknownAssumption == Unknown \cap Modes = {} /\ None \notin Modes \cup Unknown \cup Tiers
ASSUME DamageAssumption == MaxDamage \in Nat

VARIABLES
  tier,       \* the tier of each instance as discovered, None if it has none
  running,    \* the executions whose operation runs, by instance
  mode,       \* state.DataProtectionMode
  requested,  \* ghost: the "dataProtectionMode" parameter
  performed,  \* ghost: requests the service took, as <<execution, number, mode>>
  damage

redisVars == <<executions, tier, running, mode, requested, performed, damage>>

Texts == Modes \cup Unknown

RedisTypeOK ==
  /\ ExecutionsTypeOK
  /\ tier \in [Instances -> Tiers \cup {None}]
  /\ running \in [Instances -> Execs \cup {None}]
  /\ mode \in [Execs -> Texts \cup {None}]
  /\ requested \in [Execs -> Texts \cup {None}]
  /\ performed \subseteq Execs \X (1..MaxStarts) \X Modes
  /\ damage \in 0..MaxDamage

RedisInit ==
  /\ ExecutionsInit
  /\ tier \in [Instances -> Tiers \cup {None}]
  /\ running = [i \in Instances |-> None]
  /\ mode = [e \in Execs |-> None]
  /\ requested = [e \in Execs |-> None]
  /\ performed = {}
  /\ damage = 0

-------------------------------------------------------------------------------

\* A mistake, and what an earlier version did: everything else is LIMITED.
dataProtectionWithDefault(s) == IF s = "FORCE_DATA_LOSS" THEN s ELSE "LIMITED_DATA_LOSS"

\* The enum value of a text; UNSPECIFIED stands for "not ok".
dataProtectionFromString(s) == IF s \in Modes THEN s ELSE Unspecified

Known(s) == dataProtectionFromString(s) # Unspecified

SupportsFailover(i) == tier[i] = "STANDARD_HA"

RedisPrepare(e) ==
  /\ phase[e] = "new"
  /\ \E text \in Texts :
       /\ requested' = [requested EXCEPT ![e] = text]
       /\ IF SupportsFailover(Target[e])
            THEN /\ mode' = [mode EXCEPT ![e] = text]
                 /\ Goto(e, IF Known(text) THEN "prepared" ELSE "failed")
            ELSE /\ UNCHANGED mode
                 /\ Goto(e, "failed")
  /\ UNCHANGED <<tier, running, starts, performed, faults, damage>>

\* The state comes back from the agent with a mode this version does not know.  One
\* that was changed to the other known mode would pass the check of Start; that the
\* agent does not do this is an assumption.
Damage(e) ==
  /\ phase[e] \in {"prepared", "err"}
  /\ damage < MaxDamage
  /\ damage' = damage + 1
  /\ \E text \in Unknown : mode' = [mode EXCEPT ![e] = text]
  /\ UNCHANGED <<tier, running, phase, requested, starts, performed, faults>>

\* A mistake: what Prepare checked is not checked again.
StartTrustsPrepare(e) ==
  /\ Called(e)
  /\ Goto(e, "calling")
  /\ UNCHANGED <<tier, running, mode, requested, performed, faults, damage>>

\* Start is called, again after an error, and gets its client; it does not go on
\* with a mode it does not know.
RedisStart(e) ==
  /\ Called(e)
  /\ \/ /\ Known(mode[e])
        /\ Goto(e, "calling")
        /\ UNCHANGED faults
     \/ /\ ~Known(mode[e])
        /\ Goto(e, "err")
        /\ UNCHANGED faults
     \/ /\ Fault
        /\ Goto(e, "err")
  /\ UNCHANGED <<tier, running, mode, requested, performed, damage>>

\* The service starts the operation unless one runs on the instance already.
Requested(e) ==
  /\ running[Target[e]] = None
  /\ running' = [running EXCEPT ![Target[e]] = e]
  /\ performed' = performed \cup {<<e, starts[e], dataProtectionFromString(mode[e])>>}

FailoverInstance(e) ==
  /\ phase[e] = "calling"
  /\ Requested(e)
  /\ Goto(e, "ok")
  /\ UNCHANGED <<tier, mode, requested, starts, faults, damage>>

\* The operation started, the answer did not arrive.
FailoverInstanceAnswerLost(e) ==
  /\ phase[e] = "calling"
  /\ Fault
  /\ Requested(e)
  /\ Goto(e, "err")
  /\ UNCHANGED <<tier, mode, requested, starts, damage>>

\* A mistake: an operation that runs already counts as success.
FailoverInstanceFailsUnnoticed(e) ==
  /\ phase[e] = "calling"
  /\ running[Target[e]] # None
  /\ Goto(e, "ok")
  /\ UNCHANGED <<tier, running, mode, requested, starts, performed, faults, damage>>

FailoverInstanceFails(e) ==
  /\ phase[e] = "calling"
  /\ \/ running[Target[e]] # None /\ UNCHANGED faults
     \/ Fault
  /\ Goto(e, "err")
  /\ UNCHANGED <<tier, running, mode, requested, starts, performed, damage>>

\* The operation ends, long after Start.
OperationDone(i) ==
  /\ running[i] # None
  /\ running' = [running EXCEPT ![i] = None]
  /\ UNCHANGED <<tier, phase, mode, requested, starts, performed, faults, damage>>

RedisNext ==
  \/ \E e \in Execs :
       \/ RedisPrepare(e) \/ Damage(e) \/ RedisStart(e)
       \/ FailoverInstance(e) \/ FailoverInstanceAnswerLost(e) \/ FailoverInstanceFails(e)
  \/ \E i \in Instances : OperationDone(i)

RedisSpec == RedisInit /\ [][RedisNext]_redisVars

-------------------------------------------------------------------------------
(* Properties                                                                *)

\* A failover is performed in the mode the user asked for or not at all: a typo, a
\* stale UI or a state whose mode became unreadable neither hides a request for
\* FORCE_DATA_LOSS behind the graceful mode nor makes one of something else, and an
\* instance that was not discovered as highly available is left alone.
ModeAsRequested ==
  \A p \in performed : p[3] = requested[p[1]] /\ tier[Target[p[1]]] = "STANDARD_HA"

\* A failover cannot be taken back: each Start is one shot, which has the service
\* perform at most one failover, answered or not, on an instance that Prepare
\* confirmed, and had it perform one if it reports success.
Performed(e) == {p \in performed : p[1] = e}

RedisAttack == INSTANCE OneShot WITH stage <- [e \in Execs |-> Stage(e)],
                                     effects <- [e \in Execs |-> Cardinality(Performed(e))]
RedisPromise == RedisAttack!Spec

===============================================================================
