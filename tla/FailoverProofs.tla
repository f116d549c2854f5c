----------------------------- MODULE FailoverProofs -----------------------------
(***************************************************************************)
(* Theorems about the two attacks that cannot be taken back: about         *)
(* CloudSqlFailover, for any number of executions, versions and faults,    *)
(* and about RedisFailover, for any executions and instances, any mode     *)
(* texts, faults and damaged states.  Both implement OneShot.              *)
(***************************************************************************)

EXTENDS CloudSqlFailover, RedisFailover, FiniteSetTheorems, TLAPS

\* What Executions only gives a name to.
USE DEF executions, ExecutionsTypeOK, ExecutionsInit, Goto, Called

\* A step of one execution, as OneShot sees it.
LEMMA StageOfOther ==
  ASSUME NEW e \in Execs, NEW p, phase' = [phase EXCEPT ![e] = p], ExecutionsTypeOK,
         NEW s, Stage(e)' = s
  PROVE  [f \in Execs |-> Stage(f)]' = [[f \in Execs |-> Stage(f)] EXCEPT ![e] = s]
<1>1. \A f \in Execs : f # e => Stage(f)' = Stage(f)
      BY DEF ExecutionsTypeOK, Stage
<1> QED
    BY <1>1

-------------------------------------------------------------------------------
(* Cloud SQL                                                                 *)

\* Only what Prepare let pass was ever given a highly available target.
Gated ==
  \A e \in Execs : phase[e] \notin {"new", "failed"} => given[e] = "REGIONAL"

\* Before a Start there is no failover.
Unstarted ==
  \A e \in Execs : phase[e] \in {"new", "failed"} => failovers[e] = 0

\* The version an execution holds is never ahead of the instance's, and behind it
\* as soon as somebody mutated the instance: versions only grow.
VersionTells ==
  \A e \in Execs :
    phase[e] = "calling" /\ settings # None =>
      /\ fetched[e] <= settings.version
      /\ mutated[e] => fetched[e] < settings.version

\* Every Start causes at most one failover, answered or not, and a Start that
\* reports success caused one.
OnePerStart ==
  \A e \in Execs :
    /\ failovers[e] <= starts[e]
    /\ phase[e] \in {"fetching", "calling"} => failovers[e] < starts[e]
    /\ phase[e] = "ok" => failovers[e] > 0

IInv == TypeOK /\ Gated /\ Unstarted /\ VersionTells /\ OnePerStart

-------------------------------------------------------------------------------

\* At first nothing is asked for.
LEMMA InitIInv == Init => IInv
BY NoneAssumption, BoundsAssumption, VersionAssumption
   DEF Init, IInv, TypeOK, Gated, Unstarted, VersionTells, OnePerStart, Types, Phases

\* Types.
LEMMA StepTypeOK == TypeOK /\ [Next]_vars => TypeOK'
<1> SUFFICES ASSUME TypeOK, [Next]_vars PROVE TypeOK'
    OBVIOUS
<1> USE NoneAssumption, BoundsAssumption, VersionAssumption DEF TypeOK, Types, Phases
<1>1. ASSUME OperatorEdit PROVE TypeOK'
      BY <1>1 DEF OperatorEdit
<1>2. ASSUME SettingsVanish PROVE TypeOK'
      BY <1>2 DEF SettingsVanish
<1>3. ASSUME Discover PROVE TypeOK'
      BY <1>3 DEF Discover
<1>4. ASSUME NEW e \in Execs, Prepare(e) PROVE TypeOK'
      BY <1>4 DEF Prepare, HighlyAvailable
<1>5. ASSUME NEW e \in Execs, Start(e) PROVE TypeOK'
      BY <1>5 DEF Start
<1>6. ASSUME NEW e \in Execs, Get(e) PROVE TypeOK'
      BY <1>6 DEF Get
<1>7. ASSUME NEW e \in Execs, GetFails(e) PROVE TypeOK'
      BY <1>7 DEF GetFails, Fault
<1>8. ASSUME NEW e \in Execs, FailsOver(e)
      PROVE  /\ settings' \in [avail : Types, version : 0..MaxVersion] \cup {None}
             /\ mutated' \in [Execs -> BOOLEAN]
             /\ failovers' \in [Execs -> Nat]
  <2>1. settings \in [avail : Types, version : 0..MaxVersion]
        BY <1>8 DEF FailsOver, ServiceTakes
  <2>2. failovers' \in [Execs -> Nat]
        BY <1>8 DEF FailsOver
  <2>3. CASE UNCHANGED <<settings, mutated>>
        BY <2>2, <2>3
  <2>4. CASE /\ settings.version < MaxVersion
             /\ settings' = [settings EXCEPT !.version = @ + 1]
             /\ mutated' = [f \in Execs |-> TRUE]
    <3>1. settings.version + 1 \in 0..MaxVersion
          BY <2>1, <2>4
    <3>2. settings' \in [avail : Types, version : 0..MaxVersion]
          BY <2>1, <2>4, <3>1
    <3>3. mutated' \in [Execs -> BOOLEAN]
          BY <2>4
    <3> QED
        BY <2>2, <3>2, <3>3
  <2> QED
      BY <1>8, <2>3, <2>4 DEF FailsOver
<1>9. ASSUME NEW e \in Execs, Failover(e) PROVE TypeOK'
      BY <1>8, <1>9 DEF Failover
<1>10. ASSUME NEW e \in Execs, FailoverAnswerLost(e) PROVE TypeOK'
      BY <1>8, <1>10 DEF FailoverAnswerLost, Fault
<1>11. ASSUME NEW e \in Execs, FailoverFails(e) PROVE TypeOK'
      BY <1>11 DEF FailoverFails, Fault
<1>12. CASE UNCHANGED vars
      BY <1>12 DEF vars
<1> QED
    BY <1>1, <1>2, <1>3, <1>4, <1>5, <1>6, <1>7, <1>9, <1>10, <1>11, <1>12 DEF Next

\* Gates and counts: what phase an execution is in tells how many failovers it may
\* have caused.
LEMMA StepCounts ==
  TypeOK /\ Gated /\ Unstarted /\ OnePerStart /\ [Next]_vars
    => Gated' /\ Unstarted' /\ OnePerStart'
<1> SUFFICES ASSUME TypeOK, Gated, Unstarted, OnePerStart, [Next]_vars
             PROVE  Gated' /\ Unstarted' /\ OnePerStart'
    OBVIOUS
<1> USE DEF TypeOK, Phases, Gated, Unstarted, OnePerStart
<1>1. CASE OperatorEdit
      BY <1>1 DEF OperatorEdit
<1>2. CASE SettingsVanish
      BY <1>2 DEF SettingsVanish
<1>3. CASE Discover
      BY <1>3 DEF Discover
<1>4. ASSUME NEW e \in Execs, Prepare(e) PROVE Gated' /\ Unstarted' /\ OnePerStart'
      BY <1>4 DEF Prepare, HighlyAvailable
<1>5. ASSUME NEW e \in Execs, Start(e) PROVE Gated' /\ Unstarted' /\ OnePerStart'
      BY <1>5, BoundsAssumption DEF Start
<1>6. ASSUME NEW e \in Execs, Get(e) PROVE Gated' /\ Unstarted' /\ OnePerStart'
      BY <1>6 DEF Get
<1>7. ASSUME NEW e \in Execs, GetFails(e) PROVE Gated' /\ Unstarted' /\ OnePerStart'
      BY <1>7 DEF GetFails
<1>8. ASSUME NEW e \in Execs, Failover(e) PROVE Gated' /\ Unstarted' /\ OnePerStart'
      BY <1>8, BoundsAssumption DEF Failover, FailsOver
<1>9. ASSUME NEW e \in Execs, FailoverAnswerLost(e) PROVE Gated' /\ Unstarted' /\ OnePerStart'
      BY <1>9, BoundsAssumption DEF FailoverAnswerLost, FailsOver
<1>10. ASSUME NEW e \in Execs, FailoverFails(e) PROVE Gated' /\ Unstarted' /\ OnePerStart'
      BY <1>10 DEF FailoverFails
<1>11. CASE UNCHANGED vars
      BY <1>11 DEF vars
<1> QED
    BY <1>1, <1>2, <1>3, <1>4, <1>5, <1>6, <1>7, <1>8, <1>9, <1>10, <1>11 DEF Next

\* Versions: a change of the instance makes every version held stale.
LEMMA StepVersion == TypeOK /\ VersionTells /\ [Next]_vars => VersionTells'
<1> SUFFICES ASSUME TypeOK, VersionTells, [Next]_vars PROVE VersionTells'
    OBVIOUS
<1> USE NoneAssumption, BoundsAssumption, VersionAssumption DEF TypeOK, Phases, Types, VersionTells
<1>1. CASE OperatorEdit
      BY <1>1 DEF OperatorEdit
<1>2. CASE SettingsVanish
      BY <1>2 DEF SettingsVanish
<1>3. CASE Discover
      BY <1>3 DEF Discover
<1>4. ASSUME NEW e \in Execs, Prepare(e) PROVE VersionTells'
      BY <1>4 DEF Prepare
<1>5. ASSUME NEW e \in Execs, Start(e) PROVE VersionTells'
      BY <1>5 DEF Start
<1>6. ASSUME NEW e \in Execs, Get(e) PROVE VersionTells'
      BY <1>6 DEF Get
<1>7. ASSUME NEW e \in Execs, GetFails(e) PROVE VersionTells'
      BY <1>7 DEF GetFails
<1>8. ASSUME NEW e \in Execs, phase[e] = "calling", FailsOver(e), UNCHANGED fetched,
             \A f \in Execs : phase'[f] = "calling" => phase[f] = "calling"
      PROVE VersionTells'
      BY <1>8 DEF FailsOver, ServiceTakes
<1>9. ASSUME NEW e \in Execs, Failover(e) PROVE VersionTells'
      BY <1>8, <1>9 DEF Failover
<1>10. ASSUME NEW e \in Execs, FailoverAnswerLost(e) PROVE VersionTells'
      BY <1>8, <1>10 DEF FailoverAnswerLost
<1>11. ASSUME NEW e \in Execs, FailoverFails(e) PROVE VersionTells'
      BY <1>11 DEF FailoverFails
<1>12. CASE UNCHANGED vars
      BY <1>12 DEF vars
<1> QED
    BY <1>1, <1>2, <1>3, <1>4, <1>5, <1>6, <1>7, <1>9, <1>10, <1>11, <1>12 DEF Next

\* Hence always.
LEMMA Invariance == Spec => []IInv
<1>1. IInv /\ [Next]_vars => IInv'
      BY StepTypeOK, StepCounts, StepVersion DEF IInv
<1> QED
    BY InitIInv, <1>1, PTL DEF Spec

-------------------------------------------------------------------------------

\* The type invariant of Start's two calls and the instance they are made on.
THEOREM TypeCorrect == Spec => []TypeOK
BY Invariance, PTL DEF IInv

\* Counted in Starts: at most one failover for each, however many executions,
\* retries and lost answers there are.
THEOREM OnePerStartHolds == Spec => []OnePerStart
BY Invariance, PTL DEF IInv

\* Only executions that Prepare let pass ever fail the instance over.
THEOREM GateHolds == Spec => []OnlyIfDiscoveredAvailable
<1>1. IInv => OnlyIfDiscoveredAvailable
      BY DEF IInv, TypeOK, Phases, Gated, Unstarted, OnlyIfDiscoveredAvailable
<1> QED
    BY Invariance, <1>1, PTL

\* The settingsVersion that Start passes from Get to Failover keeps every mutation
\* of the instance out from between the two.
THEOREM NothingSlips == Spec => NothingSlipsBetween
<1>1. IInv /\ [Next]_vars
        => [\A e \in Execs : failovers'[e] # failovers[e] => ~mutated[e]]_vars
  <2> SUFFICES ASSUME IInv, [Next]_vars, NEW e \in Execs, failovers'[e] # failovers[e]
               PROVE  ~mutated[e]
      OBVIOUS
  <2>1. PICK f \in Execs : Failover(f) \/ FailoverAnswerLost(f)
        BY DEF Next, vars, OperatorEdit, SettingsVanish, Discover, Prepare, Start, Get,
               GetFails, FailoverFails
  <2>2. phase[f] = "calling" /\ FailsOver(f)
        BY <2>1 DEF Failover, FailoverAnswerLost
  <2>3. f = e
        BY <2>2 DEF FailsOver, IInv, TypeOK
  <2> QED
      BY <2>2, <2>3 DEF FailsOver, ServiceTakes, IInv, VersionTells, TypeOK
<1> QED
    BY Invariance, <1>1, PTL DEF Spec, NothingSlipsBetween

\* The failover attack implements OneShot: it has at most one effect for every
\* Start, none on an unconfirmed target, and had one where it reports success.
THEOREM KeepsPromise == Spec => Promise
<1> DEFINE stage == [e \in Execs |-> Stage(e)]
<1>1. Init => Attack!Init
      BY DEF Init, Attack!Init, Stage
<1>2. TypeOK /\ [Next]_vars => [Attack!Next]_(Attack!vars)
  <2> SUFFICES ASSUME TypeOK, [Next]_vars PROVE [Attack!Next]_(Attack!vars)
      OBVIOUS
  <2> USE DEF Attack!Next, Attack!vars
  <2>1. CASE OperatorEdit \/ SettingsVanish \/ Discover \/ UNCHANGED vars
    <3>1. UNCHANGED <<phase, failovers>>
          BY <2>1 DEF OperatorEdit, SettingsVanish, Discover, vars
    <3>2. \A e \in Execs : Stage(e)' = Stage(e)
          BY <3>1 DEF Stage
    <3> QED
        BY <3>1, <3>2
  <2>2. ASSUME NEW e \in Execs, Prepare(e) PROVE Attack!Decide(e)
    <3>1. PICK p \in {"prepared", "failed"} : phase' = [phase EXCEPT ![e] = p]
          BY <2>2 DEF Prepare
    <3>2. Stage(e)' \in {"confirmed", "refused"}
          BY <3>1 DEF TypeOK, Stage
    <3> QED
        BY <2>2, <3>1, <3>2, StageOfOther DEF TypeOK, Prepare, Attack!Decide, Stage
  <2>3. ASSUME NEW e \in Execs, Start(e) PROVE Attack!Call(e)
    <3>1. phase' = [phase EXCEPT ![e] = "fetching"]
          BY <2>3 DEF Start
    <3>2. Stage(e)' = "calling"
          BY <3>1 DEF TypeOK, Stage
    <3> QED
        BY <2>3, <3>1, <3>2, StageOfOther DEF TypeOK, Start, Attack!Call, Stage
  <2>4. ASSUME NEW e \in Execs, Get(e) PROVE UNCHANGED <<stage, failovers>>
    <3>1. /\ failovers' = failovers /\ phase[e] = "fetching"
          /\ phase' = [phase EXCEPT ![e] = "calling"]
          BY <2>4 DEF Get
    <3>2. \A f \in Execs : Stage(f)' = Stage(f)
          BY <3>1 DEF TypeOK, Stage
    <3> QED
        BY <3>1, <3>2
  <2>5. ASSUME NEW e \in Execs, GetFails(e) \/ FailoverFails(e) PROVE Attack!Fail(e)
    <3>1. phase' = [phase EXCEPT ![e] = "err"]
          BY <2>5 DEF GetFails, FailoverFails
    <3>2. Stage(e)' = "failed"
          BY <3>1 DEF TypeOK, Stage
    <3> QED
        BY <2>5, <3>1, <3>2, StageOfOther DEF TypeOK, GetFails, FailoverFails, Attack!Fail, Stage
  <2>6. ASSUME NEW e \in Execs, Failover(e) \/ FailoverAnswerLost(e) PROVE Attack!Effect(e)
    <3>1. PICK p \in {"ok", "err"} : phase' = [phase EXCEPT ![e] = p]
          BY <2>6 DEF Failover, FailoverAnswerLost
    <3>2. Stage(e)' \in {"done", "failed"}
          BY <3>1 DEF TypeOK, Stage
    <3> QED
        BY <2>6, <3>1, <3>2, StageOfOther
           DEF TypeOK, Failover, FailoverAnswerLost, FailsOver, Attack!Effect, Stage
  <2> QED
      BY <2>1, <2>2, <2>3, <2>4, <2>5, <2>6 DEF Next
<1> QED
    BY Invariance, <1>1, <1>2, PTL DEF Spec, Promise, Attack!Spec, IInv

-------------------------------------------------------------------------------
(* Memorystore                                                               *)

\* An execution that passed Prepare holds the mode it was asked for, or one that
\* Start will not know, and its instance was discovered as highly available.
Confirmed ==
  \A e \in Execs : phase[e] \notin {"new", "failed"} =>
    /\ mode[e] = requested[e] \/ mode[e] \in Unknown
    /\ tier[Target[e]] = "STANDARD_HA"

\* Between the check of the mode and the request nothing changes the mode.
Checked ==
  \A e \in Execs : phase[e] = "calling" =>
    Known(mode[e]) /\ starts[e] \in 1..MaxStarts

\* Every Start has a number of its own, under which there is nothing yet while it
\* runs and something when it succeeded.
Numbered ==
  /\ IsFiniteSet(performed)
  /\ \A p \in performed :
       /\ phase[p[1]] \notin {"new", "failed"}
       /\ p[2] <= starts[p[1]]
       /\ phase[p[1]] = "calling" => p[2] # starts[p[1]]

\* Together inductive: the mode at the request is that of the check, and the check
\* lets nothing pass but what was asked for.
RedisInv == RedisTypeOK /\ Confirmed /\ Checked /\ Numbered /\ ModeAsRequested

\* At first nothing is held, checked or performed.
LEMMA InitRedisInv == RedisInit => RedisInv
BY BoundsAssumption, DamageAssumption, FS_EmptySet
   DEF RedisInit, RedisInv, RedisTypeOK, Phases, Confirmed, Checked,
       Numbered, ModeAsRequested

\* What Start knows is one of the two modes, and the mode it requests.
LEMMA KnownModes ==
  ASSUME NEW s, Known(s)
  PROVE  s \in Modes /\ s \notin Unknown /\ dataProtectionFromString(s) = s
BY UnknownAssumption DEF Known, dataProtectionFromString, Modes, Unspecified

\* A request the service takes, answered or not.
LEMMA RequestKeeps ==
  ASSUME RedisInv, NEW e \in Execs, phase[e] = "calling", Requested(e),
         NEW p \in {"ok", "err"}, phase' = [phase EXCEPT ![e] = p],
         UNCHANGED <<tier, mode, requested, starts, damage>>, faults' \in 0..MaxFaults
  PROVE  RedisInv'
<1>. USE TargetAssumption, BoundsAssumption
<1>. DEFINE new == <<e, starts[e], mode[e]>>
<1>1. mode[e] \in Modes /\ mode[e] = requested[e] /\ starts[e] \in 1..MaxStarts
      /\ tier[Target[e]] = "STANDARD_HA"
  BY KnownModes DEF RedisInv, Checked, Confirmed
<1>2. performed' = performed \cup {new} /\ running' = [running EXCEPT ![Target[e]] = e]
  BY KnownModes DEF Requested, RedisInv, Checked
<1>3. new \in Execs \X (1..MaxStarts) \X Modes
  BY <1>1
<1>4. RedisTypeOK'
  BY <1>2, <1>3 DEF RedisInv, RedisTypeOK, Phases
<1>5. Confirmed' /\ Checked'
  BY DEF RedisInv, RedisTypeOK, Confirmed, Checked
<1>6. IsFiniteSet(performed')
  BY <1>2, FS_AddElement DEF RedisInv, Numbered
<1>7. ASSUME NEW q \in performed'
      PROVE  /\ phase'[q[1]] \notin {"new", "failed"}
             /\ q[2] <= starts'[q[1]]
             /\ phase'[q[1]] = "calling" => q[2] # starts'[q[1]]
             /\ q[3] = requested'[q[1]] /\ tier'[Target[q[1]]] = "STANDARD_HA"
  <2>1. CASE q \in performed
    <3>1. q[1] \in Execs
      BY <2>1 DEF RedisInv, RedisTypeOK
    <3>. QED
      BY <2>1, <3>1 DEF RedisInv, RedisTypeOK, Numbered, ModeAsRequested
  <2>2. CASE q = new
    BY <1>1, <2>2 DEF RedisInv, RedisTypeOK
  <2>. QED
    BY <1>2, <2>1, <2>2
<1>. QED
  BY <1>4, <1>5, <1>6, <1>7 DEF RedisInv, Numbered, ModeAsRequested

\* Every step keeps what is held, checked and numbered.
LEMMA NextRedisInv ==
  ASSUME RedisInv, [RedisNext]_redisVars PROVE RedisInv'
<1>. USE TargetAssumption, UnknownAssumption, BoundsAssumption, DamageAssumption
<1>1. ASSUME NEW e \in Execs, RedisPrepare(e) PROVE RedisInv'
  <2>1. /\ phase[e] = "new"
        /\ UNCHANGED <<tier, running, starts, performed, faults, damage>>
        /\ \A p \in performed : p[1] \in Execs /\ p[1] # e
    BY <1>1 DEF RedisPrepare, RedisInv, Numbered, RedisTypeOK
  <2>2. PICK text \in Texts :
          /\ requested' = [requested EXCEPT ![e] = text]
          /\ \/ /\ SupportsFailover(Target[e]) /\ mode' = [mode EXCEPT ![e] = text]
                /\ phase' = [phase EXCEPT
                                    ![e] = IF Known(text) THEN "prepared" ELSE "failed"]
             \/ mode' = mode /\ phase' = [phase EXCEPT ![e] = "failed"]
    BY <1>1 DEF RedisPrepare
  <2>3. RedisTypeOK'
    BY <2>1, <2>2 DEF RedisInv, RedisTypeOK, Phases
  <2>4. Confirmed' /\ Checked'
    BY <2>1, <2>2 DEF RedisInv, RedisTypeOK, Confirmed, Checked, SupportsFailover
  <2>5. Numbered' /\ ModeAsRequested'
    BY <2>1, <2>2 DEF RedisInv, RedisTypeOK, Numbered, ModeAsRequested
  <2>. QED
    BY <2>3, <2>4, <2>5 DEF RedisInv
<1>2. ASSUME NEW e \in Execs, Damage(e) PROVE RedisInv'
  <2>1. /\ phase[e] \in {"prepared", "err"} /\ damage' = damage + 1 /\ damage < MaxDamage
        /\ \E text \in Unknown : mode' = [mode EXCEPT ![e] = text]
        /\ UNCHANGED <<tier, running, phase, requested>>
        /\ UNCHANGED <<starts, performed, faults>>
    BY <1>2 DEF Damage
  <2>2. RedisTypeOK'
    BY <2>1 DEF RedisInv, RedisTypeOK, Phases, Texts
  <2>3. Confirmed' /\ Checked'
    BY <2>1 DEF RedisInv, RedisTypeOK, Confirmed, Checked
  <2>4. Numbered' /\ ModeAsRequested'
    BY <2>1 DEF RedisInv, RedisTypeOK, Numbered, ModeAsRequested
  <2>. QED
    BY <2>2, <2>3, <2>4 DEF RedisInv
<1>3. ASSUME NEW e \in Execs, RedisStart(e) PROVE RedisInv'
  <2>1. /\ phase[e] \in {"prepared", "err"} /\ starts[e] < MaxStarts
        /\ starts' = [starts EXCEPT ![e] = @ + 1]
        /\ \/ Known(mode[e]) /\ phase' = [phase EXCEPT ![e] = "calling"]
           \/ phase' = [phase EXCEPT ![e] = "err"]
        /\ faults' = faults \/ Fault
        /\ UNCHANGED <<tier, running, mode, requested, performed, damage>>
    BY <1>3 DEF RedisStart
  <2>2. RedisTypeOK'
    BY <2>1 DEF RedisInv, RedisTypeOK, Phases, Fault
  <2>3. Confirmed' /\ Checked'
    BY <2>1 DEF RedisInv, RedisTypeOK, Confirmed, Checked
  <2>4. Numbered' /\ ModeAsRequested'
    <3>1. ASSUME NEW p \in performed
          PROVE  /\ phase'[p[1]] \notin {"new", "failed"}
                 /\ p[2] <= starts'[p[1]]
                 /\ phase'[p[1]] = "calling" => p[2] # starts'[p[1]]
      <4>1. /\ p[1] \in Execs /\ p[2] \in Nat /\ starts[p[1]] \in Nat
            /\ p[2] <= starts[p[1]]
            /\ phase[p[1]] \notin {"new", "failed"}
            /\ phase[p[1]] = "calling" => p[2] # starts[p[1]]
        BY DEF RedisInv, RedisTypeOK, Numbered
      <4>2. CASE p[1] = e
        BY <2>1, <4>1, <4>2 DEF RedisInv, RedisTypeOK
      <4>3. CASE p[1] # e
        BY <2>1, <4>1, <4>3 DEF RedisInv, RedisTypeOK
      <4>. QED
        BY <4>2, <4>3
    <3>. QED
      BY <2>1, <3>1 DEF RedisInv, Numbered, ModeAsRequested
  <2>. QED
    BY <2>2, <2>3, <2>4 DEF RedisInv
<1>4. ASSUME NEW e \in Execs, FailoverInstance(e) \/ FailoverInstanceAnswerLost(e)
      PROVE  RedisInv'
  BY <1>4, RequestKeeps
     DEF FailoverInstance, FailoverInstanceAnswerLost, Fault, RedisInv, RedisTypeOK
<1>5. ASSUME NEW e \in Execs, FailoverInstanceFails(e) PROVE RedisInv'
  <2>1. /\ phase[e] = "calling" /\ phase' = [phase EXCEPT ![e] = "err"]
        /\ faults' = faults \/ Fault
        /\ UNCHANGED <<tier, running, mode, requested, starts, performed, damage>>
    BY <1>5 DEF FailoverInstanceFails
  <2>2. RedisTypeOK'
    BY <2>1 DEF RedisInv, RedisTypeOK, Phases, Fault
  <2>3. Confirmed' /\ Checked'
    BY <2>1 DEF RedisInv, RedisTypeOK, Confirmed, Checked
  <2>4. Numbered' /\ ModeAsRequested'
    BY <2>1 DEF RedisInv, RedisTypeOK, Numbered, ModeAsRequested
  <2>. QED
    BY <2>2, <2>3, <2>4 DEF RedisInv
<1>6. ASSUME NEW i \in Instances, OperationDone(i) PROVE RedisInv'
  BY <1>6 DEF OperationDone, RedisInv, RedisTypeOK, Confirmed, Checked, Numbered,
              ModeAsRequested
<1>7. CASE UNCHANGED redisVars
  BY <1>7 DEF redisVars, RedisInv, RedisTypeOK, Confirmed, Checked, Numbered,
              ModeAsRequested
<1>. QED
  BY <1>1, <1>2, <1>3, <1>4, <1>5, <1>6, <1>7 DEF RedisNext

\* Hence always.
LEMMA AlwaysRedisInv == RedisSpec => []RedisInv
<1>1. RedisInv /\ [RedisNext]_redisVars => RedisInv'
  BY NextRedisInv
<1>2. RedisInit => RedisInv
  BY InitRedisInv
<1>. QED
  BY <1>1, <1>2, PTL DEF RedisSpec

\* A request is counted for the execution it is of, once.
LEMMA RequestCounts ==
  ASSUME RedisInv, NEW e \in Execs, phase[e] = "calling", Requested(e)
  PROVE  [f \in Execs |-> Cardinality(Performed(f))]'
           = [[f \in Execs |-> Cardinality(Performed(f))] EXCEPT ![e] = @ + 1]
<1>. DEFINE new == <<e, starts[e], dataProtectionFromString(mode[e])>>
<1>1. performed' = performed \cup {new} /\ new \notin performed /\ new[1] = e
  BY DEF Requested, RedisInv, Numbered
<1>. HIDE DEF new
<1>2. IsFiniteSet(Performed(e))
  BY FS_Subset DEF RedisInv, Numbered, Performed
<1>3. Performed(e)' = Performed(e) \cup {new} /\ new \notin Performed(e)
  BY <1>1 DEF Performed
<1>4. Cardinality(Performed(e)') = Cardinality(Performed(e)) + 1
  BY <1>2, <1>3, FS_AddElement
<1>5. \A f \in Execs : f # e => Performed(f)' = Performed(f)
  BY <1>1 DEF Performed
<1>. QED
  BY <1>4, <1>5

\* Every variable of RedisFailover keeps its type: only the two known modes ever
\* reach the service.
THEOREM RedisTypeCorrect == RedisSpec => []RedisTypeOK
BY AlwaysRedisInv, PTL DEF RedisInv

\* A failover is performed in the mode that was asked for, on an instance that was
\* discovered as highly available, or not at all.  The agent's state may come back with
\* an unknown mode in between, not with the other known one.
THEOREM ModeAsRequestedHolds == RedisSpec => []ModeAsRequested
BY AlwaysRedisInv, PTL DEF RedisInv

\* This failover attack implements OneShot as well: every Start is one shot.
THEOREM RedisKeepsPromise == RedisSpec => RedisPromise
<1>. DEFINE stage == [e \in Execs |-> Stage(e)]
            effects == [e \in Execs |-> Cardinality(Performed(e))]
<1>1. RedisInit => RedisAttack!Init
  <2>. SUFFICES ASSUME RedisInit PROVE RedisAttack!Init
    OBVIOUS
  <2>1. \A e \in Execs : Stage(e) = "new" /\ Performed(e) = {}
    BY DEF RedisInit, Stage, Performed
  <2>. QED
    BY <2>1, FS_EmptySet DEF RedisAttack!Init
<1>2. RedisInv /\ [RedisNext]_redisVars => [RedisAttack!Next]_(RedisAttack!vars)
  <2>. SUFFICES ASSUME RedisInv, [RedisNext]_redisVars
                PROVE  [RedisAttack!Next]_(RedisAttack!vars)
    OBVIOUS
  <2>. USE DEF RedisAttack!Next, RedisAttack!vars
  <2>0. RedisTypeOK /\ ExecutionsTypeOK
    BY DEF RedisInv, RedisTypeOK
  <2>1. ASSUME UNCHANGED <<phase, performed>> PROVE UNCHANGED RedisAttack!vars
    <3>1. \A e \in Execs : /\ Stage(e)' = Stage(e)
                          /\ Performed(e)' = Performed(e)
      BY <2>1 DEF Stage, Performed
    <3>. QED
      BY <3>1
  <2>2. ASSUME performed' = performed PROVE effects' = effects
    <3>1. \A e \in Execs : Performed(e)' = Performed(e)
      BY <2>2 DEF Performed
    <3>. QED
      BY <3>1
  <2>3. ASSUME NEW e \in Execs, RedisPrepare(e) PROVE RedisAttack!Decide(e)
    <3>1. PICK p \in {"prepared", "failed"} : phase' = [phase EXCEPT ![e] = p]
      BY <2>3 DEF RedisPrepare
    <3>2. Stage(e)' \in {"confirmed", "refused"}
      BY <2>0, <3>1 DEF RedisTypeOK, Stage
    <3>3. stage[e] = "new" /\ effects' = effects
      BY <2>2, <2>3 DEF RedisPrepare, Stage
    <3>. QED
      BY <2>0, <3>1, <3>2, <3>3, StageOfOther DEF RedisAttack!Decide
  <2>4. ASSUME NEW e \in Execs, RedisStart(e)
        PROVE  RedisAttack!Call(e) \/ RedisAttack!Fail(e)
    <3>1. PICK p \in {"calling", "err"} : phase' = [phase EXCEPT ![e] = p]
      BY <2>4 DEF RedisStart
    <3>2. Stage(e)' = IF p = "calling" THEN "calling" ELSE "failed"
      BY <2>0, <3>1 DEF RedisTypeOK, Stage
    <3>3. stage[e] \in {"confirmed", "failed"} /\ effects' = effects
      BY <2>2, <2>4 DEF RedisStart, Stage
    <3>. QED
      BY <2>0, <3>1, <3>2, <3>3, StageOfOther DEF RedisAttack!Call, RedisAttack!Fail
  <2>5. ASSUME NEW e \in Execs, FailoverInstance(e) \/ FailoverInstanceAnswerLost(e)
        PROVE  RedisAttack!Effect(e)
    <3>1. PICK p \in {"ok", "err"} : phase' = [phase EXCEPT ![e] = p]
      BY <2>5 DEF FailoverInstance, FailoverInstanceAnswerLost
    <3>2. Stage(e)' \in {"done", "failed"}
      BY <2>0, <3>1 DEF RedisTypeOK, Stage
    <3>3. phase[e] = "calling" /\ Requested(e)
      BY <2>5 DEF FailoverInstance, FailoverInstanceAnswerLost
    <3>4. stage[e] = "calling"
      BY <3>3 DEF Stage
    <3>. QED
      BY <2>0, <3>1, <3>2, <3>3, <3>4, StageOfOther, RequestCounts DEF RedisAttack!Effect
  <2>6. ASSUME NEW e \in Execs, FailoverInstanceFails(e) PROVE RedisAttack!Fail(e)
    <3>1. phase' = [phase EXCEPT ![e] = "err"]
      BY <2>6 DEF FailoverInstanceFails
    <3>2. Stage(e)' = "failed"
      BY <2>0, <3>1 DEF RedisTypeOK, Stage
    <3>3. stage[e] = "calling" /\ effects' = effects
      BY <2>2, <2>6 DEF FailoverInstanceFails, Stage
    <3>. QED
      BY <2>0, <3>1, <3>2, <3>3, StageOfOther DEF RedisAttack!Fail
  <2>7. CASE \/ UNCHANGED redisVars
             \/ \E e \in Execs : Damage(e)
             \/ \E i \in Instances : OperationDone(i)
    BY <2>1, <2>7 DEF redisVars, Damage, OperationDone
  <2>. QED
    BY <2>3, <2>4, <2>5, <2>6, <2>7 DEF RedisNext
<1>. QED
  BY AlwaysRedisInv, <1>1, <1>2, PTL DEF RedisSpec, RedisPromise, RedisAttack!Spec

===============================================================================
