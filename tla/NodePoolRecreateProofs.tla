------------------------ MODULE NodePoolRecreateProofs ------------------------
(***************************************************************************)
(* What holds of NodePoolRecreate for every node pool, set of executions   *)
(* and bound on faults and churn.                                          *)
(***************************************************************************)

EXTENDS NodePoolRecreate, FiniteSetTheorems, TLAPS

USE GroupAssumption, InstancesAssumption, ParameterAssumption

\* The sample is drawn from zonal groups' nodes Prepare had listed, and there
\* is none before Draw.
SampleInv ==
  \A e \in Execs :
    /\ sample[e] \subseteq listed[e]
    /\ \A i \in listed[e] : GroupOf[i] \in ZonalGroups
    /\ ~confirm[e] => 2 * Cardinality(sample[e]) <= Cardinality(listed[e])
    /\ phase[e] \in {"new", "listing", "failed"} => sample[e] = {}
    /\ phase[e] = "new" => listed[e] = {}

\* A running Start has reached the sampled nodes of every group it has no longer
\* to call, and has not yet touched those of the others in this call.
ProgressInv ==
  \A e \in Execs :
    /\ Hits(e) \subseteq sample[e]
    /\ phase[e] \in {"calling", "ok"} => sample[e] # {}
    /\ phase[e] = "calling" => \A i \in sample[e] :
         IF GroupOf[i] \in todo[e] THEN hit[e][i] < calls[e] ELSE hit[e][i] > 0
    /\ phase[e] = "ok" => Hits(e) = sample[e]
    /\ \A i \in Instances : hit[e][i] <= calls[e]

Inv == TypeOK /\ SampleInv /\ ProgressInv

\* At first nothing is sampled.
LEMMA InvInit == Init => Inv
<1> SUFFICES ASSUME Init PROVE Inv
  OBVIOUS
<1>1. TypeOK
  BY DEF Init, TypeOK, Phases
<1>2. Cardinality({}) = 0
  BY FS_EmptySet
<1> QED BY <1>1, <1>2 DEF Init, Inv, SampleInv, ProgressInv, Hits

\* One RecreateInstances call: the sampled nodes of the group, once each.
LEMMA RecreateEffect ==
  ASSUME TypeOK, NEW e \in Execs, NEW g \in Groups, Recreate(e, g)
  PROVE  /\ status' \in [Instances -> {"RUNNING", "RECREATING", "GONE"}]
         /\ hit' \in [Execs -> [Instances -> Nat]]
         /\ \A i \in Instances : hit'[e][i] =
              IF i \in sample[e] /\ GroupOf[i] = g THEN hit[e][i] + 1 ELSE hit[e][i]
         /\ \A d \in Execs \ {e} : hit'[d] = hit[d]
BY DEF Recreate, InstancesByMig, TypeOK

\* The call stays inside the sample, and counts at most once against this Start.
LEMMA CallInSample ==
  ASSUME TypeOK, NEW e \in Execs, NEW g \in Groups, SampleInv, ProgressInv,
         phase[e] = "calling", g \in todo[e],
         Recreate(e, g), UNCHANGED <<sample, calls>>
  PROVE  \A d \in Execs :
           /\ Hits(d)' \subseteq sample[d]
           /\ \A i \in Instances : hit'[d][i] <= calls[d]
<1>1. /\ \A i \in Instances : hit'[e][i] =
           IF i \in sample[e] /\ GroupOf[i] = g THEN hit[e][i] + 1 ELSE hit[e][i]
      /\ \A d \in Execs \ {e} : hit'[d] = hit[d]
  BY RecreateEffect
<1>2. hit \in [Execs -> [Instances -> Nat]] /\ calls \in [Execs -> Nat]
  BY DEF TypeOK
<1>3. ASSUME NEW d \in Execs \ {e}
      PROVE  Hits(d)' \subseteq sample[d] /\ \A i \in Instances : hit'[d][i] <= calls[d]
  BY <1>1, <1>3 DEF ProgressInv, Hits
<1>4. Hits(e)' \subseteq sample[e]
  BY <1>1 DEF ProgressInv, Hits
<1>5. ASSUME NEW i \in Instances PROVE hit'[e][i] <= calls[e]
  <2>1. hit[e][i] <= calls[e] /\ hit[e][i] \in Nat /\ calls[e] \in Nat
    BY <1>2 DEF ProgressInv
  <2>2. i \in sample[e] /\ GroupOf[i] = g => hit[e][i] < calls[e]
    BY DEF ProgressInv
  <2> QED BY <1>1, <2>1, <2>2
<1> QED BY <1>3, <1>4, <1>5

\* Each step keeps what the sample promises.
LEMMA InvNext == Inv /\ [Next]_vars => Inv'
<1> SUFFICES ASSUME Inv, [Next]_vars PROVE Inv'
  OBVIOUS
<1>0. TypeOK /\ SampleInv /\ ProgressInv
  BY DEF Inv
<1>20. Cardinality({}) = 0 /\ \A e \in Execs : Hits(e) \subseteq Instances
  BY FS_EmptySet DEF Hits
<1>1. ASSUME NEW e \in Execs, NEW p \in Percentages, NEW c \in BOOLEAN, BeginPrepare(e, p, c)
      PROVE  Inv'
  <2>1. sample[e] = {} /\ listed[e] = {} /\ phase' = [phase EXCEPT ![e] = "listing"]
    BY <1>0, <1>1 DEF BeginPrepare, Goto, SampleInv
  <2>2. TypeOK'
    <3>1. p \in 0..100
      BY <1>1 DEF BeginPrepare, ValidPercentage
    <3> QED BY <1>0, <1>1, <2>1, <3>1 DEF BeginPrepare, Goto, ParsesAsZonal, TypeOK, Phases
  <2>3. SampleInv'
    <3>1. UNCHANGED <<sample, listed>> /\ confirm' = [confirm EXCEPT ![e] = c]
      BY <1>1 DEF BeginPrepare
    <3>2. 2 * Cardinality(sample[e]) <= Cardinality(listed[e])
      BY <2>1, <1>20
    <3> QED BY <1>0, <2>1, <3>1, <3>2 DEF TypeOK, SampleInv
  <2>4. ProgressInv'
    BY <1>0, <1>1, <2>1 DEF BeginPrepare, TypeOK, ProgressInv, Hits
  <2> QED BY <2>2, <2>3, <2>4 DEF Inv
<1>2. ASSUME NEW e \in Execs, PrepareFails(e) PROVE Inv'
  BY <1>0, <1>2
  DEF PrepareFails, Fault, Goto, TypeOK, Phases, Inv, SampleInv, ProgressInv, Hits
<1>3. ASSUME NEW e \in Execs, NEW g \in Groups, ListGroup(e, g) PROVE Inv'
  <2>1. /\ phase[e] = "listing" /\ sample[e] = {} /\ g \in ZonalGroups
        /\ listed' = [listed EXCEPT ![e] =
             @ \cup {i \in Instances : GroupOf[i] = g /\ status[i] = "RUNNING"}]
    BY <1>0, <1>3 DEF ListGroup, SampleInv, TypeOK
  <2>2. TypeOK'
    BY <1>0, <1>3, <2>1 DEF ListGroup, TypeOK
  <2>3. IsFiniteSet(listed'[e]) /\ Cardinality(listed'[e]) \in Nat
    <3>1. listed'[e] \subseteq Instances
      BY <2>2 DEF TypeOK
    <3> QED BY <3>1, FS_Subset, FS_CardinalityType
  <2>4. SampleInv'
    <3>1. UNCHANGED <<phase, confirm, sample>>
      BY <1>3 DEF ListGroup
    <3>2. \A i \in listed'[e] : GroupOf[i] \in ZonalGroups
      BY <1>0, <2>1 DEF SampleInv, TypeOK
    <3>3. 2 * Cardinality(sample[e]) <= Cardinality(listed'[e])
      BY <1>20, <2>1, <2>3
    <3>4. \A d \in Execs \ {e} : listed'[d] = listed[d]
      BY <1>0, <2>1 DEF TypeOK
    <3> QED BY <1>0, <2>1, <3>1, <3>2, <3>3, <3>4 DEF SampleInv
  <2>5. ProgressInv'
    BY <1>0, <1>3, <2>1 DEF ListGroup, TypeOK, ProgressInv, Hits
  <2> QED BY <2>2, <2>4, <2>5 DEF Inv
<1>4. ASSUME NEW e \in Execs, ListFails(e) \/ DrawRefused(e) PROVE Inv'
  <2>1. /\ phase[e] = "listing" /\ phase' = [phase EXCEPT ![e] = "failed"]
        /\ UNCHANGED <<status, pct, confirm, listed, sample, hit, calls, churn>>
    BY <1>4 DEF ListFails, DrawRefused, Goto
  <2>2. TypeOK'
    BY <1>0, <1>4, <2>1 DEF ListFails, DrawRefused, Fault, TypeOK, Phases
  <2>3. SampleInv' /\ ProgressInv'
    BY <1>0, <1>4, <2>1 DEF ListFails, DrawRefused, SampleInv, ProgressInv, TypeOK, Hits
  <2> QED BY <2>2, <2>3 DEF Inv
<1>5. ASSUME NEW e \in Execs, Draw(e) PROVE Inv'
  <2>1. PICK chosen \in SUBSET listed[e] :
          /\ Cardinality(chosen) = SampleSize(Cardinality(listed[e]), pct[e])
          /\ sample' = [sample EXCEPT ![e] = chosen]
    BY <1>5 DEF Draw
  <2>2. ~confirm[e] => 2 * Cardinality(chosen) <= Cardinality(listed[e])
    BY <1>0, <1>5, <2>1 DEF Draw, Accepted, EffectAllowed, TypeOK
  <2>3. /\ phase[e] = "listing" /\ sample[e] = {} /\ phase' = [phase EXCEPT ![e] = "prepared"]
        /\ UNCHANGED <<status, todo, pct, confirm, listed, hit, calls, faults, churn>>
    BY <1>0, <1>5 DEF Draw, Goto, SampleInv
  <2>4. TypeOK'
    BY <1>0, <2>1, <2>3 DEF TypeOK, Phases
  <2>5. SampleInv'
    BY <1>0, <2>1, <2>2, <2>3 DEF SampleInv, TypeOK
  <2>6. ProgressInv'
    BY <1>0, <2>1, <2>3 DEF ProgressInv, TypeOK, Hits
  <2> QED BY <2>4, <2>5, <2>6 DEF Inv
<1>6. ASSUME NEW e \in Execs, BeginStart(e) PROVE Inv'
  <2>1. /\ phase[e] \in {"prepared", "err"} /\ sample[e] # {}
        /\ phase' = [phase EXCEPT ![e] = "calling"]
        /\ calls' = [calls EXCEPT ![e] = @ + 1]
        /\ todo' = [todo EXCEPT ![e] = {g \in Groups : InstancesByMig(e, g) # {}}]
        /\ UNCHANGED <<status, pct, confirm, listed, sample, hit, faults, churn>>
    BY <1>6 DEF BeginStart, Goto
  <2>2. \A i \in sample[e] : GroupOf[i] \in ZonalGroups /\ i \in Instances
    BY <1>0 DEF SampleInv, TypeOK
  <2>3. \A g \in Groups : InstancesByMig(e, g) # {} => g \in ZonalGroups
    BY <2>2 DEF InstancesByMig
  <2>4. \A i \in sample[e] : GroupOf[i] \in todo'[e]
    BY <1>0, <2>1, <2>2 DEF InstancesByMig, TypeOK
  <2>5. TypeOK'
    BY <1>0, <2>1, <2>3 DEF TypeOK, Phases
  <2>6. SampleInv'
    BY <1>0, <2>1 DEF SampleInv, TypeOK
  <2>7. ProgressInv'
    <3>1. ASSUME NEW i \in Instances PROVE hit[e][i] < calls'[e]
      BY <1>0, <2>1 DEF ProgressInv, TypeOK
    <3>2. \A d \in Execs \ {e} : calls'[d] = calls[d] /\ todo'[d] = todo[d] /\ phase'[d] = phase[d]
      BY <1>0, <2>1 DEF TypeOK
    <3>3. \A i \in Instances : hit[e][i] <= calls'[e]
      BY <1>0, <2>5, <3>1 DEF TypeOK
    <3> QED BY <1>0, <2>1, <2>2, <2>4, <3>1, <3>2, <3>3 DEF ProgressInv, Hits, TypeOK
  <2> QED BY <2>5, <2>6, <2>7 DEF Inv
<1>7. ASSUME NEW e \in Execs, NEW g \in Groups, RecreateGroup(e, g) PROVE Inv'
  <2>1. /\ phase[e] = "calling" /\ g \in todo[e] /\ Recreate(e, g)
        /\ todo' = [todo EXCEPT ![e] = @ \ {g}]
        /\ UNCHANGED <<phase, pct, confirm, listed, sample, calls, faults, churn>>
    BY <1>7 DEF RecreateGroup
  <2>2. TypeOK'
    BY <1>0, <2>1, RecreateEffect DEF TypeOK
  <2>3. SampleInv'
    BY <1>0, <2>1 DEF SampleInv
  <2>4. \A d \in Execs : Hits(d)' \subseteq sample[d]
                      /\ \A i \in Instances : hit'[d][i] <= calls[d]
    BY <1>0, <2>1, CallInSample
  <2>5. ASSUME NEW i \in sample[e]
        PROVE  IF GroupOf[i] \in todo'[e] THEN hit'[e][i] < calls[e] ELSE hit'[e][i] > 0
    <3>1. i \in Instances /\ hit[e][i] \in Nat
      BY <1>0 DEF TypeOK
    <3>2. hit'[e][i] = IF GroupOf[i] = g THEN hit[e][i] + 1 ELSE hit[e][i]
      BY <1>0, <2>1, <3>1, RecreateEffect
    <3>3. IF GroupOf[i] \in todo[e] THEN hit[e][i] < calls[e] ELSE hit[e][i] > 0
      BY <1>0, <2>1 DEF ProgressInv
    <3>4. GroupOf[i] \in todo'[e] <=> GroupOf[i] \in todo[e] /\ GroupOf[i] # g
      BY <1>0, <2>1 DEF TypeOK
    <3> QED BY <3>1, <3>2, <3>3, <3>4
  <2>6. \A d \in Execs \ {e} : hit'[d] = hit[d] /\ todo'[d] = todo[d]
    BY <1>0, <2>1, RecreateEffect DEF TypeOK
  <2>7. ProgressInv'
    BY <1>0, <2>1, <2>4, <2>5, <2>6 DEF ProgressInv, Hits
  <2> QED BY <2>2, <2>3, <2>7 DEF Inv
<1>8. ASSUME NEW e \in Execs, NEW g \in Groups, RecreateGroupFails(e, g) PROVE Inv'
  <2>1. /\ phase[e] = "calling" /\ g \in todo[e] /\ faults' \in 0..MaxFaults
        /\ Recreate(e, g) \/ UNCHANGED <<status, hit>>
        /\ todo' = [todo EXCEPT ![e] = {}] /\ phase' = [phase EXCEPT ![e] = "err"]
        /\ UNCHANGED <<pct, confirm, listed, sample, calls, churn>>
    BY <1>0, <1>8 DEF RecreateGroupFails, Goto, Fault, TypeOK
  <2>2. TypeOK'
    BY <1>0, <2>1, RecreateEffect DEF TypeOK, Phases
  <2>3. SampleInv'
    BY <1>0, <2>1 DEF SampleInv, TypeOK
  <2>4. \A d \in Execs : Hits(d)' \subseteq sample[d]
                      /\ \A i \in Instances : hit'[d][i] <= calls[d]
    <3>1. CASE Recreate(e, g)
      BY <1>0, <2>1, <3>1, CallInSample
    <3>2. CASE UNCHANGED hit
      BY <1>0, <3>2 DEF ProgressInv, Hits
    <3> QED BY <2>1, <3>1, <3>2
  <2>5. \A d \in Execs \ {e} : hit'[d] = hit[d] /\ todo'[d] = todo[d] /\ phase'[d] = phase[d]
    BY <1>0, <2>1, RecreateEffect DEF TypeOK
  <2>6. phase'[e] = "err"
    BY <1>0, <2>1 DEF TypeOK
  <2>7. ProgressInv'
    BY <1>0, <2>1, <2>4, <2>5, <2>6 DEF ProgressInv, Hits
  <2> QED BY <2>2, <2>3, <2>7 DEF Inv
<1>9. ASSUME NEW e \in Execs, StartReturns(e) PROVE Inv'
  <2>1. /\ phase[e] = "calling" /\ todo[e] = {} /\ phase' = [phase EXCEPT ![e] = "ok"]
        /\ UNCHANGED <<status, todo, pct, confirm, listed, sample, hit, calls, faults, churn>>
    BY <1>9 DEF StartReturns, Goto
  <2>2. TypeOK'
    BY <1>0, <2>1 DEF TypeOK, Phases
  <2>3. SampleInv'
    BY <1>0, <2>1 DEF SampleInv, TypeOK
  <2>4. Hits(e) = sample[e]
    <3>1. \A i \in sample[e] : hit[e][i] > 0 /\ i \in Instances
      BY <1>0, <2>1 DEF ProgressInv, TypeOK
    <3> QED BY <1>0, <3>1 DEF ProgressInv, Hits
  <2>5. ProgressInv'
    BY <1>0, <2>1, <2>4 DEF ProgressInv, Hits, TypeOK
  <2> QED BY <2>2, <2>3, <2>5 DEF Inv
<1>10. ASSUME NEW i \in Instances, Recreated(i) \/ Churn(i) PROVE Inv'
  <2>1. UNCHANGED <<phase, todo, pct, confirm, listed, sample, hit, calls, faults>>
    BY <1>10 DEF Recreated, Churn
  <2>2. /\ status' \in [Instances -> {"RUNNING", "RECREATING", "GONE"}]
        /\ churn' \in 0..MaxChurn
    <3>1. CASE Recreated(i)
      BY <1>0, <3>1 DEF Recreated, TypeOK
    <3>2. CASE Churn(i)
      <4>1. churn' \in 0..MaxChurn
        BY <1>0, <3>2, ParameterAssumption DEF Churn, TypeOK
      <4>2. status' \in [Instances -> {"RUNNING", "RECREATING", "GONE"}]
        BY <1>0, <3>2 DEF Churn, TypeOK
      <4> QED BY <4>1, <4>2
    <3> QED BY <1>10, <3>1, <3>2
  <2>3. TypeOK'
    BY <1>0, <2>1, <2>2 DEF TypeOK
  <2>4. SampleInv' /\ ProgressInv'
    BY <1>0, <2>1 DEF SampleInv, ProgressInv, Hits
  <2> QED BY <2>3, <2>4 DEF Inv
<1>11. CASE UNCHANGED vars
  BY <1>0, <1>11 DEF vars, Inv, TypeOK, SampleInv, ProgressInv, Hits
<1> QED
  BY <1>1, <1>2, <1>3, <1>4, <1>5, <1>6, <1>7, <1>8, <1>9, <1>10, <1>11 DEF Next, ExecStep

\* Hence always.
LEMMA Invariant == Spec => []Inv
BY InvInit, InvNext, PTL DEF Spec

\* Every variable keeps its type; in particular Start calls zonal groups only.
THEOREM TypeCorrect == Spec => []TypeOK
<1>1. Inv => TypeOK
  BY DEF Inv
<1> QED BY Invariant, <1>1, PTL

\* BlastRadius: for a node pool of any size, with listings that straddle changes
\* of the pool and Starts repeated after partial failures.
THEOREM BlastRadiusHolds == Spec => []BlastRadius
<1>1. Inv => BlastRadius
  <2> SUFFICES ASSUME Inv, NEW e \in Execs
               PROVE  /\ Hits(e) \subseteq sample[e] /\ sample[e] \subseteq listed[e]
                      /\ ~confirm[e] => 2 * Cardinality(Hits(e)) <= Cardinality(listed[e])
    BY DEF BlastRadius
  <2>1. /\ Hits(e) \subseteq sample[e] /\ sample[e] \subseteq listed[e]
        /\ listed[e] \subseteq Instances
        /\ ~confirm[e] => 2 * Cardinality(sample[e]) <= Cardinality(listed[e])
    BY DEF Inv, TypeOK, SampleInv, ProgressInv
  <2>2. IsFiniteSet(listed[e]) /\ IsFiniteSet(sample[e])
    BY <2>1, FS_Subset
  <2>3. /\ Cardinality(Hits(e)) <= Cardinality(sample[e])
        /\ Cardinality(Hits(e)) \in Nat /\ Cardinality(sample[e]) \in Nat
        /\ Cardinality(listed[e]) \in Nat
    BY <2>1, <2>2, FS_Subset, FS_CardinalityType
  <2> QED BY <2>1, <2>3
<1> QED BY Invariant, <1>1, PTL

\* SuccessIsComplete: whatever earlier attempts left undone, a Start that
\* reports success has reached the whole sample.
THEOREM SuccessIsCompleteHolds == Spec => []SuccessIsComplete
<1>1. Inv => SuccessIsComplete
  BY DEF Inv, ProgressInv, SuccessIsComplete
<1> QED BY Invariant, <1>1, PTL

\* OncePerCall: no Start call recreates a node twice.
THEOREM OncePerCallHolds == Spec => []OncePerCall
<1>1. Inv => OncePerCall
  BY DEF Inv, ProgressInv, OncePerCall
<1> QED BY Invariant, <1>1, PTL

===============================================================================
