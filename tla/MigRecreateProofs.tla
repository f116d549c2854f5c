--------------------------- MODULE MigRecreateProofs ---------------------------
(***************************************************************************)
(* What the sampling arithmetic, which the node pool attack shares,        *)
(* guarantees for every group size and every percentage; and what holds of *)
(* MigRecreate for every set of instances, groups and executions, and      *)
(* every bound on faults and churn.                                        *)
(***************************************************************************)

EXTENDS MigRecreate, FiniteSetTheorems, TLAPS

-------------------------------------------------------------------------------
(* Sampling                                                                  *)

\* Integer division by 100, as the one fact the proofs need of it.
LEMMA Floor ==
  ASSUME NEW k \in Nat
  PROVE  /\ k \div 100 \in Nat
         /\ 100 * (k \div 100) <= k /\ k < 100 * (k \div 100) + 100
OBVIOUS

\* n * pct for a percentage, without leaving linear arithmetic.
LEMMA Product ==
  ASSUME NEW n \in Nat, NEW pct \in Nat, NEW m \in Nat, pct <= m
  PROVE  n * pct \in Nat /\ n * pct <= n * m
<1>1. n * pct \in Nat /\ n * m \in Nat
  OBVIOUS
<1>2. PICK d \in Nat : m = pct + d
  <2>1. m - pct \in Nat /\ m = pct + (m - pct)
    OBVIOUS
  <2> QED BY <2>1
<1>3. n * m = n * pct + n * d /\ n * d \in Nat
  BY <1>2
<1> QED BY <1>1, <1>3

\* Prepare never draws nobody and never draws more than there are.
THEOREM SampleInRange ==
  ASSUME NEW n \in Nat \ {0}, NEW pct \in 1..100
  PROVE  SampleSize(n, pct) \in 1..n
<1>1. n * pct \in Nat
  BY Product
<1>2. (n * pct) \div 100 \in Nat
  BY <1>1, Floor
<1> QED BY <1>2 DEF SampleSize

\* "Floor so that the sample never exceeds the requested percentage": true of
\* every sample but the single instance the clamp insists on.
THEOREM NoMoreThanRequested ==
  ASSUME NEW n \in Nat \ {0}, NEW pct \in 1..100, SampleSize(n, pct) # 1
  PROVE  100 * SampleSize(n, pct) <= n * pct
<1>1. n * pct \in Nat
  BY Product
<1>2. /\ (n * pct) \div 100 \in Nat
      /\ 100 * ((n * pct) \div 100) <= n * pct
  BY <1>1, Floor
<1>3. SampleSize(n, pct) <= (n * pct) \div 100 /\ SampleSize(n, pct) \in Nat
  BY <1>2 DEF SampleSize
<1> QED BY <1>1, <1>2, <1>3

\* Only a group of one running instance can trip the second gate: from two
\* instances on, half of the group or less is half or less after the clamp too.
THEOREM SecondGateIsForSingletons ==
  ASSUME NEW n \in Nat, n >= 2, NEW pct \in 1..50
  PROVE  EffectAllowed(n, pct, FALSE)
<1>1. n * pct \in Nat /\ n * pct <= n * 50
  BY Product
<1>2. /\ (n * pct) \div 100 \in Nat
      /\ 100 * ((n * pct) \div 100) <= n * pct
  BY <1>1, Floor
<1>3. 2 * ((n * pct) \div 100) <= n
  BY <1>1, <1>2
<1> QED BY <1>2, <1>3 DEF EffectAllowed, SampleSize

\* Without confirmation an accepted sample is a nonempty minority or half.
THEOREM UnconfirmedIsAtMostHalf ==
  ASSUME NEW n \in Nat, NEW pct \in Int, Accepted(n, pct, FALSE)
  PROVE  SampleSize(n, pct) \in 1..n /\ 2 * SampleSize(n, pct) <= n /\ pct <= 50
<1>1. pct \in 1..100 /\ n \in Nat \ {0}
  BY DEF Accepted, ValidPercentage
<1> QED BY <1>1, SampleInRange DEF Accepted, RequestAllowed, EffectAllowed

-------------------------------------------------------------------------------
(* MigRecreate                                                               *)

USE MigAssumption, InstancesAssumption, ParameterAssumption

\* A sample is drawn from what was listed, which is the target group; hits stay
\* in the sample, and there are none before Prepare.
SampleInv ==
  \A e \in Execs :
    /\ Hits(e) \subseteq sample[e]
    /\ sample[e] \subseteq listed[e]
    /\ \A i \in listed[e] : MigOf[i] = Target[e]
    /\ ~confirm[e] => 2 * Cardinality(sample[e]) <= Cardinality(listed[e])
    /\ phase[e] \in {"new", "failed"} => Hits(e) = {}
    /\ phase[e] = "ok" => sample[e] # {} /\ Hits(e) = sample[e]

Inv == TypeOK /\ SampleInv

\* At first nothing is sampled.
LEMMA InvInit == Init => Inv
<1> SUFFICES ASSUME Init PROVE Inv
  OBVIOUS
<1>1. TypeOK
  BY DEF Init, TypeOK, Statuses
<1>2. Cardinality({}) = 0
  BY FS_EmptySet
<1> QED BY <1>1, <1>2 DEF Init, Inv, SampleInv, Hits

\* The effect of RecreateInstances: the hits of e become its whole sample.
LEMMA RecreateHits ==
  ASSUME Inv, NEW e \in Execs, sample[e] # {}, Recreate(e)
  PROVE  /\ status' \in [Instances -> Statuses]
         /\ hit' \in [Execs -> [Instances -> Nat]]
         /\ Hits(e)' = sample[e]
         /\ \A d \in Execs \ {e} : Hits(d)' = Hits(d)
<1>1. hit \in [Execs -> [Instances -> Nat]] /\ sample[e] \subseteq Instances
  BY DEF Inv, TypeOK
<1>2. status' \in [Instances -> Statuses]
  BY DEF Recreate, Inv, TypeOK, Statuses
<1>3. /\ hit' \in [Execs -> [Instances -> Nat]]
      /\ \A i \in Instances :
           hit'[e][i] = IF i \in sample[e] THEN hit[e][i] + 1 ELSE hit[e][i]
      /\ \A d \in Execs \ {e} : hit'[d] = hit[d]
  BY <1>1 DEF Recreate
<1>4. \A i \in Instances : hit[e][i] > 0 => i \in sample[e]
  BY DEF Inv, SampleInv, Hits
<1>5. Hits(e)' = sample[e]
  BY <1>1, <1>3, <1>4 DEF Hits
<1> QED BY <1>2, <1>3, <1>5 DEF Hits

\* Each step keeps what the sample promises.
LEMMA InvNext == Inv /\ [Next]_vars => Inv'
<1> SUFFICES ASSUME Inv, [Next]_vars PROVE Inv'
  OBVIOUS
<1>0. TypeOK /\ SampleInv
  BY DEF Inv
<1>1. ASSUME NEW e \in Execs, Prepare(e) PROVE Inv'
  <2> DEFINE running == ListRunning(Target[e])
             n == Cardinality(running)
  <2>1. PICK pct \in Percentages, confirmHigh \in BOOLEAN, chosen \in SUBSET running :
          /\ Accepted(n, pct, confirmHigh)
          /\ Cardinality(chosen) = SampleSize(n, pct)
          /\ sample' = [sample EXCEPT ![e] = chosen]
          /\ listed' = [listed EXCEPT ![e] = running]
          /\ confirm' = [confirm EXCEPT ![e] = confirmHigh]
    BY <1>1 DEF Prepare
  <2>2. running \subseteq Instances /\ \A i \in running : MigOf[i] = Target[e]
    BY DEF ListRunning
  <2>3. ~confirmHigh => 2 * Cardinality(chosen) <= Cardinality(running)
    BY <2>1 DEF Accepted, EffectAllowed
  <2> HIDE DEF running, n
  <2>4. phase[e] = "new" /\ phase' = [phase EXCEPT ![e] = "prepared"]
    BY <1>1 DEF Prepare
  <2>5. UNCHANGED <<status, hit, faults, churn>>
    BY <1>1 DEF Prepare
  <2>6. TypeOK'
    BY <1>0, <2>1, <2>2, <2>4, <2>5 DEF TypeOK
  <2>7. \A d \in Execs : Hits(d)' = Hits(d)
    BY <2>5 DEF Hits
  <2>8. SampleInv'
    BY <1>0, <2>1, <2>2, <2>3, <2>4, <2>7 DEF SampleInv, TypeOK
  <2> QED BY <2>6, <2>8 DEF Inv
<1>2. ASSUME NEW e \in Execs, PrepareFails(e) PROVE Inv'
  BY <1>0, <1>2 DEF PrepareFails, Fault, Inv, TypeOK, SampleInv, Hits
<1>3. ASSUME NEW e \in Execs, Start(e) PROVE Inv'
  <2>1. sample[e] # {} /\ Recreate(e) /\ phase' = [phase EXCEPT ![e] = "ok"]
    BY <1>3 DEF Start, MayStart
  <2>2. TypeOK'
    BY <1>0, <1>3, <2>1, RecreateHits DEF Start, TypeOK, Inv, Statuses
  <2>3. SampleInv'
    BY <1>0, <1>3, <2>1, RecreateHits DEF Start, TypeOK, Inv, SampleInv
  <2> QED BY <2>2, <2>3 DEF Inv
<1>4. ASSUME NEW e \in Execs, StartAnswerLost(e) PROVE Inv'
  <2>1. sample[e] # {} /\ Recreate(e) /\ phase' = [phase EXCEPT ![e] = "err"]
    BY <1>4 DEF StartAnswerLost, MayStart
  <2>2. TypeOK'
    BY <1>0, <1>4, <2>1, RecreateHits DEF StartAnswerLost, Fault, TypeOK, Inv, Statuses
  <2>3. SampleInv'
    BY <1>0, <1>4, <2>1, RecreateHits DEF StartAnswerLost, TypeOK, Inv, SampleInv
  <2> QED BY <2>2, <2>3 DEF Inv
<1>5. ASSUME NEW e \in Execs, StartFails(e) PROVE Inv'
  BY <1>0, <1>5 DEF StartFails, Fault, Inv, TypeOK, SampleInv, Hits
<1>6. ASSUME NEW i \in Instances, Recreated(i) \/ Churn(i) PROVE Inv'
  <2>1. UNCHANGED <<phase, sample, listed, confirm, hit, faults>>
    BY <1>6 DEF Recreated, Churn
  <2>2. status' \in [Instances -> Statuses] /\ churn' \in 0..MaxChurn
    BY <1>0, <1>6 DEF Recreated, Churn, TypeOK, Statuses
  <2>3. TypeOK'
    BY <1>0, <2>1, <2>2 DEF TypeOK
  <2>4. SampleInv'
    BY <1>0, <2>1 DEF SampleInv, Hits
  <2> QED BY <2>3, <2>4 DEF Inv
<1>7. CASE UNCHANGED vars
  BY <1>0, <1>7 DEF vars, Inv, TypeOK, SampleInv, Hits
<1> QED BY <1>1, <1>2, <1>3, <1>4, <1>5, <1>6, <1>7 DEF Next

\* Hence always.
LEMMA Invariant == Spec => []Inv
BY InvInit, InvNext, PTL DEF Spec

\* Every variable keeps its type.
THEOREM TypeCorrect == Spec => []TypeOK
<1>1. Inv => TypeOK
  BY DEF Inv
<1> QED BY Invariant, <1>1, PTL

\* BlastRadius: for a group of any size, repeated Starts and any churn included.
THEOREM BlastRadiusHolds == Spec => []BlastRadius
<1>1. Inv => BlastRadius
  <2> SUFFICES ASSUME Inv, NEW e \in Execs
               PROVE  /\ Hits(e) \subseteq listed[e]
                      /\ \A i \in Hits(e) : MigOf[i] = Target[e]
                      /\ ~confirm[e] => 2 * Cardinality(Hits(e)) <= Cardinality(listed[e])
    BY DEF BlastRadius
  <2>1. /\ Hits(e) \subseteq sample[e] /\ sample[e] \subseteq listed[e]
        /\ listed[e] \subseteq Instances
        /\ \A i \in listed[e] : MigOf[i] = Target[e]
        /\ ~confirm[e] => 2 * Cardinality(sample[e]) <= Cardinality(listed[e])
    BY DEF Inv, TypeOK, SampleInv
  <2>2. IsFiniteSet(listed[e]) /\ IsFiniteSet(sample[e])
    BY <2>1, FS_Subset
  <2>3. /\ Cardinality(Hits(e)) <= Cardinality(sample[e])
        /\ Cardinality(Hits(e)) \in Nat /\ Cardinality(sample[e]) \in Nat
        /\ Cardinality(listed[e]) \in Nat
    BY <2>1, <2>2, FS_Subset, FS_CardinalityType
  <2> QED BY <2>1, <2>3
<1> QED BY Invariant, <1>1, PTL

\* SuccessIsComplete: a Start that reports success recreated its whole sample,
\* and the sample was not empty.
THEOREM SuccessIsCompleteHolds == Spec => []SuccessIsComplete
<1>1. Inv => SuccessIsComplete
  BY DEF Inv, SampleInv, SuccessIsComplete
<1> QED BY Invariant, <1>1, PTL

===============================================================================
