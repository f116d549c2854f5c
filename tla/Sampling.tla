------------------------------- MODULE Sampling -------------------------------
(***************************************************************************)
(* How many instances the two recreate attacks take, and when they refuse. *)
(* The same lines stand in extmig/mig_attack_delete_instances.go and in    *)
(* extgke/nodepool_attack_terminate_instances.go.                          *)
(*                                                                         *)
(* math.Floor(float64(n) * float64(pct) / 100.0) is integer division here: *)
(* n * pct is exact in a float64 far beyond any group size, the quotient   *)
(* is rounded correctly, and a quotient that is not an integer is at least *)
(* 1/100 away from the next one.                                           *)
(***************************************************************************)

EXTENDS Integers

\* The percentages Prepare lets through.
ValidPercentage(pct) == pct >= 1 /\ pct <= 100

\* First gate: the percentage as requested.
RequestAllowed(pct, confirmHigh) == pct <= 50 \/ confirmHigh

\* Floor, but at least one and at most all.
SampleSize(n, pct) ==
  LET floor == (n * pct) \div 100
  IN  IF floor < 1 THEN 1 ELSE IF floor > n THEN n ELSE floor

\* A mistake: the share of the sample is not looked at again.
EffectUngated(n, pct, confirmHigh) == TRUE

\* Second gate: the share the sample really is of n instances.
EffectAllowed(n, pct, confirmHigh) == 2 * SampleSize(n, pct) <= n \/ confirmHigh

\* Prepare goes through for n running instances.
Accepted(n, pct, confirmHigh) ==
  /\ ValidPercentage(pct)
  /\ RequestAllowed(pct, confirmHigh)
  /\ n > 0
  /\ EffectAllowed(n, pct, confirmHigh)

===============================================================================
