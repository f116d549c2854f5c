------------------------------ MODULE MCCloudNat ------------------------------
(* Constants of the TLC runs of CloudNat: two NATs on one router, two          *)
(* executions, attacking the same NAT or different ones.                       *)
EXTENDS CloudNat, TLC

CONSTANTS n1, n2, e1, e2, c1, c2

OnSiblings == (e1 :> n1) @@ (e2 :> n2)
OnSameNat == (e1 :> n1) @@ (e2 :> n1)

=============================================================================
