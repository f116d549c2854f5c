-------------------------- MODULE MCNodePoolRecreate --------------------------
(* A pool over two zonal groups of two nodes and one node, and a URL that is   *)
(* not a zonal group's.                                                        *)
EXTENDS NodePoolRecreate, TLC

CONSTANTS a, b, c, x, g1, g2, odd

MCGroupOf == (a :> g1) @@ (b :> g1) @@ (c :> g2) @@ (x :> odd)
Symmetric == Permutations({a, b}) \cup Permutations(Execs)

===============================================================================
