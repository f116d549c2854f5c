--------------------------- MODULE MCCloudSqlFailover ---------------------------
(* Two executions on one instance, two Start calls each.                       *)
EXTENDS CloudSqlFailover, TLC

CONSTANTS e1, e2

Symmetric == Permutations({e1, e2})

===============================================================================
