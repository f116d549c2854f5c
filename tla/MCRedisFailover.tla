---------------------------- MODULE MCRedisFailover ----------------------------
(* Two executions on one instance, which the service runs one at a time.       *)
EXTENDS RedisFailover, TLC

CONSTANTS e1, e2, i1

SameInstance == (e1 :> i1) @@ (e2 :> i1)
Symmetric == Permutations({e1, e2})

===============================================================================
