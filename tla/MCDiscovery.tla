------------------------------ MODULE MCDiscovery ------------------------------
(* Every subset of three projects is a configuration: p has two parts, q one,  *)
(* and r's listing is empty.  The thread counts: invalid, and two, which is    *)
(* more or fewer than the projects or as many.                                 *)
EXTENDS Discovery, TLC

CONSTANTS p, q, r, s, t, a, b, c

Threads == {-1, 2}
MCPartsOf == (p :> {s, t}) @@ (q :> {s}) @@ (r :> {})
MCPartOf == (a :> <<p, s>>) @@ (b :> <<p, t>>) @@ (c :> <<q, s>>)

===============================================================================
