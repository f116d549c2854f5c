----------------------------- MODULE MCMigRecreate -----------------------------
(* A zonal and a regional group of the same name: three instances and one, so  *)
(* that the clamp to one instance and the second gate both decide something.   *)
EXTENDS MigRecreate, TLC

CONSTANTS a, b, c, z, e1, e2

Zonal == <<"zonal", "m">>
Regional == <<"regional", "m">>
MCMigs == {Zonal, Regional}
MCMigOf == (a :> Zonal) @@ (b :> Zonal) @@ (c :> Zonal) @@ (z :> Regional)
OneEach == (e1 :> Zonal) @@ (e2 :> Regional)
Symmetric == Permutations({a, b, c})

===============================================================================
