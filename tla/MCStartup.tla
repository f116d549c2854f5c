------------------------------- MODULE MCStartup -------------------------------
(* Project ids with a blank to trim, one blank id, and two projects; modules   *)
(* with and without an attack.                                                 *)
EXTENDS Startup, TLC

MCTrim == ("a" :> "a") @@ (" a" :> "a") @@ ("b" :> "b") @@ (" " :> "") @@ ("" :> "")
MCEnablings == {{}, {"CloudNat", "PersistentDisk"}}

===============================================================================
