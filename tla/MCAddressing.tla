----------------------------- MODULE MCAddressing -----------------------------
(* Zones and regions named as in the services, and a project and a resource   *)
(* whose names are words that also occur in paths.                            *)
EXTENDS Addressing

MCSegments ==
  [x \in {"us-east1", "us-east1-a", "us-east4", "us-east4-a"} |->
     CASE x = "us-east1" -> <<"us", "east1">>
       [] x = "us-east4" -> <<"us", "east4">>
       [] x = "us-east1-a" -> <<"us", "east1", "a">>
       [] x = "us-east4-a" -> <<"us", "east4", "a">>]

MCRegionOf ==
  [z \in {"us-east1-a", "us-east4-a"} |-> IF z = "us-east1-a" THEN "us-east1" ELSE "us-east4"]

===============================================================================
