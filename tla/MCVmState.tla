------------------------------- MODULE MCVmState -------------------------------
(* One name in two zones, three VMs to come and go.                            *)
EXTENDS VmState, TLC

CONSTANTS v1, v2, v3, e1, e2

TwoZones == {<<"p", "z1", "vm">>, <<"p", "z2", "vm">>}
Symmetric == Permutations({v1, v2, v3}) \cup Permutations({e1, e2})

===============================================================================
