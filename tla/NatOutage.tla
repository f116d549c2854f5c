------------------------------ MODULE NatOutage ------------------------------
(***************************************************************************)
(* What the "Suspend Cloud NAT" attack promises, with no Get, no Patch and *)
(* no retry in sight.  A router's NATs are what the operators configured,  *)
(* except that a NAT under attack may be out.  An attack execution takes   *)
(* out its own target only, brings it back as it was, and once it has      *)
(* ended its target is back, or else is one of those the service failed to *)
(* bring back.  Operators keep editing the other NATs of the router        *)
(* meanwhile, and none of their edits is lost.                             *)
(***************************************************************************)

EXTENDS Sequences

CONSTANTS
  Nats,      \* names of the Cloud NATs of one router
  Configs,   \* what a NAT entry holds besides its name
  Execs,     \* attack executions
  Target     \* the NAT each execution attacks

VARIABLES
  intended,  \* the NAT entries, by name, as the operators configured them
  held,      \* executions that may still take their NAT out or bring it back
  out,       \* NATs that are missing from the router because of an attack
  lost       \* NATs that nobody is going to bring back, the service having failed to

vars == <<intended, held, out, lost>>

\* The entries a router can hold under one name: none or one.
Entry == {<<>>} \cup {<<c>> : c \in Configs}

Init ==
  /\ intended \in [Nats -> Entry]
  /\ held = {}
  /\ out = {}
  /\ lost = {}

Begin(e) ==
  /\ e \notin held
  /\ intended[Target[e]] # <<>>
  /\ held' = held \cup {e}
  /\ UNCHANGED <<intended, out, lost>>

TakeOut(e) ==
  /\ e \in held
  /\ out' = out \cup {Target[e]}
  /\ UNCHANGED <<intended, held, lost>>

Back(n) == out' = out \ {n} /\ lost' = lost \ {n}

BringBack(e) ==
  /\ e \in held
  /\ Back(Target[e])
  /\ UNCHANGED <<intended, held>>

End(e) ==
  /\ e \in held
  /\ held' = held \ {e}
  /\ Back(Target[e])
  /\ UNCHANGED intended

\* The execution ends and the service does not bring its NAT back.
Lose(e) ==
  /\ e \in held
  /\ held' = held \ {e}
  /\ Target[e] \in out
  /\ lost' = lost \cup {Target[e]}
  /\ UNCHANGED <<intended, out>>

\* Operators change a NAT, or put back one that was lost.
Edit(n) ==
  /\ \A e \in held : Target[e] # n
  /\ \E entry \in Entry : intended' = [intended EXCEPT ![n] = entry]
  /\ Back(n)
  /\ UNCHANGED held

Next ==
  \/ \E e \in Execs : Begin(e) \/ TakeOut(e) \/ BringBack(e) \/ End(e) \/ Lose(e)
  \/ \E n \in Nats : Edit(n)

Spec == Init /\ [][Next]_vars

=============================================================================
