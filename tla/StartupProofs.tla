----------------------------- MODULE StartupProofs -----------------------------
(***************************************************************************)
(* Proofs about Startup, for every configuration.                          *)
(*                                                                         *)
(* First what the order of main.go guarantees: that readiness means        *)
(* completeness, that the goroutines reading the projects map without a    *)
(* lock never see it change, and that a signal finds its handlers before   *)
(* the agent finds an attack.  All three follow from one picture of which  *)
(* part of the state is complete at which step of main (IInv).             *)
(*                                                                         *)
(* Then what becomes of the configured ids.  trimAndFilter is a loop over  *)
(* any number of values, so that what it returns takes an induction: UpTo, *)
(* which has a set in the place of a property.  With it, each step of      *)
(* InitializeGcpAccess keeps the resolved projects partitioned into usable *)
(* ones, skipped ones and those still to be looked at (AccessInv).         *)
(***************************************************************************)

EXTENDS Startup, FiniteSetTheorems, SequenceTheorems, WellFoundedInduction, TLAPS

Collecting == {"parse", "validate", "access"}
HasAccess == {"register", "signals", "ready", "listen", "listening"}
HasModules == {"signals", "ready", "listen", "listening"}
HasHandlers == {"ready", "listen", "listening"}
IsReady == {"listen", "listening"}

\* Until the projects are collected nothing reads them.
NobodyReads == pc \in Collecting => discoveries = {} /\ seen = {}

\* What each step of main finds done.
InOrder ==
  /\ pc \in HasAccess => projects # {} /\ todo = <<>>
  /\ pc \in HasModules => discoveries = Wanted
  /\ pc \in HasHandlers => handlers
  /\ ready => pc \in IsReady
  /\ attacking => pc = "listening"

AttacksOfDiscoveries == actions = discoveries \cap WithAttack

IInv ==
  /\ pc \in Steps
  /\ handlers \in BOOLEAN /\ ready \in BOOLEAN /\ attacking \in BOOLEAN
  /\ NobodyReads
  /\ InOrder
  /\ AttacksOfDiscoveries
  /\ RefreshesSeeAll

\* At first nothing is done.
LEMMA InitIInv == Init => IInv
BY DEF Init, IInv, Steps, NobodyReads, InOrder, AttacksOfDiscoveries, RefreshesSeeAll,
       Collecting, HasAccess, HasModules, HasHandlers, IsReady

\* The steps of main up to registration leave what nobody reads yet alone.
LEMMA CollectingKeeps ==
  ASSUME IInv,
         ParseConfiguration \/ ParseFails \/ ValidateConfiguration \/ BuildAccess \/ AccessDone
  PROVE  IInv'
<1>1. /\ pc \in Collecting /\ pc' \in Collecting \cup {"register", "dead"}
      /\ pc' = "register" => projects' # {} /\ todo' = <<>>
      /\ UNCHANGED <<discoveries, actions, seen, handlers, ready, attacking>>
  BY DEF ParseConfiguration, ParseFails, ValidateConfiguration, BuildAccess, AccessDone, Collecting
<1>2. discoveries = {} /\ seen = {} /\ ~ready /\ ~attacking
  BY <1>1 DEF IInv, NobodyReads, InOrder, Collecting, IsReady
<1>. QED
  BY <1>1, <1>2 DEF IInv, Steps, NobodyReads, InOrder, AttacksOfDiscoveries, RefreshesSeeAll,
     Collecting, HasAccess, HasModules, HasHandlers, IsReady

\* A module is registered with its attack, if it has one.
LEMMA RegisterKeeps ==
  ASSUME IInv, NEW n, Register(n) PROVE IInv'
<1>1. pc = "register" /\ pc' = pc
  BY DEF Register, MayRegister
<1>2. AttacksOfDiscoveries'
  <2>1. actions' = actions \cup ({n} \cap WithAttack) /\ discoveries' = discoveries \cup {n}
    BY DEF Register
  <2>. QED
    BY <2>1 DEF IInv, AttacksOfDiscoveries
<1>. QED
  BY <1>1, <1>2 DEF Register, IInv, Steps, NobodyReads, InOrder, RefreshesSeeAll,
     Collecting, HasAccess, HasModules, HasHandlers, IsReady

\* Each later step of main adds the one thing the next relies on.
LEMMA ServingKeeps ==
  ASSUME IInv, Registered \/ ActivateSignalHandlers \/ SetReady \/ Listen
  PROVE  IInv'
<1>. USE DEF IInv, Steps, NobodyReads, InOrder, AttacksOfDiscoveries, RefreshesSeeAll, Wanted,
             Collecting, HasAccess, HasModules, HasHandlers, IsReady
<1>1. CASE Registered
  BY <1>1 DEF Registered
<1>2. CASE ActivateSignalHandlers
  BY <1>2 DEF ActivateSignalHandlers
<1>3. CASE SetReady
  BY <1>3 DEF SetReady
<1>4. CASE Listen
  BY <1>4 DEF Listen
<1>. QED
  BY <1>1, <1>2, <1>3, <1>4

\* A refresh finds the complete projects, as the others did.
LEMMA RefreshKeeps ==
  ASSUME IInv, NEW n, Refresh(n) PROVE IInv'
<1>1. pc \in HasAccess
  BY DEF Refresh, IInv, Steps, NobodyReads, Collecting, HasAccess
<1>2. RefreshesSeeAll'
  <2>1. projects # {}
    BY <1>1 DEF IInv, InOrder
  <2>2. projects' = projects /\ seen' = seen \cup {<<n, projects>>}
    BY DEF Refresh
  <2>3. \A s \in seen : s[2] = projects /\ s[2] # {}
    BY DEF IInv, RefreshesSeeAll
  <2>. QED
    BY <2>1, <2>2, <2>3 DEF RefreshesSeeAll
<1>3. NobodyReads'
  BY <1>1 DEF Refresh, NobodyReads, Collecting, HasAccess
<1>. QED
  BY <1>2, <1>3 DEF Refresh, IInv, InOrder, Wanted, AttacksOfDiscoveries

\* An attack needs a listening extension, and a signal ends it.
LEMMA OthersKeep ==
  ASSUME IInv, Attack \/ Signal PROVE IInv'
<1>. USE DEF IInv, Steps, NobodyReads, InOrder, AttacksOfDiscoveries, RefreshesSeeAll, Wanted,
             Collecting, HasAccess, HasModules, HasHandlers, IsReady
<1>1. CASE Attack
  BY <1>1 DEF Attack
<1>2. CASE Signal
  <2>1. ~attacking'
    BY <1>2 DEF Signal
  <2>. QED
    BY <1>2, <2>1 DEF Signal
<1>. QED
  BY <1>1, <1>2

\* Together.
LEMMA NextKeeps ==
  ASSUME IInv, [Next]_vars PROVE IInv'
<1>1. CASE UNCHANGED vars
  BY <1>1 DEF vars, IInv, NobodyReads, InOrder, AttacksOfDiscoveries, RefreshesSeeAll, Wanted
<1>2. CASE Main
  BY <1>2, CollectingKeeps, RegisterKeeps, ServingKeeps DEF Main
<1>3. CASE \E n \in Wanted : Refresh(n)
  BY <1>3, RefreshKeeps
<1>4. CASE Attack \/ Signal
  BY <1>4, OthersKeep
<1>. QED
  BY <1>1, <1>2, <1>3, <1>4 DEF Next

\* Hence always.
LEMMA AlwaysIInv == Spec => []IInv
<1>. QED
  BY InitIInv, NextKeeps, PTL DEF Spec

\* Once the readiness probe says yes, the projects, the modules, their attacks and
\* the signal handlers are all in place: the order of the calls in main.
THEOREM ReadyIsCompleteHolds == Spec => []ReadyIsComplete
<1>1. IInv => ReadyIsComplete
  BY DEF IInv, InOrder, AttacksOfDiscoveries, ReadyIsComplete,
         HasAccess, HasModules, HasHandlers, IsReady
<1>. QED
  BY <1>1, AlwaysIInv, PTL

\* The background refreshes read utils.projects without a lock, and all of them
\* read the same, complete and non-empty map.
THEOREM RefreshesSeeAllHolds == Spec => []RefreshesSeeAll
<1>1. IInv => RefreshesSeeAll
  BY DEF IInv
<1>. QED
  BY <1>1, AlwaysIInv, PTL

\* A signal stops the attack that runs: the handlers are installed before the
\* agent can reach the extension.
THEOREM SignalStopsAttacksHolds == Spec => []SignalStopsAttacks
<1>1. IInv => SignalStopsAttacks
  BY DEF IInv, InOrder, SignalStopsAttacks
<1>. QED
  BY <1>1, AlwaysIInv, PTL

-------------------------------------------------------------------------------
(* trimAndFilter                                                             *)

\* A set of numbers has a least one.
LEMMA LeastNumber ==
  ASSUME NEW T \in SUBSET Nat, T # {} PROVE \E n \in T : \A m \in T : n <= m
<1>. DEFINE R == OpToRel(<, Nat)
<1>1. IsWellFoundedOn(R, Nat)
  BY NatLessThanWellFounded
<1>2. \A x, y \in Nat : <<x, y>> \in R <=> x < y
  BY DEF OpToRel
<1>. HIDE DEF R
<1>3. \E x \in T : \A y \in T : ~ (<<y, x>> \in R)
  BY <1>1, WFMin
<1>4. PICK x \in T : \A y \in T : <<y, x>> \notin R
  BY <1>3
<1>5. ASSUME NEW y \in T PROVE x <= y
  <2>1. x \in Nat /\ y \in Nat
    OBVIOUS
  <2>2. ~(y < x)
    BY <1>2, <1>4, <2>1
  <2>. QED
    BY <2>1, <2>2
<1>. QED
  BY <1>5

\* Induction over an initial part of the numbers, for a set in the place of a property.
LEMMA UpTo ==
  ASSUME NEW n \in Nat, NEW P, 0 \in P, \A k \in 1..n : k - 1 \in P => k \in P
  PROVE  0..n \subseteq P
<1>. SUFFICES ASSUME (0..n) \ P # {} PROVE FALSE
  OBVIOUS
<1>1. (0..n) \ P \in SUBSET Nat
  OBVIOUS
<1>2. PICK k \in (0..n) \ P : \A m \in (0..n) \ P : k <= m
  BY <1>1, LeastNumber
<1>3. k \in 1..n /\ k - 1 \in 0..n /\ ~(k <= k - 1)
  BY <1>2
<1>. QED
  BY <1>2, <1>3

\* What the loop of trimAndFilter has collected after each of its n iterations.
Collects(f, values, n) ==
  /\ f = [k \in 0..n |-> f[k]]
  /\ f[0] = <<>>
  /\ \A k \in 1..n : f[k] = Trimmed(f[k - 1], values[k])

\* There is such a function for any number of iterations, and it is the loop's.
LEMMA CollectedExists ==
  ASSUME NEW values, Len(values) \in Nat
  PROVE  \E f : Collects(f, values, Len(values))
<1>. DEFINE P == {n \in Nat : \E f : Collects(f, values, n)}
<1>1. 0 \in P
  <2>1. Collects([k \in 0..0 |-> <<>>], values, 0)
    BY DEF Collects
  <2>. QED
    BY <2>1
<1>2. ASSUME NEW k \in 1..Len(values), k - 1 \in P PROVE k \in P
  <2>1. PICK f : Collects(f, values, k - 1)
    BY <1>2
  <2>. DEFINE g == [j \in 0..k |-> IF j = k THEN Trimmed(f[k - 1], values[k]) ELSE f[j]]
  <2>2. k \in Nat /\ k > 0 /\ k - 1 \in 0..k - 1
    OBVIOUS
  <2>3. g[0] = <<>> /\ g = [j \in 0..k |-> g[j]]
    BY <2>1, <2>2 DEF Collects
  <2>4. ASSUME NEW j \in 1..k PROVE g[j] = Trimmed(g[j - 1], values[j])
    <3>1. j - 1 \in 0..k /\ j - 1 # k /\ g[j - 1] = f[j - 1]
      BY <2>2
    <3>2. CASE j = k
      BY <2>2, <3>1, <3>2
    <3>3. CASE j # k
      <4>1. j \in 1..(k - 1) /\ j \in 0..k
        BY <2>2, <3>3
      <4>2. \A i \in 1..(k - 1) : f[i] = Trimmed(f[i - 1], values[i])
        BY <2>1, Zenon DEF Collects
      <4>3. f[j] = Trimmed(f[j - 1], values[j])
        BY <4>1, <4>2, Zenon
      <4>. QED
        BY <3>1, <3>3, <4>1, <4>3
    <3>. QED
      BY <3>2, <3>3
  <2>5. Collects(g, values, k)
    BY <2>3, <2>4 DEF Collects
  <2>. QED
    BY <2>2, <2>5
<1>. HIDE DEF P
<1>3. 0..Len(values) \subseteq P
  BY <1>1, <1>2, UpTo
<1>. QED
  BY <1>3 DEF P

\* The loop collects so.
LEMMA CollectedByLoop ==
  ASSUME NEW values, Len(values) \in Nat
  PROVE  \E f : Collects(f, values, Len(values)) /\ trimAndFilter(values) = f[Len(values)]
<1>. DEFINE n == Len(values)
            Loop(f) == [k \in 0..n |-> IF k = 0 THEN <<>> ELSE Trimmed(f[k - 1], values[k])]
            out == CHOOSE f : f = Loop(f)
<1>1. trimAndFilter(values) = out[n]
  BY DEF trimAndFilter
<1>2. PICK f : Collects(f, values, n)
  BY CollectedExists
<1>3. f = Loop(f)
  <2>1. f[0] = <<>> /\ f = [k \in 0..n |-> f[k]]
    BY <1>2 DEF Collects
  <2>2. ASSUME NEW k \in 0..n PROVE f[k] = Loop(f)[k]
    <3>1. CASE k = 0
      BY <2>1, <3>1
    <3>2. CASE k \in 1..n
      <4>1. f[k] = Trimmed(f[k - 1], values[k])
        BY <1>2, <3>2 DEF Collects
      <4>. QED
        BY <3>2, <4>1
    <3>. QED
      BY <3>1, <3>2
  <2>. QED
    BY <2>1, <2>2
<1>4. out = Loop(out)
  BY <1>3
<1>. HIDE DEF out
<1>5. Collects(out, values, n)
  <2>1. out = [k \in 0..n |-> out[k]] /\ out[0] = <<>>
    BY <1>4
  <2>2. ASSUME NEW k \in 1..n PROVE out[k] = Trimmed(out[k - 1], values[k])
    <3>1. k \in 0..n /\ k # 0
      OBVIOUS
    <3>2. out[k] = Loop(out)[k]
      BY <1>4
    <3>. QED
      BY <3>1, <3>2
  <2>. QED
    BY <2>1, <2>2 DEF Collects
<1>. QED
  BY <1>1, <1>5

\* The elements of a sequence when one is appended.
LEMMA AppendedIsAdded ==
  ASSUME NEW S, NEW s \in Seq(S), NEW t \in S
  PROVE  ToSet(Append(s, t)) = ToSet(s) \cup {t}
<1>. DEFINE a == Append(s, t)
<1>1. /\ Len(s) \in Nat /\ DOMAIN s = 1..Len(s) /\ DOMAIN a = 1..Len(s) + 1
      /\ a[Len(s) + 1] = t /\ \A i \in 1..Len(s) : a[i] = s[i]
  BY AppendProperties, LenProperties
<1>. HIDE DEF a
<1>2. ASSUME NEW i \in DOMAIN a PROVE a[i] \in ToSet(s) \cup {t}
  <2>1. i \in 1..Len(s) \/ i = Len(s) + 1
    BY <1>1
  <2>. QED
    BY <1>1, <2>1 DEF ToSet
<1>3. ASSUME NEW i \in DOMAIN s PROVE s[i] \in ToSet(a)
  <2>1. i \in DOMAIN a /\ a[i] = s[i]
    BY <1>1
  <2>. QED
    BY <2>1 DEF ToSet
<1>4. t \in ToSet(a)
  <2>1. Len(s) + 1 \in DOMAIN a /\ a[Len(s) + 1] = t
    BY <1>1
  <2>. QED
    BY <2>1 DEF ToSet
<1>. QED
  BY <1>2, <1>3, <1>4 DEF ToSet, a

\* Ids as projects may have them.
Ids == {t \in Texts : t # Empty /\ t = Trim[t]}

\* trimAndFilter returns trimmed, non-empty ids, exactly those that the values hold.
THEOREM TrimmedIds ==
  ASSUME NEW values \in Seq(Texts)
  PROVE  /\ trimAndFilter(values) \in Seq(Ids)
         /\ Len(trimAndFilter(values)) <= Len(values)
         /\ ToSet(trimAndFilter(values)) = {Trim[values[k]] : k \in 1..Len(values)} \ {Empty}
<1>1. Len(values) \in Nat
  BY LenProperties
<1>2. PICK f : Collects(f, values, Len(values)) /\ trimAndFilter(values) = f[Len(values)]
  BY <1>1, CollectedByLoop
<1>. DEFINE P == {k \in Nat : /\ f[k] \in Seq(Ids) /\ Len(f[k]) <= k
                             /\ ToSet(f[k]) = {Trim[values[i]] : i \in 1..k} \ {Empty}}
<1>3. 0 \in P
  BY <1>2, EmptySeq DEF Collects, ToSet
<1>4. ASSUME NEW k \in 1..Len(values), k - 1 \in P PROVE k \in P
  <2>. DEFINE t == Trim[values[k]]
              s == f[k - 1]
  <2>1. /\ s \in Seq(Ids) /\ Len(s) \in Nat /\ Len(s) <= k - 1
        /\ ToSet(s) = {Trim[values[i]] : i \in 1..k - 1} \ {Empty}
    BY <1>4, LenProperties
  <2>2. t \in Texts /\ Trim[t] = t
    BY TextAssumption, ElementOfSeq
  <2>3. f[k] = IF t # Empty THEN Append(s, t) ELSE s
    BY <1>2 DEF Collects, Trimmed
  <2>4. {Trim[values[i]] : i \in 1..k} = {Trim[values[i]] : i \in 1..k - 1} \cup {t}
    BY <1>1
  <2>. HIDE DEF t, s, P
  <2>5. CASE t # Empty
    <3>1. t \in Ids
      BY <2>2, <2>5 DEF Ids
    <3>2. Append(s, t) \in Seq(Ids) /\ Len(Append(s, t)) = Len(s) + 1
      BY <2>1, <3>1, AppendProperties
    <3>3. ToSet(Append(s, t)) = ToSet(s) \cup {t}
      BY <2>1, <3>1, AppendedIsAdded
    <3>4. f[k] \in Seq(Ids) /\ Len(f[k]) <= k
      BY <2>1, <2>3, <2>5, <3>2
    <3>5. ToSet(f[k]) = {Trim[values[i]] : i \in 1..k} \ {Empty}
      BY <2>1, <2>3, <2>4, <2>5, <3>3
    <3>. QED
      BY <3>4, <3>5 DEF P
  <2>6. CASE t = Empty
    <3>1. f[k] = s
      BY <2>3, <2>6
    <3>2. ToSet(f[k]) = {Trim[values[i]] : i \in 1..k} \ {Empty}
      BY <2>1, <2>4, <2>6, <3>1
    <3>. QED
      BY <2>1, <3>1, <3>2 DEF P
  <2>. QED
    BY <2>5, <2>6
<1>. HIDE DEF P
<1>5. 0..Len(values) \subseteq P
  BY <1>1, <1>3, <1>4, UpTo
<1>6. Len(values) \in P
  BY <1>1, <1>5
<1>. QED
  BY <1>2, <1>6 DEF P

-------------------------------------------------------------------------------
(* The projects                                                              *)

\* What ParseConfiguration and ValidateConfiguration have established.
ConfigInv ==
  /\ config \in Specifications
  /\ pc \notin {"parse", "dead"} =>
       config.projectId = Trim[config.projectId] /\ config.projectIds \in Seq(Ids)
  /\ pc \notin {"parse", "validate", "dead"} => validateProjects

\* Each resolved project is usable, skipped or still to be looked at, and only one of
\* these; no two have the same id, so that none replaces another.
AccessInv ==
  /\ todo \in Seq(Entries) /\ projects \subseteq Entries /\ skipped \subseteq Entries
  /\ pc \in {"parse", "validate"} => projects = {} /\ skipped = {}
  /\ pc \notin {"parse", "validate", "dead"} =>
       /\ projects \cup skipped \cup ToSet(todo) = Resolved
       /\ projects \cap skipped = {}
       /\ \A j, k \in 1..Len(todo) : todo[j].id = todo[k].id => j = k
       /\ \A p \in projects \cup skipped : \A k \in 1..Len(todo) : p.id # todo[k].id

\* The picture of above and the types besides.
TypeAndAccess ==
  /\ IInv
  /\ ConfigInv
  /\ AccessInv
  /\ discoveries \subseteq OptIn \cup {"VM"}
  /\ \A s \in seen : s[1] \in OptIn \cup {"VM"} /\ s[2] \subseteq Entries

\* A function on 1..n is a sequence of n elements.
LEMMA ASequence ==
  ASSUME NEW n \in Nat, NEW S, NEW f \in [1..n -> S]
  PROVE  f \in Seq(S) /\ Len(f) = n
OBVIOUS

\* Bounded sequences are the sequences of bounded length.
LEMMA Bounded ==
  ASSUME NEW S
  PROVE  \A s : s \in BoundedSeq(S, MaxIds) <=> s \in Seq(S) /\ Len(s) \in 0..MaxIds
<1>1. ASSUME NEW s, s \in BoundedSeq(S, MaxIds) PROVE s \in Seq(S) /\ Len(s) \in 0..MaxIds
  <2>1. PICK n \in 0..MaxIds : s \in [1..n -> S]
    BY <1>1 DEF BoundedSeq, SeqOf
  <2>. QED
    BY <2>1, ASequence
<1>2. ASSUME NEW s, s \in Seq(S), Len(s) \in 0..MaxIds PROVE s \in BoundedSeq(S, MaxIds)
  <2>1. s \in [1..Len(s) -> S]
    BY <1>2
  <2>. QED
    BY <1>2, <2>1 DEF BoundedSeq, SeqOf
<1>. QED
  BY <1>1, <1>2

\* The parts of a configuration, the bound on its lists included.
LEMMA Specified ==
  ASSUME config \in Specifications
  PROVE  /\ config.projectId \in Texts
         /\ config.projectIds \in Seq(Texts) /\ Len(config.projectIds) \in 0..MaxIds
         /\ config.advanced \in Seq(Entries)
         /\ config.enabled \subseteq OptIn
<1>1. /\ config.projectIds \in BoundedSeq(Texts, MaxIds)
      /\ config.advanced \in BoundedSeq(Entries, MaxIds)
      /\ config.projectId \in Texts /\ config.enabled \in Enablings
  BY DEF Specifications
<1>. QED
  BY <1>1, Bounded, EnablingsAssumption

\* A configuration that is accepted gives no two projects of one id.
LEMMA ResolvedAreDistinct ==
  ASSUME config \in Specifications, validateProjects
  PROVE  /\ ResolvedProjects \in Seq(Entries)
         /\ \A j, k \in 1..Len(ResolvedProjects) :
              ResolvedProjects[j].id = ResolvedProjects[k].id => j = k
<1>1. CASE config.advanced # <<>>
  <2>. DEFINE n == Len(config.advanced)
              ids == [k \in 1..n |-> config.advanced[k].id]
  <2>1. config.advanced \in Seq(Entries) /\ n \in Nat /\ ResolvedProjects = config.advanced
    BY <1>1, Specified, LenProperties DEF ResolvedProjects
  <2>2. Len(ids) = n
    <3>1. ids \in [1..n -> {config.advanced[k].id : k \in 1..n}]
      OBVIOUS
    <3>. HIDE DEF ids
    <3>. QED
      BY <2>1, <3>1, ASequence
  <2>3. \A j, k \in 1..n : ids[j] = ids[k] => j = k
    <3>1. NoDuplicates(ids)
      BY DEF validateProjects
    <3>. HIDE DEF ids
    <3>. QED
      BY <2>2, <3>1 DEF NoDuplicates
  <2>4. \A k \in 1..n : ids[k] = config.advanced[k].id
    OBVIOUS
  <2>. HIDE DEF ids
  <2>. QED
    BY <2>1, <2>3, <2>4
<1>2. CASE config.advanced = <<>>
  <2>. DEFINE ids == IF config.projectIds = <<>> /\ config.projectId # Empty
                     THEN <<config.projectId>> ELSE config.projectIds
              n == Len(ids)
              plain == [k \in 1..n |-> [id |-> ids[k], account |-> None]]
  <2>1. ids \in Seq(Texts)
    BY Specified
  <2>2. \A j, k \in 1..n : ids[j] = ids[k] => j = k
    <3>1. CASE ids = config.projectIds
      BY <3>1 DEF validateProjects, NoDuplicates
    <3>2. CASE ids # config.projectIds
      <4>1. ids = <<config.projectId>>
        BY <3>2
      <4>. QED
        BY <4>1
    <3>. QED
      BY <3>1, <3>2
  <2>3. ResolvedProjects = plain
    BY <1>2 DEF ResolvedProjects
  <2>. HIDE DEF ids
  <2>4. n \in Nat /\ \A k \in 1..n : ids[k] \in Texts
    BY <2>1, LenProperties, ElementOfSeq
  <2>5. plain \in [1..n -> Entries]
    BY <2>4 DEF Entries
  <2>6. \A k \in 1..n : plain[k].id = ids[k]
    OBVIOUS
  <2>. HIDE DEF plain
  <2>7. plain \in Seq(Entries) /\ Len(plain) = n
    BY <2>4, <2>5, ASequence
  <2>. QED
    BY <2>2, <2>3, <2>6, <2>7
<1>. QED
  BY <1>1, <1>2

\* The ids of a parsed configuration are trimmed, and there are not more than before.
LEMMA ParseTrims ==
  ASSUME TypeAndAccess, ParseConfiguration PROVE ConfigInv'
<1>. DEFINE ids == trimAndFilter(config.projectIds)
<1>1. /\ config \in Specifications /\ pc' = "validate"
      /\ config' = [config EXCEPT !.projectId = Trim[@], !.projectIds = ids]
  BY DEF TypeAndAccess, ConfigInv, ParseConfiguration
<1>2. ids \in Seq(Ids) /\ Len(ids) <= Len(config.projectIds)
  BY <1>1, Specified, TrimmedIds
<1>3. ids \in BoundedSeq(Texts, MaxIds)
  <2>1. ids \in Seq(Texts) /\ Len(ids) \in Nat
    <3>1. Ids \subseteq Texts
      BY DEF Ids
    <3>. HIDE DEF ids
    <3>. QED
      BY <1>2, <3>1, SeqMonotonic, LenProperties
  <2>2. Len(config.projectIds) \in 0..MaxIds
    BY <1>1, Specified
  <2>. HIDE DEF ids
  <2>3. Len(ids) \in 0..MaxIds
    BY <1>2, <2>1, <2>2, BoundAssumption
  <2>. QED
    BY <2>1, <2>3, Bounded
<1>. HIDE DEF ids
<1>4. /\ config'.projectId = Trim[config.projectId] /\ config'.projectIds = ids
      /\ config' \in Specifications
  BY <1>1, <1>3, TextAssumption DEF Specifications
<1>5. Trim[Trim[config.projectId]] = Trim[config.projectId]
  BY <1>1, TextAssumption DEF Specifications
<1>. QED
  BY <1>1, <1>2, <1>4, <1>5 DEF ConfigInv

\* Nothing else changes the configuration, and nobody goes on with a refused one.
LEMMA ConfigKeeps ==
  ASSUME TypeAndAccess, [Next]_vars PROVE ConfigInv'
<1>1. CASE ParseConfiguration
  BY <1>1, ParseTrims
<1>2. CASE ValidateConfiguration
  BY <1>2 DEF ValidateConfiguration, TypeAndAccess, ConfigInv, validateProjects, Sources
<1>3. CASE /\ config' = config
           /\ pc' = pc \/ pc' = "dead" \/ (pc \notin {"parse", "validate", "dead"})
  BY <1>3 DEF TypeAndAccess, ConfigInv, validateProjects, Sources
<1>. QED
  BY <1>1, <1>2, <1>3 DEF Next, Main, ParseFails, BuildAccess, AccessDone, Register, Registered,
     ActivateSignalHandlers, SetReady, Listen, Refresh, Attack, Signal, vars

\* All resolved projects are to be looked at.
LEMMA ValidateResolves ==
  ASSUME TypeAndAccess, ValidateConfiguration PROVE AccessInv'
<1>1. /\ pc = "validate" /\ projects = {} /\ skipped = {}
      /\ UNCHANGED <<config, projects, skipped>>
  BY DEF ValidateConfiguration, TypeAndAccess, AccessInv
<1>2. CASE validateProjects
  <2>1. pc' = "access" /\ todo' = ResolvedProjects /\ Resolved' = Resolved
    BY <1>1, <1>2 DEF ValidateConfiguration, Resolved, ResolvedProjects
  <2>2. /\ todo' \in Seq(Entries)
        /\ \A j, k \in 1..Len(todo') : todo'[j].id = todo'[k].id => j = k
    BY <1>2, <2>1, ResolvedAreDistinct DEF TypeAndAccess, ConfigInv
  <2>3. ToSet(todo') = Resolved
    BY <2>1 DEF Resolved
  <2>. QED
    BY <1>1, <2>1, <2>2, <2>3 DEF AccessInv
<1>3. CASE ~validateProjects
  BY <1>1, <1>3 DEF ValidateConfiguration, TypeAndAccess, AccessInv
<1>. QED
  BY <1>2, <1>3

\* The first of a sequence and the others.
LEMMA FirstAndRest ==
  ASSUME NEW S, NEW s \in Seq(S), s # <<>>
  PROVE  /\ Head(s) \in S /\ Tail(s) \in Seq(S) /\ ToSet(s) = {Head(s)} \cup ToSet(Tail(s))
         /\ Head(s) = s[1] /\ 1 \in 1..Len(s)
         /\ \A k \in 1..Len(Tail(s)) : k + 1 \in 1..Len(s) /\ k + 1 # 1 /\ Tail(s)[k] = s[k + 1]
<1>1. /\ Head(s) \in S /\ Tail(s) \in Seq(S) /\ Head(s) = s[1] /\ Len(s) \in Nat \ {0}
      /\ Len(Tail(s)) = Len(s) - 1 /\ \A k \in 1..Len(Tail(s)) : Tail(s)[k] = s[k + 1]
      /\ DOMAIN s = 1..Len(s) /\ DOMAIN Tail(s) = 1..Len(Tail(s))
  BY HeadTailProperties, LenProperties, EmptySeq
<1>. DEFINE t == Tail(s)
<1>. HIDE DEF t
<1>2. ASSUME NEW k \in DOMAIN s PROVE s[k] \in {Head(s)} \cup ToSet(Tail(s))
  <2>1. CASE k = 1
    BY <1>1, <2>1
  <2>2. CASE k # 1
    <3>1. k - 1 \in DOMAIN Tail(s) /\ Tail(s)[k - 1] = s[k]
      BY <1>1, <2>2
    <3>. QED
      BY <3>1 DEF ToSet
  <2>. QED
    BY <2>1, <2>2
<1>3. ASSUME NEW k \in DOMAIN Tail(s) PROVE Tail(s)[k] \in ToSet(s)
  <2>1. k + 1 \in DOMAIN s /\ s[k + 1] = Tail(s)[k]
    BY <1>1
  <2>. QED
    BY <2>1 DEF ToSet
<1>4. Head(s) \in ToSet(s)
  BY <1>1 DEF ToSet
<1>5. ToSet(s) = {Head(s)} \cup ToSet(Tail(s))
  BY <1>2, <1>3, <1>4 DEF ToSet
<1>. QED
  BY <1>1, <1>5

\* One iteration: the next one becomes usable or is skipped, and replaces none.
LEMMA BuildKeepsAccess ==
  ASSUME TypeAndAccess, BuildAccess PROVE AccessInv'
<1>. DEFINE p == Head(todo)
<1>1. /\ pc = "access" /\ pc' = pc /\ todo # <<>> /\ todo' = Tail(todo) /\ config' = config
      /\ \/ projects' = {q \in projects : q.id # p.id} \cup {p} /\ skipped' = skipped
         \/ skipped' = skipped \cup {p} /\ projects' = projects
  BY DEF BuildAccess
<1>2. /\ todo \in Seq(Entries) /\ projects \subseteq Entries /\ skipped \subseteq Entries
      /\ projects \cup skipped \cup ToSet(todo) = Resolved
      /\ projects \cap skipped = {}
      /\ \A j, k \in 1..Len(todo) : todo[j].id = todo[k].id => j = k
      /\ \A q \in projects \cup skipped : \A k \in 1..Len(todo) : q.id # todo[k].id
  BY <1>1 DEF TypeAndAccess, AccessInv
<1>3. /\ p \in Entries /\ todo' \in Seq(Entries) /\ ToSet(todo) = {p} \cup ToSet(todo')
      /\ p = todo[1] /\ 1 \in 1..Len(todo)
      /\ \A k \in 1..Len(todo') : k + 1 \in 1..Len(todo) /\ k + 1 # 1 /\ todo'[k] = todo[k + 1]
  BY <1>1, <1>2, FirstAndRest
<1>. HIDE DEF p
\* No entry replaces another.
<1>4. {q \in projects : q.id # p.id} = projects
  BY <1>2, <1>3
<1>5. Resolved' = Resolved
  BY <1>1 DEF Resolved, ResolvedProjects
<1>6. projects' \cup skipped' = projects \cup skipped \cup {p} /\ p \notin projects \cup skipped
  BY <1>1, <1>2, <1>3, <1>4
<1>7. \A k \in 1..Len(todo') : p.id # todo'[k].id
  BY <1>2, <1>3
<1>8. \A q \in projects \cup skipped : \A k \in 1..Len(todo') : q.id # todo'[k].id
  BY <1>2, <1>3
<1>9. \A j, k \in 1..Len(todo') : todo'[j].id = todo'[k].id => j = k
  <2>. SUFFICES ASSUME NEW j \in 1..Len(todo'), NEW k \in 1..Len(todo'),
                       todo'[j].id = todo'[k].id
                PROVE  j = k
    OBVIOUS
  <2>1. j + 1 = k + 1
    BY <1>2, <1>3
  <2>. QED
    BY <2>1
<1>10. projects' \cap skipped' = {} /\ projects' \subseteq Entries /\ skipped' \subseteq Entries
  BY <1>1, <1>2, <1>3, <1>4, <1>6
<1>11. projects' \cup skipped' \cup ToSet(todo') = Resolved'
  BY <1>2, <1>3, <1>5, <1>6
<1>. QED
  BY <1>1, <1>3, <1>6, <1>7, <1>8, <1>9, <1>10, <1>11 DEF AccessInv

\* Nobody else changes the projects.
LEMMA AccessKeeps ==
  ASSUME TypeAndAccess, [Next]_vars PROVE AccessInv'
<1>1. CASE ValidateConfiguration
  BY <1>1, ValidateResolves
<1>2. CASE BuildAccess
  BY <1>2, BuildKeepsAccess
<1>3. CASE ParseConfiguration \/ ParseFails
  BY <1>3 DEF ParseConfiguration, ParseFails, TypeAndAccess, AccessInv
<1>4. CASE /\ UNCHANGED <<config, todo, projects, skipped>>
           /\ \/ pc' = pc \/ pc' = "dead"
              \/ pc \notin {"parse", "validate", "dead"} /\ pc' \notin {"parse", "validate"}
  <2>1. Resolved' = Resolved
    BY <1>4 DEF Resolved, ResolvedProjects
  <2>. QED
    BY <1>4, <2>1 DEF TypeAndAccess, AccessInv
<1>. QED
  BY <1>1, <1>2, <1>3, <1>4 DEF Next, Main, AccessDone, Register, Registered,
     ActivateSignalHandlers, SetReady, Listen, Refresh, Attack, Signal, vars

\* Only wanted modules are registered or refreshed.
LEMMA ModulesKeep ==
  ASSUME TypeAndAccess, [Next]_vars
  PROVE  /\ (discoveries \subseteq OptIn \cup {"VM"})'
         /\ (\A s \in seen : s[1] \in OptIn \cup {"VM"} /\ s[2] \subseteq Entries)'
<1>1. Wanted \subseteq OptIn \cup {"VM"}
  BY Specified DEF TypeAndAccess, ConfigInv, Wanted
<1>2. CASE \E n \in Wanted : Register(n)
  BY <1>1, <1>2 DEF TypeAndAccess, Register
<1>3. CASE \E n \in Wanted : Refresh(n)
  <2>1. PICK n \in Wanted : Refresh(n)
    BY <1>3
  <2>2. /\ seen' = seen \cup {<<n, projects>>} /\ discoveries' = discoveries
        /\ n \in OptIn \cup {"VM"} /\ projects \subseteq Entries
    BY <1>1, <2>1 DEF Refresh, TypeAndAccess, AccessInv
  <2>. QED
    BY <2>2 DEF TypeAndAccess
<1>4. CASE discoveries' = discoveries /\ seen' = seen
  BY <1>4 DEF TypeAndAccess
<1>. QED
  BY <1>2, <1>3, <1>4 DEF Next, Main, ParseConfiguration, ParseFails, ValidateConfiguration,
     BuildAccess, AccessDone, Registered, ActivateSignalHandlers, SetReady, Listen, Attack,
     Signal, vars

\* Hence always.
LEMMA AlwaysTypeAndAccess == Spec => []TypeAndAccess
<1>1. Init => TypeAndAccess
  <2>. SUFFICES ASSUME Init PROVE TypeAndAccess
    OBVIOUS
  <2>1. IInv
    BY InitIInv
  <2>. QED
    BY <2>1 DEF Init, TypeAndAccess, ConfigInv, AccessInv
<1>2. TypeAndAccess /\ [Next]_vars => TypeAndAccess'
  <2>. SUFFICES ASSUME TypeAndAccess, [Next]_vars PROVE TypeAndAccess'
    OBVIOUS
  <2>1. IInv'
    BY NextKeeps DEF TypeAndAccess
  <2>. QED
    BY <2>1, ConfigKeeps, AccessKeeps, ModulesKeep DEF TypeAndAccess
<1>. QED
  BY <1>1, <1>2, PTL DEF Spec

\* Every variable keeps its type; the ids left by trimAndFilter fit the bound that
\* the configured ones had, and attacks are registered by modules that have one.
THEOREM TypeCorrect == Spec => []TypeOK
<1>1. TypeAndAccess => TypeOK
  BY DEF TypeAndAccess, IInv, ConfigInv, AccessInv, AttacksOfDiscoveries, TypeOK
<1>. QED
  BY <1>1, AlwaysTypeAndAccess, PTL

\* Each configured project is usable or skipped, as configured, and none twice.
THEOREM NothingIsLostHolds == Spec => []NothingIsLost
<1>1. ASSUME TypeAndAccess PROVE NothingIsLost
  <2>. SUFFICES ASSUME pc \notin {"parse", "validate", "access", "dead"} PROVE NothingIsLost
    BY DEF NothingIsLost
  <2>1. pc \in HasAccess /\ todo = <<>>
    BY <1>1 DEF TypeAndAccess, IInv, InOrder, Steps, HasAccess
  <2>2. ToSet(todo) = {}
    BY <2>1 DEF ToSet
  <2>3. projects \cup skipped = Resolved /\ projects \cap skipped = {}
    BY <1>1, <2>2 DEF TypeAndAccess, AccessInv
  <2>4. validateProjects /\ config \in Specifications
    BY <1>1 DEF TypeAndAccess, ConfigInv
  <2>5. \E s \in Sources : Sources = {s}
    BY <2>4 DEF validateProjects
  <2>6. ASSUME config.advanced = <<>>, NEW q \in Resolved PROVE q.id = Trim[q.id] /\ q.id # Empty
    <3>. DEFINE ids == IF config.projectIds = <<>> /\ config.projectId # Empty
                       THEN <<config.projectId>> ELSE config.projectIds
    <3>1. ids \in Seq(Ids)
      <4>1. config.projectId \in Texts /\ config.projectId = Trim[config.projectId]
        BY <1>1, <2>4, Specified DEF TypeAndAccess, ConfigInv
      <4>2. config.projectId # Empty => config.projectId \in Ids
        BY <4>1 DEF Ids
      <4>. QED
        BY <1>1, <4>2 DEF TypeAndAccess, ConfigInv
    <3>2. ResolvedProjects = [k \in 1..Len(ids) |-> [id |-> ids[k], account |-> None]]
      BY <2>6 DEF ResolvedProjects
    <3>. HIDE DEF ids
    <3>3. PICK k \in 1..Len(ids) : q = [id |-> ids[k], account |-> None]
      BY <3>2 DEF Resolved, ToSet
    <3>4. q.id \in Ids
      BY <3>1, <3>3, ElementOfSeq
    <3>. QED
      BY <3>4 DEF Ids
  <2>. QED
    BY <2>3, <2>5, <2>6 DEF NothingIsLost
<1>. QED
  BY <1>1, AlwaysTypeAndAccess, PTL

-------------------------------------------------------------------------------
(* What is left of start-up: main is never stuck, and each of its steps brings *)
(* it nearer to listening.                                                     *)

AllModules == OptIn \cup {"VM"}

\* Where main has not yet come to listen or given up, one of its steps may be taken:
\* the only one that looks for something, the next module to register, finds it.
MainGoesOn ==
  pc \notin {"listening", "dead"} =>
    /\ pc \in {"parse", "validate", "access", "register", "signals", "ready", "listen"}
    /\ pc = "register" => discoveries = Wanted \/ \E m \in Wanted : IsNext(m)

\* The steps of main, by where it is.
PlacesLeft ==
  CASE pc = "parse" -> 8 [] pc = "validate" -> 7 [] pc = "access" -> 6
    [] pc = "register" -> 5 [] pc = "signals" -> 4 [] pc = "ready" -> 3
    [] pc = "listen" -> 2 [] pc = "listening" -> 1 [] pc = "dead" -> 0

\* No list of projects is longer than the bound, or than the one PROJECT_ID.
ProjectsLeft ==
  IF pc \in {"parse", "validate"} THEN MaxIds + 1
  ELSE IF pc = "access" THEN Len(todo) ELSE 0

\* Those still to be registered, wanted or not.
ModulesLeft == Cardinality(AllModules \ discoveries)

\* A bound on the steps main can still take.
MainStepsLeft == PlacesLeft + ProjectsLeft + ModulesLeft

\* Only modules that are wanted are registered.
LEMMA RegisteredAreWanted ==
  ASSUME discoveries \subseteq Wanted, [Next]_vars PROVE (discoveries \subseteq Wanted)'
<1>1. CASE ParseConfiguration
  <2>1. config'.enabled = config.enabled
    BY <1>1 DEF ParseConfiguration
  <2>. QED
    BY <1>1, <2>1 DEF ParseConfiguration, Wanted
<1>2. CASE config' = config /\ (discoveries' = discoveries
                               \/ \E m \in Wanted : discoveries' = discoveries \cup {m})
  BY <1>2 DEF Wanted
<1>. QED
  BY <1>1, <1>2 DEF Next, Main, ParseFails, ValidateConfiguration, BuildAccess, AccessDone,
     Register, Registered, ActivateSignalHandlers, SetReady, Listen, Refresh, Attack, Signal, vars

\* Hence always.
LEMMA AlwaysWanted == Spec => [](discoveries \subseteq Wanted)
<1>1. Init => discoveries \subseteq Wanted
  BY DEF Init
<1>. QED
  BY <1>1, RegisteredAreWanted, PTL DEF Spec

\* Every module has its place in main.
LEMMA PlaceOfModule == ASSUME NEW m \in AllModules PROVE Position(m) \in Nat
<1>1. CASE m = "VM"
  BY <1>1 DEF Position
<1>2. CASE m # "VM"
  <2>1. \E k \in 1..Len(ModuleOrder) : ModuleOrder[k] = m
    BY <1>2 DEF AllModules, OptIn, ToSet, ModuleOrder
  <2>2. Len(ModuleOrder) \in Nat
    BY DEF ModuleOrder
  <2>. QED
    BY <1>2, <2>1, <2>2 DEF Position
<1>. QED
  BY <1>1, <1>2

\* Among the modules still to be registered one comes first.
LEMMA OneIsNext ==
  ASSUME Wanted \subseteq AllModules, discoveries \subseteq Wanted, discoveries # Wanted
  PROVE  \E m \in Wanted : IsNext(m)
<1>. DEFINE T == {Position(m) : m \in Wanted \ discoveries}
<1>1. T \in SUBSET Nat /\ T # {}
  BY PlaceOfModule
<1>2. PICK n \in T : \A k \in T : n <= k
  BY <1>1, LeastNumber
<1>3. PICK m \in Wanted \ discoveries : n = Position(m)
  OBVIOUS
<1>. QED
  BY <1>2, <1>3 DEF IsNext

\* Main never waits for anybody: before it listens or gives up, a step of it is possible.
\* With the fairness of main and MainEnds this is why start-up ends (ServesOrDies).
THEOREM MainNeverWaits == Spec => []MainGoesOn
<1>1. ASSUME TypeAndAccess, discoveries \subseteq Wanted PROVE MainGoesOn
  <2>1. pc \in Steps /\ Wanted \subseteq AllModules
    BY <1>1, Specified DEF TypeAndAccess, IInv, ConfigInv, Wanted, AllModules
  <2>2. discoveries = Wanted \/ \E m \in Wanted : IsNext(m)
    BY <1>1, <2>1, OneIsNext
  <2>. QED
    BY <2>1, <2>2 DEF MainGoesOn, Steps
<1>. QED
  BY <1>1, AlwaysTypeAndAccess, AlwaysWanted, PTL

\* What is resolved fits the bound of what is left.
LEMMA ResolvedAreFew ==
  ASSUME config \in Specifications
  PROVE  Len(ResolvedProjects) \in 0..MaxIds + 1
<1>1. /\ Len(config.projectIds) \in 0..MaxIds
      /\ Len(config.advanced) \in 0..MaxIds
  BY Bounded, Specified DEF Specifications
<1>. DEFINE ids == IF config.projectIds = <<>> /\ config.projectId # Empty
                   THEN <<config.projectId>> ELSE config.projectIds
            plain == [k \in 1..Len(ids) |-> [id |-> ids[k], account |-> None]]
<1>2. Len(ids) \in 0..MaxIds + 1
  BY <1>1, BoundAssumption
<1>3. ResolvedProjects = IF config.advanced # <<>> THEN config.advanced ELSE plain
  BY DEF ResolvedProjects
<1>4. Len(plain) = Len(ids)
  <2>. HIDE DEF ids
  <2>1. Len(ids) \in Nat /\ plain \in [1..Len(ids) -> {plain[k] : k \in 1..Len(ids)}]
    BY <1>2, BoundAssumption
  <2>. HIDE DEF plain
  <2>. QED
    BY <2>1, ASequence
<1>. HIDE DEF plain, ids
<1>. QED
  BY <1>1, <1>2, <1>3, <1>4, BoundAssumption

\* The modules are finitely many.
LEMMA FiniteModules == IsFiniteSet(AllModules)
<1>. DEFINE n == Len(ModuleOrder)
            f == [k \in 1..n |-> ModuleOrder[k]]
<1>1. n \in Nat /\ OptIn = {ModuleOrder[k] : k \in 1..n}
  BY DEF OptIn, ToSet, ModuleOrder
<1>. HIDE DEF n
<1>2. f \in Surjection(1..n, OptIn)
  BY <1>1 DEF Surjection
<1>3. IsFiniteSet(1..n)
  BY <1>1, FS_Interval
<1>4. IsFiniteSet(OptIn)
  BY <1>2, <1>3, FS_Surjection
<1>. QED
  BY <1>4, FS_AddElement DEF AllModules

\* What is left is counted in numbers.
LEMMA LeftType ==
  pc \in Steps /\ todo \in Seq(Entries) =>
    PlacesLeft \in Nat /\ ProjectsLeft \in Nat /\ ModulesLeft \in Nat
<1>. SUFFICES ASSUME pc \in Steps, todo \in Seq(Entries)
              PROVE  PlacesLeft \in Nat /\ ProjectsLeft \in Nat /\ ModulesLeft \in Nat
  OBVIOUS
<1>1. PlacesLeft \in Nat
  BY DEF Steps, PlacesLeft
<1>2. ProjectsLeft \in Nat
  BY BoundAssumption, LenProperties DEF ProjectsLeft
<1>3. IsFiniteSet(AllModules \ discoveries)
  BY FiniteModules, FS_Subset
<1>. QED
  BY <1>1, <1>2, <1>3, FS_CardinalityType DEF ModulesLeft

\* After a step as well.
LEMMA LeftTypeNext ==
  (pc \in Steps /\ todo \in Seq(Entries))' =>
    (PlacesLeft \in Nat /\ ProjectsLeft \in Nat /\ ModulesLeft \in Nat)'
BY LeftType, PTL

\* The steps of main up to registration: each takes it on, or a project off the list.
LEMMA CollectingTakesOn ==
  ASSUME TypeAndAccess, TypeAndAccess',
         ParseConfiguration \/ ParseFails \/ ValidateConfiguration \/ BuildAccess \/ AccessDone
  PROVE  PlacesLeft' + ProjectsLeft' < PlacesLeft + ProjectsLeft
<1>0. config \in Specifications /\ todo \in Seq(Entries) /\ Len(todo) \in Nat
  BY LenProperties DEF TypeAndAccess, ConfigInv, AccessInv
<1>. USE DEF PlacesLeft, ProjectsLeft
<1>1. CASE ParseConfiguration
  BY <1>1, BoundAssumption DEF ParseConfiguration
<1>2. CASE ParseFails
  BY <1>2, BoundAssumption DEF ParseFails
<1>3. CASE ValidateConfiguration
  <2>1. CASE validateProjects
    <3>1. pc = "validate" /\ pc' = "access" /\ todo' = ResolvedProjects
      BY <1>3, <2>1 DEF ValidateConfiguration
    <3>2. Len(todo') \in 0..MaxIds + 1
      BY <1>0, <3>1, ResolvedAreFew
    <3>. QED
      BY <3>1, <3>2, BoundAssumption
  <2>2. CASE ~validateProjects
    BY <1>3, <2>2, BoundAssumption DEF ValidateConfiguration
  <2>. QED
    BY <2>1, <2>2
<1>4. CASE BuildAccess
  <2>1. pc = "access" /\ pc' = "access" /\ todo # <<>> /\ todo' = Tail(todo)
    BY <1>4 DEF BuildAccess
  <2>2. Len(todo') = Len(todo) - 1
    BY <1>0, <2>1, HeadTailProperties
  <2>. QED
    BY <1>0, <2>1, <2>2
<1>5. CASE AccessDone
  BY <1>0, <1>5 DEF AccessDone
<1>. QED
  BY <1>1, <1>2, <1>3, <1>4, <1>5

\* Less of the first two is less of all.
LEMMA LessIsLeft ==
  ASSUME NEW a \in Nat, NEW b \in Nat, NEW c \in Nat, NEW d \in Nat, NEW m \in Nat, c + d < a + b
  PROVE  c + d + m < a + b + m /\ c + d + m <= a + b + m
OBVIOUS

\* Main gets on with each of its steps, and nobody throws it back.
LEMMA MainTakesOn ==
  ASSUME TypeAndAccess, TypeAndAccess', discoveries \subseteq Wanted, [Next]_vars
  PROVE  MainStepsLeft' <= MainStepsLeft /\ (Main => MainStepsLeft' < MainStepsLeft)
<1>1. /\ pc \in Steps /\ todo \in Seq(Entries) /\ (pc \in Steps /\ todo \in Seq(Entries))'
      /\ Wanted \subseteq AllModules
  BY Specified DEF TypeAndAccess, IInv, ConfigInv, AccessInv, Wanted, AllModules
<1>2. PlacesLeft \in Nat /\ ProjectsLeft \in Nat /\ ModulesLeft \in Nat
  BY <1>1, LeftType
<1>3. PlacesLeft' \in Nat /\ ProjectsLeft' \in Nat /\ ModulesLeft' \in Nat
  <2>1. (PlacesLeft \in Nat /\ ProjectsLeft \in Nat /\ ModulesLeft \in Nat)'
    BY <1>1, LeftTypeNext
  <2>. QED
    BY <2>1
<1>. USE DEF MainStepsLeft
<1>4. ASSUME discoveries' = discoveries PROVE ModulesLeft' = ModulesLeft
  BY <1>4 DEF ModulesLeft
<1>5. CASE ParseConfiguration \/ ParseFails \/ ValidateConfiguration \/ BuildAccess \/ AccessDone
  <2>1. ModulesLeft' = ModulesLeft
    BY <1>4, <1>5 DEF ParseConfiguration, ParseFails, ValidateConfiguration, BuildAccess, AccessDone
  <2>2. PlacesLeft' + ProjectsLeft' < PlacesLeft + ProjectsLeft
    BY <1>5, CollectingTakesOn
  <2>. QED
    BY <1>2, <1>3, <2>1, <2>2, LessIsLeft
<1>6. CASE \E m \in Wanted : Register(m)
  <2>1. PICK m \in Wanted : Register(m)
    BY <1>6
  <2>2. m \in AllModules \ discoveries /\ discoveries' = discoveries \cup {m}
    BY <1>1, <2>1 DEF Register, IsNext
  <2>3. ModulesLeft' = ModulesLeft - 1
    <3>. DEFINE S == AllModules \ discoveries
    <3>1. AllModules \ (discoveries \cup {m}) = S \ {m} /\ m \in S
      BY <2>2
    <3>2. IsFiniteSet(S)
      BY FiniteModules, FS_Subset
    <3>. HIDE DEF S
    <3>3. Cardinality(S \ {m}) = Cardinality(S) - 1
      BY <3>1, <3>2, FS_RemoveElement
    <3>. QED
      BY <2>2, <3>1, <3>3 DEF ModulesLeft, S
  <2>4. PlacesLeft' = PlacesLeft /\ ProjectsLeft' = ProjectsLeft
    BY <2>1 DEF Register, PlacesLeft, ProjectsLeft
  <2>. QED
    BY <1>2, <1>3, <2>3, <2>4
<1>7. CASE Registered \/ ActivateSignalHandlers \/ SetReady \/ Listen
  <2>1. ModulesLeft' = ModulesLeft
    BY <1>4, <1>7 DEF Registered, ActivateSignalHandlers, SetReady, Listen
  <2>2. PlacesLeft' = PlacesLeft - 1 /\ ProjectsLeft' = ProjectsLeft
    BY <1>7 DEF Registered, ActivateSignalHandlers, SetReady, Listen, PlacesLeft, ProjectsLeft
  <2>. QED
    BY <1>2, <1>3, <2>1, <2>2
<1>8. CASE ~Main /\ UNCHANGED <<pc, todo, discoveries>>
  <2>1. PlacesLeft' = PlacesLeft /\ ProjectsLeft' = ProjectsLeft /\ ModulesLeft' = ModulesLeft
    BY <1>4, <1>8 DEF PlacesLeft, ProjectsLeft
  <2>. QED
    BY <1>2, <1>8, <2>1
<1>9. CASE Signal
  <2>1. pc' = "dead" /\ pc # "dead" /\ ModulesLeft' = ModulesLeft
    BY <1>4, <1>9 DEF Signal
  <2>2. PlacesLeft' = 0 /\ PlacesLeft > 0 /\ ProjectsLeft' = 0
    BY <1>1, <2>1 DEF Steps, PlacesLeft, ProjectsLeft
  <2>3. PlacesLeft' + ProjectsLeft' < PlacesLeft + ProjectsLeft
    BY <1>2, <2>2
  <2>. QED
    BY <1>2, <1>3, <2>1, <2>3, LessIsLeft
<1>10. ASSUME (\E m \in Wanted : Refresh(m)) \/ Attack \/ UNCHANGED vars
       PROVE  UNCHANGED <<pc, todo, discoveries>>
  BY <1>10 DEF Refresh, Attack, vars
<1>. QED
  BY <1>5, <1>6, <1>7, <1>8, <1>9, <1>10 DEF Next, Main

\* Every step of main leaves it fewer to take, and no refresh, attack or signal gives it
\* more: it comes to listen or gives up after finitely many steps of its own.
THEOREM MainEnds ==
  Spec => /\ [](MainStepsLeft \in Nat)
          /\ [][/\ MainStepsLeft' <= MainStepsLeft
                /\ Main => MainStepsLeft' < MainStepsLeft]_vars
<1>1. TypeAndAccess => MainStepsLeft \in Nat
  <2>. SUFFICES ASSUME TypeAndAccess PROVE MainStepsLeft \in Nat
    OBVIOUS
  <2>1. PlacesLeft \in Nat /\ ProjectsLeft \in Nat /\ ModulesLeft \in Nat
    BY LeftType DEF TypeAndAccess, IInv, AccessInv
  <2>. QED
    BY <2>1 DEF MainStepsLeft
<1>2. /\ TypeAndAccess /\ TypeAndAccess' /\ discoveries \subseteq Wanted /\ [Next]_vars
      => [MainStepsLeft' <= MainStepsLeft /\ (Main => MainStepsLeft' < MainStepsLeft)]_vars
  BY MainTakesOn
<1>. QED
  BY <1>1, <1>2, AlwaysTypeAndAccess, AlwaysWanted, PTL DEF Spec

===============================================================================
