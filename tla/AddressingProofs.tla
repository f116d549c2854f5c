--------------------------- MODULE AddressingProofs ---------------------------
(***************************************************************************)
(* Proofs about Addressing, for every set of projects, names, zones and    *)
(* regions that the naming rules of NamesAssumption and NamingAssumption   *)
(* allow, and for any number of restarts.                                  *)
(*                                                                         *)
(* Most of it is about the operators.  An id is a path, so that two equal  *)
(* ids are taken apart from both ends (SameParts).  What a discovery       *)
(* writes, Prepare reads: Says(t, a, v) follows from the toTarget of each  *)
(* kind, and AddressAsWritten and ReadAsWritten turn it into what is read  *)
(* after the excludes.  Each kind's Prepare then gives the coordinates of  *)
(* the resource or refuses (Prepared), and each kind's attributes say what *)
(* is so (Published).                                                      *)
(*                                                                         *)
(* The state machine adds little: Inv says that what an attack holds is    *)
(* one resource's target less its excludes, and that its address is what   *)
(* Prepare made of it.  AddressesItsTarget alone is not inductive, as it   *)
(* says nothing of the target that Prepare will read.                      *)
(***************************************************************************)

EXTENDS Addressing, SequenceTheorems, TLAPS

-------------------------------------------------------------------------------
(* Ids                                                                       *)

\* A path tells its parts apart where the length of one of them is known.
SameParts(s, t, u, v) ==
  s \o t = u \o v /\ (Len(s) = Len(u) \/ Len(t) = Len(v)) => s = u /\ t = v

\* All paths do.
LEMMA PartsOfAPath ==
  ASSUME NEW S, NEW s \in Seq(S), NEW t \in Seq(S), NEW u \in Seq(S), NEW v \in Seq(S)
  PROVE  SameParts(s, t, u, v)
<1>. SUFFICES ASSUME s \o t = u \o v, Len(s) = Len(u) \/ Len(t) = Len(v)
              PROVE  s = u /\ t = v
  BY DEF SameParts
<1>1. /\ Len(s \o t) = Len(s) + Len(t)
      /\ \A i \in 1..Len(s) + Len(t) :
           (s \o t)[i] = IF i <= Len(s) THEN s[i] ELSE t[i - Len(s)]
  BY ConcatProperties
<1>2. /\ Len(u \o v) = Len(u) + Len(v)
      /\ \A i \in 1..Len(u) + Len(v) :
           (u \o v)[i] = IF i <= Len(u) THEN u[i] ELSE v[i - Len(u)]
  BY ConcatProperties
<1>3. Len(s) = Len(u) /\ Len(t) = Len(v) /\ Len(s) \in Nat /\ Len(t) \in Nat
  BY <1>1, <1>2, LenProperties
<1>4. \A i \in 1..Len(s) : s[i] = u[i]
  BY <1>1, <1>2, <1>3
<1>5. ASSUME NEW i \in 1..Len(t) PROVE t[i] = v[i]
  <2>. DEFINE k == Len(s) + i
  <2>1. k \in 1..Len(s) + Len(t) /\ ~(k <= Len(s)) /\ k - Len(s) = i
    BY <1>3
  <2>. HIDE DEF k
  <2>. QED
    BY <1>1, <1>2, <1>3, <2>1
<1>. QED
  BY <1>3, <1>4, <1>5, SeqEqual

\* The keys of aggregated lists are paths.
LEMMA KeysArePaths ==
  ASSUME NEW S, Locations \cup {"zones", "regions", "global"} \subseteq S, NEW k \in Keys
  PROVE  k \in Seq(S)
<1>1. CASE k \in {"zones"} \X Zones
  <2>1. PICK z \in Zones : k = <<"zones", z>>
    BY <1>1
  <2>. QED
    BY <2>1 DEF Locations
<1>2. CASE k \in {"regions"} \X Regions
  <2>1. PICK z \in Regions : k = <<"regions", z>>
    BY <1>2
  <2>. QED
    BY <2>1 DEF Locations
<1>3. CASE k = <<"global">>
  BY <1>3
<1>. QED
  BY <1>1, <1>2, <1>3 DEF Keys

\* So are self links.
LEMMA SelfLinksArePaths ==
  ASSUME NEW S, Locations \cup {"zones", "regions", "global", "projects"} \subseteq S,
         NEW r, r.project \in S, r.key \in Keys, NEW c \in S, NEW n \in S
  PROVE  SelfLink(r, c, n) \in Seq(S)
<1>. DEFINE p == <<"projects", r.project>>
            u == <<c, n>>
<1>1. p \in Seq(S) /\ u \in Seq(S) /\ r.key \in Seq(S)
  BY KeysArePaths
<1>. HIDE DEF p, u
<1>2. p \o r.key \in Seq(S)
  BY <1>1, ConcatProperties
<1>3. p \o r.key \o u \in Seq(S)
  BY <1>1, <1>2, ConcatProperties
<1>. QED
  BY <1>3 DEF SelfLink, p, u

\* A self link names the project, the key and the resource it links to.
LEMMA SelfLinksAreDistinct ==
  ASSUME NEW x, NEW y, x.key \in Keys, y.key \in Keys, NEW c, NEW m, NEW n,
         SelfLink(x, c, m) = SelfLink(y, c, n)
  PROVE  x.project = y.project /\ x.key = y.key /\ m = n
<1>. DEFINE S == Locations \cup {"zones", "regions", "global", "projects"}
                  \cup {x.project, y.project, c, m, n}
            p == <<"projects", x.project>>
            q == <<"projects", y.project>>
            u == <<c, m>>
            v == <<c, n>>
<1>1. x.key \in Seq(S) /\ y.key \in Seq(S)
  <2>1. Locations \cup {"zones", "regions", "global"} \subseteq S
    OBVIOUS
  <2>. HIDE DEF S
  <2>. QED
    BY <2>1, KeysArePaths
<1>2. p \in Seq(S) /\ q \in Seq(S) /\ u \in Seq(S) /\ v \in Seq(S)
  OBVIOUS
<1>3. Len(p) = Len(q) /\ Len(u) = Len(v)
  OBVIOUS
<1>4. p \o x.key \o u = q \o y.key \o v
  BY DEF SelfLink
<1>5. (p = q => x.project = y.project) /\ (u = v => m = n)
  OBVIOUS
<1>. HIDE DEF S, p, q, u, v
<1>6. p \o x.key \in Seq(S) /\ q \o y.key \in Seq(S)
  BY <1>1, <1>2, ConcatProperties
<1>7. \A a, b, d, e \in Seq(S) : SameParts(a, b, d, e)
  BY PartsOfAPath
<1>8. SameParts(p \o x.key, u, q \o y.key, v) /\ SameParts(p, x.key, q, y.key)
  BY <1>1, <1>2, <1>6, <1>7
<1>. QED
  BY <1>3, <1>4, <1>5, <1>8 DEF SameParts

\* The kind of a resource says which fields it has.
LEMMA KindsOfResources ==
  ASSUME NEW r \in Resources
  PROVE  /\ r.kind \in {"vm", "mig", "nat", "nodepool", "sql", "redis", "disk", "spanner",
                        "topic", "subscription", "service", "cluster"}
         /\ r.kind = "vm" => r \in Vms
         /\ r.kind = "mig" => r \in Migs
         /\ r.kind = "nat" => r \in Nats
         /\ r.kind = "nodepool" => r \in NodePools
         /\ r.kind = "sql" => r \in Sqls
         /\ r.kind = "redis" => r \in Redises
         /\ r.kind = "disk" => r \in Disks
         /\ r.kind = "spanner" => r \in Spanners
         /\ r.kind = "topic" => r \in Topics
         /\ r.kind = "subscription" => r \in Subscriptions /\ (r.sink = "push" => r.pushConfig)
         /\ r.kind = "service" => r \in Services
         /\ r.kind = "cluster" => r \in Clusters
<1>. \/ r \in Vms \/ r \in Migs \/ r \in Nats \/ r \in NodePools \/ r \in Sqls \/ r \in Redises
     \/ r \in Disks \/ r \in Spanners \/ r \in Topics
     \/ r \in Subscriptions /\ (r.sink = "push" => r.pushConfig)
     \/ r \in Services \/ r \in Clusters
  BY DEF Resources
<1>. QED
  BY DEF Vms, Migs, Nats, NodePools, Sqls, Redises, Disks, Spanners, Topics, Subscriptions,
         Services, Clusters

\* Which resources have a full name, and that the location is in it where there is one.
LEMMA FullNames ==
  ASSUME NEW r \in Resources
  PROVE  /\ r.kind \in {"redis", "service"} =>
              FullName(r) = <<"projects", r.project, "locations", r.location,
                              Collection(r.kind), r.name>>
         /\ r.kind \in {"spanner", "topic", "subscription"} =>
              FullName(r) = <<"projects", r.project, Collection(r.kind), r.name>>
<1>1. ASSUME r.kind \in {"redis", "service"} PROVE "location" \in DOMAIN r
  BY <1>1, KindsOfResources DEF Redises, Services
<1>2. ASSUME r.kind \in {"spanner", "topic", "subscription"} PROVE "location" \notin DOMAIN r
  BY <1>2, KindsOfResources DEF Spanners, Topics, Subscriptions
<1>. QED
  BY <1>1, <1>2 DEF FullName

\* Resources of one kind and one id are one resource: ids leave no coordinate out.
LEMMA IdsAreDistinct ==
  ASSUME NEW x \in Resources, NEW y \in Resources, x.kind = y.kind, Id(x) = Id(y)
  PROVE  Coordinates(x) = Coordinates(y)
<1>. DEFINE S == Projects \cup Names \cup Locations
               \cup {"zones", "regions", "global", "projects", "instanceGroupManagers", "disks",
                    "routers", "nats", "locations", "clusters", "nodePools"}
<1>1. CASE x.kind = "vm"
  BY <1>1 DEF Id
<1>2. CASE x.kind \in {"mig", "disk"}
  <2>. DEFINE c == IF x.kind = "mig" THEN "instanceGroupManagers" ELSE "disks"
  <2>1. x.key \in Keys /\ y.key \in Keys
    BY <1>2, KindsOfResources DEF Migs, Disks
  <2>2. SelfLink(x, c, x.name) = SelfLink(y, c, y.name)
    BY <1>2 DEF Id
  <2>. HIDE DEF c
  <2>3. x.project = y.project /\ x.key = y.key /\ x.name = y.name
    BY <2>1, <2>2, SelfLinksAreDistinct
  <2>. QED
    BY <1>2, <2>3 DEF Coordinates
<1>3. CASE x.kind = "nat"
  <2>. DEFINE u == <<"nats", x.name>>
              v == <<"nats", y.name>>
  <2>1. /\ x.key \in Keys /\ y.key \in Keys
        /\ {x.project, y.project, x.router, y.router, x.name, y.name} \subseteq S
    BY <1>3, KindsOfResources DEF Nats, Keys
  <2>2. SelfLink(x, "routers", x.router) \o u = SelfLink(y, "routers", y.router) \o v
    BY <1>3 DEF Id
  <2>3. u \in Seq(S) /\ v \in Seq(S) /\ Len(u) = Len(v) /\ (u = v => x.name = y.name)
    BY <2>1
  <2>4. Locations \cup {"zones", "regions", "global", "projects", "routers"} \subseteq S
    OBVIOUS
  <2>. HIDE DEF u, v, S
  <2>9. /\ SelfLink(x, "routers", x.router) \in Seq(S)
        /\ SelfLink(y, "routers", y.router) \in Seq(S)
    BY <2>1, <2>4, SelfLinksArePaths
  <2>5. \A a, b, d, e \in Seq(S) : SameParts(a, b, d, e)
    BY PartsOfAPath
  <2>6. SameParts(SelfLink(x, "routers", x.router), u, SelfLink(y, "routers", y.router), v)
    BY <2>3, <2>9, <2>5
  <2>7. SelfLink(x, "routers", x.router) = SelfLink(y, "routers", y.router) /\ x.name = y.name
    BY <2>2, <2>3, <2>6 DEF SameParts
  <2>8. x.project = y.project /\ x.key = y.key /\ x.router = y.router
    BY <2>1, <2>7, SelfLinksAreDistinct
  <2>. QED
    BY <1>3, <2>7, <2>8 DEF Coordinates
<1>4. CASE x.kind = "nodepool"
  <2>. DEFINE s == ClusterPath(x.project, x.location, x.cluster)
              t == ClusterPath(y.project, y.location, y.cluster)
              u == <<"nodePools", x.name>>
              v == <<"nodePools", y.name>>
  <2>1. /\ {x.project, y.project, x.location, y.location, x.cluster, y.cluster} \subseteq S
        /\ {x.name, y.name} \subseteq S
    BY <1>4, KindsOfResources DEF NodePools
  <2>2. s \in Seq(S) /\ t \in Seq(S) /\ u \in Seq(S) /\ v \in Seq(S)
    BY <2>1 DEF ClusterPath
  <2>3. s \o u = t \o v
    BY <1>4 DEF Id
  <2>4. Len(u) = Len(v) /\ (u = v => x.name = y.name)
    OBVIOUS
  <2>5. s = t => x.project = y.project /\ x.location = y.location /\ x.cluster = y.cluster
    BY DEF ClusterPath
  <2>. HIDE DEF s, t, u, v, S
  <2>6. \A a, b, d, e \in Seq(S) : SameParts(a, b, d, e)
    BY PartsOfAPath
  <2>7. SameParts(s, u, t, v)
    BY <2>2, <2>6
  <2>. QED
    BY <1>4, <2>3, <2>4, <2>5, <2>7 DEF SameParts, Coordinates
<1>5. CASE x.kind = "sql"
  BY <1>5 DEF Id, Coordinates
<1>6. CASE x.kind = "cluster"
  BY <1>6 DEF Id, ClusterPath, Coordinates
<1>7. CASE x.kind \in {"redis", "service", "spanner", "topic", "subscription"}
  <2>1. FullName(x) = FullName(y)
    BY <1>7 DEF Id
  <2>. QED
    BY <1>7, <2>1, FullNames DEF Coordinates
<1>. QED
  BY <1>1, <1>2, <1>3, <1>4, <1>5, <1>6, <1>7, KindsOfResources

-------------------------------------------------------------------------------
(* Names taken apart                                                         *)

\* A zone's name without its letter is its region's, and no region looks like a zone.
LEMMA ZonesAndRegions ==
  /\ \A z \in Zones : IsZone(z) /\ getRegion(z) = RegionOf[z]
  /\ \A r \in Regions : ~IsZone(r)
  /\ Zones \cap Regions = {}
<1>1. ASSUME NEW z \in Zones PROVE IsZone(z) /\ getRegion(z) = RegionOf[z]
  <2>. DEFINE s == Segments[RegionOf[z]]
  <2>1. PICK l \in Letters : Segments[z] = Append(s, l)
    BY NamingAssumption
  <2>2. RegionOf[z] \in Regions /\ RegionOf[z] \in Locations /\ s # <<>> /\ s \in Seq(STRING)
    BY NamingAssumption DEF Locations
  <2>. DEFINE S == STRING \cup {l}
  <2>3. s \in Seq(S) /\ l \in S
    BY <2>2, SeqMonotonic
  <2>. HIDE DEF s, S
  <2>4. /\ Append(s, l) \in Seq(S)
        /\ Len(Append(s, l)) = Len(s) + 1 /\ Append(s, l)[Len(s) + 1] = l
        /\ \A i \in 1..Len(s) : Append(s, l)[i] = s[i]
    BY <2>3, AppendProperties
  <2>5. Len(s) \in Nat /\ Len(s) > 0
    BY <2>2, EmptySeq, LenProperties
  <2>6. IsZone(z)
    BY <2>1, <2>4, <2>5 DEF IsZone, Last
  <2>7. Front(Segments[z]) = s
    <3>1. \A i \in 1..Len(s) : Append(s, l)[i] \in S
      BY <2>3, <2>4, ElementOfSeq
    <3>2. /\ SubSeq(Append(s, l), 1, Len(s)) \in Seq(S)
          /\ Len(SubSeq(Append(s, l), 1, Len(s))) = Len(s)
          /\ \A i \in 1..Len(s) : SubSeq(Append(s, l), 1, Len(s))[i] = Append(s, l)[i]
      BY <2>5, <3>1, SubSeqProperties
    <3>3. SubSeq(Append(s, l), 1, Len(s)) = s
      BY <2>3, <2>4, <3>2, SeqEqual
    <3>. QED
      BY <2>1, <2>4, <2>5, <3>3 DEF Front
  <2>8. getRegion(z) = CHOOSE m \in Locations : Segments[m] = s
    BY <2>6, <2>7 DEF getRegion
  <2>9. \A m \in Locations : Segments[m] = s <=> m = RegionOf[z]
    BY <2>2, NamingAssumption DEF s
  <2>. QED
    BY <2>2, <2>6, <2>8, <2>9
<1>2. ASSUME NEW r \in Regions PROVE ~IsZone(r)
  BY NamingAssumption DEF IsZone
<1>. QED
  BY <1>1, <1>2

\* A zone is called zonal and a region regional.
LEMMA ClassifiedLocations ==
  /\ \A z \in Zones : classifyLocation(z) = "zonal"
  /\ \A r \in Regions : classifyLocation(r) = "regional"
BY ZonesAndRegions DEF classifyLocation

\* Though the project may be called "locations" or "services", and the service too.
LEMMA ParsedServiceNames ==
  ASSUME NEW p, NEW l \in Locations, NEW n
  PROVE  parseServiceName(<<"projects", p, "locations", l, "services", n>>) = <<l, n>>
<1>. DEFINE f == <<"projects", p, "locations", l, "services", n>>
<1>1. l # "locations"
  BY NamesAssumption
<1>2. \A i \in Following(f, "locations") : i <= 4
  <2>1. ASSUME NEW i \in Following(f, "locations"), i \notin 2..4 PROVE FALSE
    <3>1. i = 5 \/ i = 6
      BY <2>1 DEF Following
    <3>2. f[4] = l /\ f[5] = "services" /\ f[i - 1] = "locations"
      BY DEF Following
    <3>. QED
      BY <1>1, <3>1, <3>2
  <2>. QED
    BY <2>1
<1>3. 4 \in Following(f, "locations") /\ 6 \in Following(f, "services")
  BY DEF Following
<1>4. \A i \in Following(f, "services") : i <= 6
  BY DEF Following
<1>5. (CHOOSE i \in Following(f, "locations") :
         \A j \in Following(f, "locations") : i >= j) = 4
  <2>1. \A i \in Following(f, "locations") :
          (\A j \in Following(f, "locations") : i >= j) <=> i = 4
    BY <1>2, <1>3 DEF Following
  <2>. QED
    BY <1>3, <2>1
<1>6. (CHOOSE i \in Following(f, "services") :
         \A j \in Following(f, "services") : i >= j) = 6
  <2>1. \A i \in Following(f, "services") :
          (\A j \in Following(f, "services") : i >= j) <=> i = 6
    BY <1>3, <1>4 DEF Following
  <2>. QED
    BY <1>3, <2>1
<1>7. f[4] = l /\ f[6] = n
  OBVIOUS
<1>. HIDE DEF f
<1>8. After(f, "locations") = f[4] /\ After(f, "services") = f[6]
  BY <1>5, <1>6 DEF After
<1>. QED
  BY <1>7, <1>8 DEF parseServiceName, f

-------------------------------------------------------------------------------
(* Attributes, written and read                                              *)

\* A target says of an attribute this and nothing else.
Says(t, a, v) == <<a, v>> \in t /\ \A x \in t : x[1] = a => x[2] = v

\* The value is read as it was written, unless the attribute was excluded.
LEMMA ReadAsWritten ==
  ASSUME NEW t, NEW excludes, NEW a, NEW v, Says(t, a, v)
  PROVE  /\ a \in Attributes(t)
         /\ a \in Attributes(Excluding(t, excludes)) <=> a \notin excludes
         /\ mustHave(Excluding(t, excludes), a) = IF a \in excludes THEN Blank ELSE v
<1>1. a \in Attributes(t)
  <2>1. <<a, v>> \in t /\ <<a, v>>[1] = a
    BY DEF Says
  <2>. QED
    BY <2>1 DEF Attributes
<1>2. ASSUME a \in excludes
      PROVE  Values(Excluding(t, excludes), a) = {} /\ a \notin Attributes(Excluding(t, excludes))
  BY <1>2 DEF Values, Excluding, Attributes
<1>3. ASSUME a \notin excludes
      PROVE  Values(Excluding(t, excludes), a) = {v} /\ a \in Attributes(Excluding(t, excludes))
  <2>1. <<a, v>> \in Excluding(t, excludes) /\ <<a, v>>[1] = a /\ <<a, v>>[2] = v
    BY <1>3 DEF Says, Excluding
  <2>2. \A x \in Excluding(t, excludes) : x[1] = a => x[2] = v
    BY DEF Says, Excluding
  <2>. QED
    BY <2>1, <2>2 DEF Values, Attributes
<1>. QED
  BY <1>1, <1>2, <1>3 DEF mustHave

\* What is not in the target is read as blank.
LEMMA UnwrittenIsEmpty ==
  ASSUME NEW t, NEW excludes, NEW a, a \notin Attributes(t)
  PROVE  mustHave(Excluding(t, excludes), a) = Blank
<1>1. Values(Excluding(t, excludes), a) = {}
  BY DEF Values, Excluding, Attributes
<1>. QED
  BY <1>1 DEF mustHave

\* A function on 1..n is a sequence of n elements.
LEMMA SequenceFromFunction ==
  ASSUME NEW n \in Nat, NEW S, NEW f \in [1..n -> S]
  PROVE  f \in Seq(S) /\ Len(f) = n
OBVIOUS

\* An address is what the target says, provided that nothing of it was excluded.
LEMMA AddressAsWritten ==
  ASSUME NEW t, NEW excludes, NEW S, NEW names \in Seq(S), NEW values \in Seq(S),
         Len(names) = Len(values),
         \A k \in 1..Len(names) : Says(t, names[k], values[k]) /\ values[k] # Blank
  PROVE  AddressFrom(Excluding(t, excludes), names) =
           IF \E k \in 1..Len(names) : names[k] \in excludes THEN None ELSE values
<1>. DEFINE read == [k \in 1..Len(names) |-> mustHave(Excluding(t, excludes), names[k])]
<1>0. Len(names) \in Nat
  BY LenProperties
<1>. DEFINE ReadOf(a, v) ==
       /\ a \in excludes => mustHave(Excluding(t, excludes), a) = Blank
       /\ a \notin excludes => mustHave(Excluding(t, excludes), a) = v
<1>1. \A k \in 1..Len(names) : read[k] = IF names[k] \in excludes THEN Blank ELSE values[k]
  <2>1. \A a, v : Says(t, a, v) => ReadOf(a, v)
    BY ReadAsWritten
  <2>. HIDE DEF ReadOf
  <2>2. \A k \in 1..Len(names) : ReadOf(names[k], values[k])
    BY <2>1
  <2>. QED
    BY <2>2 DEF ReadOf
<1>2. Len(read) = Len(names) /\ read \in Seq({read[k] : k \in 1..Len(names)})
  <2>1. read \in [1..Len(names) -> {read[k] : k \in 1..Len(names)}]
    OBVIOUS
  <2>. HIDE DEF read
  <2>. QED
    BY <1>0, <2>1, SequenceFromFunction
<1>3. AddressFrom(Excluding(t, excludes), names) =
        IF \E k \in 1..Len(read) : read[k] = Blank THEN None ELSE read
  BY DEF AddressFrom
<1>4. ASSUME \A k \in 1..Len(names) : names[k] \notin excludes
      PROVE  read = values
  <2>1. \A k \in 1..Len(names) : read[k] = values[k]
    BY <1>1, <1>4
  <2>2. \A x \in {read[k] : k \in 1..Len(names)} : x \in S
    BY <2>1, ElementOfSeq
  <2>. HIDE DEF read
  <2>3. read \in Seq(S)
    BY <1>2, <2>2, SeqMonotonic
  <2>. QED
    BY <1>2, <2>1, <2>3, SeqEqual
<1>. HIDE DEF read
<1>. QED
  BY <1>1, <1>2, <1>3, <1>4

\* AddressAsWritten for the attacks that read four attributes, three and two.
LEMMA AddressOfFour ==
  ASSUME NEW t, NEW excludes, NEW a, NEW b, NEW c, NEW d,
         NEW v, NEW w, NEW x, NEW y,
         Says(t, a, v), Says(t, b, w), Says(t, c, x), Says(t, d, y),
         Blank \notin {v, w, x, y}
  PROVE  AddressFrom(Excluding(t, excludes), <<a, b, c, d>>) =
           IF {a, b, c, d} \cap excludes # {} THEN None ELSE <<v, w, x, y>>
<1>. DEFINE names == <<a, b, c, d>>
            values == <<v, w, x, y>>
            S == {a, b, c, d, v, w, x, y}
<1>1. names \in Seq(S) /\ values \in Seq(S) /\ Len(names) = 4 /\ Len(values) = 4
  OBVIOUS
<1>2. \A k \in 1..4 : Says(t, names[k], values[k]) /\ values[k] # Blank
  OBVIOUS
<1>3. (\E k \in 1..4 : names[k] \in excludes) <=> {a, b, c, d} \cap excludes # {}
  OBVIOUS
<1>. HIDE DEF names, values, S
<1>4. AddressFrom(Excluding(t, excludes), names) =
        IF \E k \in 1..4 : names[k] \in excludes THEN None ELSE values
  BY <1>1, <1>2, AddressAsWritten
<1>. QED
  BY <1>3, <1>4 DEF names, values

\* The same with three.
LEMMA AddressOfThree ==
  ASSUME NEW t, NEW excludes, NEW a, NEW b, NEW c,
         NEW v, NEW w, NEW x,
         Says(t, a, v), Says(t, b, w), Says(t, c, x),
         Blank \notin {v, w, x}
  PROVE  AddressFrom(Excluding(t, excludes), <<a, b, c>>) =
           IF {a, b, c} \cap excludes # {} THEN None ELSE <<v, w, x>>
<1>. DEFINE names == <<a, b, c>>
            values == <<v, w, x>>
            S == {a, b, c, v, w, x}
<1>1. names \in Seq(S) /\ values \in Seq(S) /\ Len(names) = 3 /\ Len(values) = 3
  OBVIOUS
<1>2. \A k \in 1..3 : Says(t, names[k], values[k]) /\ values[k] # Blank
  OBVIOUS
<1>3. (\E k \in 1..3 : names[k] \in excludes) <=> {a, b, c} \cap excludes # {}
  OBVIOUS
<1>. HIDE DEF names, values, S
<1>4. AddressFrom(Excluding(t, excludes), names) =
        IF \E k \in 1..3 : names[k] \in excludes THEN None ELSE values
  BY <1>1, <1>2, AddressAsWritten
<1>. QED
  BY <1>3, <1>4 DEF names, values

\* The same with two.
LEMMA AddressOfTwo ==
  ASSUME NEW t, NEW excludes, NEW a, NEW b,
         NEW v, NEW w,
         Says(t, a, v), Says(t, b, w),
         Blank \notin {v, w}
  PROVE  AddressFrom(Excluding(t, excludes), <<a, b>>) =
           IF {a, b} \cap excludes # {} THEN None ELSE <<v, w>>
<1>. DEFINE names == <<a, b>>
            values == <<v, w>>
            S == {a, b, v, w}
<1>1. names \in Seq(S) /\ values \in Seq(S) /\ Len(names) = 2 /\ Len(values) = 2
  OBVIOUS
<1>2. \A k \in 1..2 : Says(t, names[k], values[k]) /\ values[k] # Blank
  OBVIOUS
<1>3. (\E k \in 1..2 : names[k] \in excludes) <=> {a, b} \cap excludes # {}
  OBVIOUS
<1>. HIDE DEF names, values, S
<1>4. AddressFrom(Excluding(t, excludes), names) =
        IF \E k \in 1..2 : names[k] \in excludes THEN None ELSE values
  BY <1>1, <1>2, AddressAsWritten
<1>. QED
  BY <1>3, <1>4 DEF names, values

-------------------------------------------------------------------------------
(* What Prepare makes of a target                                            *)

Texts == Projects \cup Locations \cup Names \cup {"zonal", "regional", "unknown", "global"}

\* None of the words that are written is blank.
LEMMA BlankIsNoWord ==
  Blank \notin {"zonal", "regional", "unknown", "global", "REGIONAL", "ZONAL", "STANDARD_HA",
                "BASIC", "0", "1"}
BY Zenon DEF Blank

\* Nor is any name.
LEMMA TextsAreGiven == \A x \in Texts : x # Blank
BY NamesAssumption, BlankIsNoWord DEF Texts

\* A target that misses what its attack needs is refused, and so is a resource that
\* cannot be attacked; what is accepted is addressed by its own coordinates.
Prepared(r, excludes) ==
  PrepareKind(r.kind, Excluding(toTarget(r), excludes)) =
    IF Supported(r) /\ Needed(r) \subseteq Attributes(Excluding(toTarget(r), excludes))
      THEN Coordinates(r) ELSE None

\* What is needed is what is left after the excludes.
LEMMA Left ==
  ASSUME NEW t, NEW excludes, NEW needed \in SUBSET Attributes(t)
  PROVE  needed \subseteq Attributes(Excluding(t, excludes)) <=> needed \cap excludes = {}
BY DEF Attributes, Excluding

\* Cloud NAT: four attributes, the region from the key.
LEMMA PreparedNat ==
  ASSUME NEW r \in Nats, NEW excludes PROVE Prepared(r, excludes)
<1>. DEFINE t == toNatTarget(r)
            names == {"gcp.project.id", "gcp.cloud-nat.region", "gcp.cloud-nat.router",
                      "gcp.cloud-nat.name"}
<1>1. /\ r.kind = "nat" /\ toTarget(r) = t /\ Last(r.key) = r.key[2] /\ Supported(r)
      /\ {r.project, r.key[2], r.router, r.name} \subseteq Texts
  BY DEF Nats, toTarget, Texts, Locations, Last, Supported
<1>2. t = {<<"gcp.project.id", r.project>>, <<"gcp.cloud-nat.name", r.name>>,
           <<"gcp.cloud-nat.router", r.router>>, <<"gcp.cloud-nat.region", r.key[2]>>}
  BY <1>1 DEF toNatTarget, OfProject
<1>3. Needed(r) = names /\ Needed(r) \subseteq Attributes(t)
  BY <1>1, <1>2 DEF Needed, Attributes
<1>4. /\ Says(t, "gcp.project.id", r.project) /\ Says(t, "gcp.cloud-nat.region", r.key[2])
      /\ Says(t, "gcp.cloud-nat.router", r.router) /\ Says(t, "gcp.cloud-nat.name", r.name)
  BY <1>2 DEF Says
<1>. HIDE DEF t
<1>5. AddressFrom(Excluding(t, excludes), <<"gcp.project.id", "gcp.cloud-nat.region",
                                            "gcp.cloud-nat.router", "gcp.cloud-nat.name">>) =
        IF names \cap excludes # {} THEN None ELSE <<r.project, r.key[2], r.router, r.name>>
  BY <1>1, <1>4, TextsAreGiven, AddressOfFour
<1>6. PrepareKind(r.kind, Excluding(t, excludes)) =
        IF names \cap excludes # {} THEN None ELSE Coordinates(r)
  BY <1>1, <1>5 DEF PrepareKind, PrepareNat, Coordinates
<1>7. Needed(r) \subseteq Attributes(Excluding(t, excludes)) <=> names \cap excludes = {}
  BY <1>3, Left
<1>. QED
  BY <1>1, <1>6, <1>7 DEF Prepared

\* Node pools: four attributes.
LEMMA PreparedNodePool ==
  ASSUME NEW r \in NodePools, NEW excludes PROVE Prepared(r, excludes)
<1>. DEFINE t == toNodePoolTarget(r)
            names == {"gcp.project.id", "gcp.gke.cluster.location", "gcp.gke.cluster.name",
                      "gcp.gke.nodepool.name"}
<1>1. /\ r.kind = "nodepool" /\ toTarget(r) = t /\ Supported(r)
      /\ {r.project, r.location, r.cluster, r.name} \subseteq Texts
  BY DEF NodePools, toTarget, Texts, Supported
<1>2. t = {<<"gcp.project.id", r.project>>, <<"gcp.gke.cluster.name", r.cluster>>,
           <<"gcp.gke.cluster.location", r.location>>, <<"gcp.gke.nodepool.name", r.name>>}
  BY DEF toNodePoolTarget, OfProject
<1>3. Needed(r) = names /\ Needed(r) \subseteq Attributes(t)
  BY <1>1, <1>2 DEF Needed, Attributes
<1>4. /\ Says(t, "gcp.project.id", r.project) /\ Says(t, "gcp.gke.cluster.location", r.location)
      /\ Says(t, "gcp.gke.cluster.name", r.cluster) /\ Says(t, "gcp.gke.nodepool.name", r.name)
  BY <1>2 DEF Says
<1>. HIDE DEF t
<1>5. AddressFrom(Excluding(t, excludes), <<"gcp.project.id", "gcp.gke.cluster.location",
                                            "gcp.gke.cluster.name", "gcp.gke.nodepool.name">>) =
        IF names \cap excludes # {} THEN None ELSE <<r.project, r.location, r.cluster, r.name>>
  BY <1>1, <1>4, TextsAreGiven, AddressOfFour
<1>6. PrepareKind(r.kind, Excluding(t, excludes)) =
        IF names \cap excludes # {} THEN None ELSE Coordinates(r)
  BY <1>1, <1>5 DEF PrepareKind, PrepareNodePool, Coordinates
<1>7. Needed(r) \subseteq Attributes(Excluding(t, excludes)) <=> names \cap excludes = {}
  BY <1>3, Left
<1>. QED
  BY <1>1, <1>6, <1>7 DEF Prepared

\* The scope stands for the key's first part and the location for its second.
LEMMA ScopesOfKeys ==
  ASSUME NEW k \in Keys
  PROVE  \/ k[1] = "zones" /\ k[2] \in Zones /\ k = <<"zones", k[2]>>
              /\ parseScope(k) = "zonal" /\ Last(k) = k[2]
              /\ classifyScope(k) = <<k[2], Blank>>
         \/ k[1] = "regions" /\ k[2] \in Regions /\ k = <<"regions", k[2]>>
              /\ parseScope(k) = "regional" /\ Last(k) = k[2]
              /\ classifyScope(k) = <<Blank, k[2]>>
         \/ k[1] = "global" /\ k = <<"global">> /\ parseScope(k) = "unknown" /\ Last(k) = "global"
              /\ classifyScope(k) = <<Blank, Blank>>
<1>1. CASE k \in {"zones"} \X Zones
  <2>1. PICK z \in Zones : k = <<"zones", z>>
    BY <1>1
  <2>. QED
    BY <2>1 DEF parseScope, classifyScope, Last
<1>2. CASE k \in {"regions"} \X Regions
  <2>1. PICK z \in Regions : k = <<"regions", z>>
    BY <1>2
  <2>. QED
    BY <2>1 DEF parseScope, classifyScope, Last
<1>3. CASE k = <<"global">>
  BY <1>3 DEF parseScope, classifyScope, Last
<1>. QED
  BY <1>1, <1>2, <1>3 DEF Keys

\* MIGs: the scope and the location make up the key again, and an unknown scope is refused.
LEMMA PreparedMig ==
  ASSUME NEW r \in Migs, NEW excludes PROVE Prepared(r, excludes)
<1>. DEFINE t == toMigTarget(r)
            names == {"gcp.project.id", "gcp.mig.scope", "gcp.mig.location", "gcp.mig.name"}
            from == AddressFrom(Excluding(t, excludes),
                      <<"gcp.project.id", "gcp.mig.scope", "gcp.mig.location", "gcp.mig.name">>)
            written == <<r.project, parseScope(r.key), Last(r.key), r.name>>
<1>1. /\ r.kind = "mig" /\ toTarget(r) = t /\ r.key \in Keys
      /\ r.project \in Projects /\ r.name \in Names
  BY DEF Migs, toTarget
<1>2. t = {<<"gcp.project.id", r.project>>, <<"gcp.mig.name", r.name>>,
           <<"gcp.mig.location", Last(r.key)>>, <<"gcp.mig.scope", parseScope(r.key)>>}
  BY DEF toMigTarget, OfProject
<1>3. Needed(r) = names /\ Needed(r) \subseteq Attributes(t)
  BY <1>1, <1>2 DEF Needed, Attributes
<1>4. /\ Says(t, "gcp.project.id", r.project) /\ Says(t, "gcp.mig.scope", parseScope(r.key))
      /\ Says(t, "gcp.mig.location", Last(r.key)) /\ Says(t, "gcp.mig.name", r.name)
  BY <1>2 DEF Says
<1>5. {r.project, parseScope(r.key), Last(r.key), r.name} \subseteq Texts
  BY <1>1, ScopesOfKeys DEF Texts, Locations
<1>. HIDE DEF t
<1>6. from = IF names \cap excludes # {} THEN None ELSE written
  BY <1>4, <1>5, TextsAreGiven, AddressOfFour
<1>7. Supported(r) => written # None
  <2>. DEFINE T == Projects \cup Locations \cup Names \cup {"zonal", "regional", "unknown"}
  <2>1. Supported(r) => /\ r.project \in T /\ parseScope(r.key) \in T /\ Last(r.key) \in T
                        /\ r.name \in T
    BY <1>1, ScopesOfKeys DEF Supported, Locations
  <2>. HIDE DEF T
  <2>2. Supported(r) => written \in Seq(T)
    BY <2>1
  <2>. QED
    BY <2>2, NoneAssumption DEF T
<1>8. PrepareMig(Excluding(t, excludes)) =
        CASE from = None -> None
          [] from # None /\ from[2] = "zonal" -> <<from[1], <<"zones", from[3]>>, from[4]>>
          [] from # None /\ from[2] = "regional" -> <<from[1], <<"regions", from[3]>>, from[4]>>
          [] OTHER -> None
  BY DEF PrepareMig
<1>9. /\ written[1] = r.project /\ written[2] = parseScope(r.key)
      /\ written[3] = Last(r.key) /\ written[4] = r.name
  OBVIOUS
<1>10. Coordinates(r) = <<r.project, r.key, r.name>>
  BY <1>1 DEF Coordinates
<1>. HIDE DEF from, written
<1>. DEFINE p == PrepareKind(r.kind, Excluding(t, excludes))
<1>11. p = IF Supported(r) /\ names \cap excludes = {} THEN Coordinates(r) ELSE None
  <2>1. p = PrepareMig(Excluding(t, excludes))
    BY <1>1 DEF PrepareKind
  <2>2. CASE names \cap excludes # {}
    BY <1>6, <1>8, <2>1, <2>2
  <2>3. CASE names \cap excludes = {} /\ Supported(r)
    <3>1. from = written /\ from # None
      BY <1>6, <1>7, <2>3
    <3>2. \/ parseScope(r.key) = "zonal" /\ r.key = <<"zones", Last(r.key)>>
          \/ parseScope(r.key) = "regional" /\ r.key = <<"regions", Last(r.key)>>
      BY <1>1, <2>3, ScopesOfKeys DEF Supported
    <3>. QED
      BY <1>8, <1>9, <1>10, <2>1, <2>3, <3>1, <3>2
  <2>4. CASE names \cap excludes = {} /\ ~Supported(r)
    <3>1. from = written
      BY <1>6, <2>4
    <3>2. parseScope(r.key) = "unknown"
      BY <1>1, <2>4, ScopesOfKeys DEF Supported
    <3>. QED
      BY <1>8, <1>9, <2>1, <2>4, <3>1, <3>2
  <2>. QED
    BY <2>2, <2>3, <2>4
<1>12. Needed(r) \subseteq Attributes(Excluding(t, excludes)) <=> names \cap excludes = {}
  BY <1>3, Left
<1>. QED
  BY <1>1, <1>11, <1>12 DEF Prepared

\* Cloud SQL: only a regional instance, and its availability type has to be readable.
LEMMA PreparedSql ==
  ASSUME NEW r \in Sqls, NEW excludes PROVE Prepared(r, excludes)
<1>. DEFINE t == toInstanceTarget(r)
            gate == "gcp.cloudsql.availability-type"
            names == {"gcp.project.id", "gcp.cloudsql.instance.name"}
<1>1. /\ r.kind = "sql" /\ toTarget(r) = t /\ r.availability \in {"REGIONAL", "ZONAL", Blank}
      /\ {r.project, r.name} \subseteq Texts /\ (Supported(r) <=> r.availability = "REGIONAL")
  BY DEF Sqls, toTarget, Texts, Supported
<1>2. t = {<<"gcp.project.id", r.project>>, <<"gcp.cloudsql.instance.name", r.name>>}
            \cup Optional(gate, r.availability)
  BY DEF toInstanceTarget, OfProject
<1>3. /\ Says(t, "gcp.project.id", r.project) /\ Says(t, "gcp.cloudsql.instance.name", r.name)
      /\ r.availability = Blank => gate \notin Attributes(t)
      /\ r.availability # Blank => Says(t, gate, r.availability)
      /\ r.availability # Blank =>
           Needed(r) = names \cup {gate} /\ Needed(r) \subseteq Attributes(t)
  <2>1. CASE r.availability = Blank
    <3>1. t = {<<"gcp.project.id", r.project>>, <<"gcp.cloudsql.instance.name", r.name>>}
      BY <1>2, <2>1 DEF Optional
    <3>. QED
      BY <2>1, <3>1 DEF Says, Attributes
  <2>2. CASE r.availability # Blank
    <3>1. t = {<<"gcp.project.id", r.project>>, <<"gcp.cloudsql.instance.name", r.name>>,
               <<gate, r.availability>>}
      BY <1>2, <2>2 DEF Optional
    <3>2. Attributes(t) = names \cup {gate}
      BY <3>1 DEF Attributes
    <3>3. Needed(r) = names \cup {gate}
      BY <1>1, <3>2 DEF Needed
    <3>. QED
      BY <2>2, <3>1, <3>2, <3>3 DEF Says
  <2>. QED
    BY <2>1, <2>2
<1>. HIDE DEF t
<1>4. AddressFrom(Excluding(t, excludes), <<"gcp.project.id", "gcp.cloudsql.instance.name">>) =
        IF names \cap excludes # {} THEN None ELSE <<r.project, r.name>>
  BY <1>1, <1>3, TextsAreGiven, AddressOfTwo
<1>5. mustHave(Excluding(t, excludes), gate) =
        IF r.availability = Blank \/ gate \in excludes THEN Blank ELSE r.availability
  BY <1>3, ReadAsWritten, UnwrittenIsEmpty
<1>6. PrepareKind(r.kind, Excluding(t, excludes)) =
        IF r.availability = "REGIONAL" /\ (names \cup {gate}) \cap excludes = {}
          THEN Coordinates(r) ELSE None
  BY <1>1, <1>4, <1>5, BlankIsNoWord DEF PrepareKind, PrepareSql, Coordinates
<1>7. Supported(r) =>
        (Needed(r) \subseteq Attributes(Excluding(t, excludes))
           <=> (names \cup {gate}) \cap excludes = {})
  BY <1>1, <1>3, Left, BlankIsNoWord
<1>. QED
  BY <1>1, <1>6, <1>7 DEF Prepared

\* Memorystore: only the tier with a replica, and the tier has to be readable.
LEMMA PreparedRedis ==
  ASSUME NEW r \in Redises, r \in Resources, NEW excludes PROVE Prepared(r, excludes)
<1>. DEFINE t == toRedisTarget(r)
            gate == "gcp.memorystore.tier"
            names == {"gcp.project.id", "gcp.memorystore.region", "gcp.memorystore.instance.id"}
<1>1. /\ r.kind = "redis" /\ toTarget(r) = t /\ r.tier \in {"STANDARD_HA", "BASIC", Blank}
      /\ {r.project, r.location, r.name} \subseteq Texts
      /\ (Supported(r) <=> r.tier = "STANDARD_HA")
  BY DEF Redises, toTarget, Texts, Locations, Supported
<1>2. t = {<<"gcp.project.id", r.project>>, <<"gcp.memorystore.instance.id", r.name>>,
           <<"gcp.memorystore.region", r.location>>} \cup Optional(gate, r.tier)
  BY <1>1, FullNames DEF toRedisTarget, OfProject
<1>3. /\ Says(t, "gcp.project.id", r.project) /\ Says(t, "gcp.memorystore.region", r.location)
      /\ Says(t, "gcp.memorystore.instance.id", r.name)
      /\ r.tier = Blank => gate \notin Attributes(t)
      /\ r.tier # Blank => Says(t, gate, r.tier)
      /\ r.tier # Blank => Needed(r) = names \cup {gate} /\ Needed(r) \subseteq Attributes(t)
  <2>1. CASE r.tier = Blank
    <3>1. t = {<<"gcp.project.id", r.project>>, <<"gcp.memorystore.instance.id", r.name>>,
              <<"gcp.memorystore.region", r.location>>}
      BY <1>2, <2>1 DEF Optional
    <3>. QED
      BY <2>1, <3>1 DEF Says, Attributes
  <2>2. CASE r.tier # Blank
    <3>1. t = {<<"gcp.project.id", r.project>>, <<"gcp.memorystore.instance.id", r.name>>,
              <<"gcp.memorystore.region", r.location>>, <<gate, r.tier>>}
      BY <1>2, <2>2 DEF Optional
    <3>2. Attributes(t) = names \cup {gate}
      BY <3>1 DEF Attributes
    <3>3. Needed(r) = names \cup {gate}
      BY <1>1, <3>2 DEF Needed
    <3>. QED
      BY <2>2, <3>1, <3>2, <3>3 DEF Says
  <2>. QED
    BY <2>1, <2>2
<1>. HIDE DEF t
<1>4. AddressFrom(Excluding(t, excludes), <<"gcp.project.id", "gcp.memorystore.region",
                                            "gcp.memorystore.instance.id">>) =
        IF names \cap excludes # {} THEN None ELSE <<r.project, r.location, r.name>>
  BY <1>1, <1>3, TextsAreGiven, AddressOfThree
<1>5. mustHave(Excluding(t, excludes), gate) =
        IF r.tier = Blank \/ gate \in excludes THEN Blank ELSE r.tier
  BY <1>3, ReadAsWritten, UnwrittenIsEmpty
<1>6. PrepareKind(r.kind, Excluding(t, excludes)) =
        IF r.tier = "STANDARD_HA" /\ (names \cup {gate}) \cap excludes = {}
          THEN Coordinates(r) ELSE None
  BY <1>1, <1>4, <1>5, BlankIsNoWord DEF PrepareKind, PrepareRedis, Coordinates
<1>7. Supported(r) =>
        (Needed(r) \subseteq Attributes(Excluding(t, excludes))
           <=> (names \cup {gate}) \cap excludes = {})
  BY <1>1, <1>3, Left, BlankIsNoWord
<1>. QED
  BY <1>1, <1>6, <1>7 DEF Prepared

\* VMs: three attributes, whose values are not looked at.
LEMMA PreparedVm ==
  ASSUME NEW r \in Vms, NEW excludes PROVE Prepared(r, excludes)
<1>. DEFINE t == instanceToTarget(r)
            names == {"gcp-vm.name", "gcp.zone", "gcp.project.id"}
<1>1. r.kind = "vm" /\ toTarget(r) = t /\ Supported(r)
  BY DEF Vms, toTarget, Supported
<1>2. t = {<<"gcp.project.id", r.project>>, <<"gcp-vm.name", r.name>>, <<"gcp.zone", r.zone>>,
           <<"gcp.region", getRegion(r.zone)>>}
  BY DEF instanceToTarget, OfProject
<1>3. Needed(r) = names /\ Needed(r) \subseteq Attributes(t)
  BY <1>1, <1>2 DEF Needed, Attributes
<1>4. /\ Says(t, "gcp.project.id", r.project) /\ Says(t, "gcp-vm.name", r.name)
      /\ Says(t, "gcp.zone", r.zone)
  BY <1>2 DEF Says
<1>. HIDE DEF t
<1>5. Needed(r) \subseteq Attributes(Excluding(t, excludes)) <=> names \cap excludes = {}
  BY <1>3, Left
<1>6. names \cap excludes = {} =>
        /\ mustHave(Excluding(t, excludes), "gcp.project.id") = r.project
        /\ mustHave(Excluding(t, excludes), "gcp.zone") = r.zone
        /\ mustHave(Excluding(t, excludes), "gcp-vm.name") = r.name
  BY <1>4, ReadAsWritten
<1>. QED
  BY <1>1, <1>3, <1>5, <1>6 DEF Prepared, PrepareKind, PrepareVm, Coordinates

\* Whatever can be attacked, Prepare understands as its discovery wrote it.
LEMMA PreparedAsDiscovered ==
  ASSUME NEW r \in Resources, r.kind \in Attackable, NEW excludes PROVE Prepared(r, excludes)
BY KindsOfResources, PreparedVm, PreparedMig, PreparedNat, PreparedNodePool, PreparedSql,
   PreparedRedis DEF Attackable

-------------------------------------------------------------------------------
(* What a target says of its resource                                        *)

\* Either the attribute has this value, or it was excluded.
Published(r, excludes, a, v) ==
  \/ mustHave(Excluding(toTarget(r), excludes), a) = v
  \/ a \in Attributes(toTarget(r)) \ Attributes(Excluding(toTarget(r), excludes))

\* What is written is published, or excluded.
LEMMA PublishedAsWritten ==
  ASSUME NEW r, NEW excludes, NEW a, NEW v, Says(toTarget(r), a, v)
  PROVE  Published(r, excludes, a, v)
BY ReadAsWritten, Zenon DEF Published

\* What is not written reads as blank.
LEMMA PublishedAsBlank ==
  ASSUME NEW r, NEW excludes, NEW a, a \notin Attributes(toTarget(r))
  PROVE  Published(r, excludes, a, Blank)
BY UnwrittenIsEmpty, Zenon DEF Published

\* The region of a VM is that of its zone.
LEMMA PublishedVm ==
  ASSUME NEW r \in Vms
  PROVE  Says(toTarget(r), "gcp.region", RegionOf[r.zone])
<1>1. toTarget(r) = instanceToTarget(r) /\ getRegion(r.zone) = RegionOf[r.zone]
  BY ZonesAndRegions DEF toTarget, Vms
<1>. QED
  BY <1>1 DEF Says, instanceToTarget, OfProject

\* The scope of a MIG is that of its key.
LEMMA PublishedMig ==
  ASSUME NEW r \in Migs
  PROVE  Says(toTarget(r), "gcp.mig.scope",
              IF r.key[1] = "zones" THEN "zonal"
              ELSE IF r.key[1] = "regions" THEN "regional" ELSE "unknown")
<1>1. toTarget(r) = toMigTarget(r) /\ r.key \in Keys
  BY DEF toTarget, Migs
<1>2. Says(toTarget(r), "gcp.mig.scope", parseScope(r.key))
  BY <1>1 DEF Says, toMigTarget, OfProject
<1>. QED
  BY <1>1, <1>2, ScopesOfKeys

\* A disk has a zone, a region or neither.
LEMMA PublishedDisk ==
  ASSUME NEW r \in Disks, NEW excludes
  PROVE  /\ Published(r, excludes, "gcp.persistent-disk.zone",
                      IF Last(r.key) \in Zones THEN Last(r.key) ELSE Blank)
         /\ Published(r, excludes, "gcp.persistent-disk.region",
                      IF Last(r.key) \in Regions THEN Last(r.key) ELSE Blank)
<1>. DEFINE t == toTarget(r)
            zone == "gcp.persistent-disk.zone"
            region == "gcp.persistent-disk.region"
<1>1. r.key \in Keys
  BY DEF Disks
<1>2. t = {<<"gcp.project.id", r.project>>, <<"gcp.persistent-disk.name", r.name>>}
            \cup Optional(zone, classifyScope(r.key)[1])
            \cup Optional(region, classifyScope(r.key)[2])
  BY DEF Disks, toTarget, toDiskTarget, OfProject
<1>3. "global" \notin Locations /\ Zones \cap Regions = {} /\ \A l \in Locations : l # Blank
  BY NamesAssumption, ZonesAndRegions
<1>4. CASE r.key[1] = "zones"
  <2>1. classifyScope(r.key) = <<Last(r.key), Blank>> /\ Last(r.key) \in Zones
    BY <1>1, <1>4, ScopesOfKeys
  <2>2. Last(r.key) # Blank /\ Last(r.key) \notin Regions
    BY <1>3, <2>1 DEF Locations
  <2>3. t = {<<"gcp.project.id", r.project>>, <<"gcp.persistent-disk.name", r.name>>,
             <<zone, Last(r.key)>>}
    BY <1>2, <2>1, <2>2 DEF Optional
  <2>4. Says(t, zone, Last(r.key)) /\ region \notin Attributes(t)
    BY <2>3 DEF Says, Attributes
  <2>5. Published(r, excludes, zone, Last(r.key))
    BY <2>4, PublishedAsWritten, Zenon
  <2>6. Published(r, excludes, region, Blank)
    BY <2>4, PublishedAsBlank, Zenon
  <2>. QED
    BY <2>1, <2>2, <2>5, <2>6
<1>5. CASE r.key[1] = "regions"
  <2>1. classifyScope(r.key) = <<Blank, Last(r.key)>> /\ Last(r.key) \in Regions
    BY <1>1, <1>5, ScopesOfKeys
  <2>2. Last(r.key) # Blank /\ Last(r.key) \notin Zones
    BY <1>3, <2>1 DEF Locations
  <2>3. t = {<<"gcp.project.id", r.project>>, <<"gcp.persistent-disk.name", r.name>>,
             <<region, Last(r.key)>>}
    BY <1>2, <2>1, <2>2 DEF Optional
  <2>4. Says(t, region, Last(r.key)) /\ zone \notin Attributes(t)
    BY <2>3 DEF Says, Attributes
  <2>5. Published(r, excludes, region, Last(r.key))
    BY <2>4, PublishedAsWritten, Zenon
  <2>6. Published(r, excludes, zone, Blank)
    BY <2>4, PublishedAsBlank, Zenon
  <2>. QED
    BY <2>1, <2>2, <2>5, <2>6
<1>6. CASE r.key[1] = "global"
  <2>1. classifyScope(r.key) = <<Blank, Blank>> /\ Last(r.key) = "global"
    BY <1>1, <1>6, ScopesOfKeys
  <2>2. Last(r.key) \notin Zones /\ Last(r.key) \notin Regions
    BY <1>3, <2>1 DEF Locations
  <2>3. t = {<<"gcp.project.id", r.project>>, <<"gcp.persistent-disk.name", r.name>>}
    BY <1>2, <2>1 DEF Optional
  <2>4. zone \notin Attributes(t) /\ region \notin Attributes(t)
    BY <2>3 DEF Attributes
  <2>5. Published(r, excludes, zone, Blank)
    BY <2>4, PublishedAsBlank, Zenon
  <2>6. Published(r, excludes, region, Blank)
    BY <2>4, PublishedAsBlank, Zenon
  <2>. QED
    BY <2>2, <2>5, <2>6
<1>. QED
  BY <1>1, <1>4, <1>5, <1>6, ScopesOfKeys

\* What is taken out of a full name.
LEMMA PublishedNames ==
  ASSUME NEW r \in Resources
  PROVE  /\ r.kind = "redis" =>
              /\ Says(toTarget(r), "gcp.memorystore.instance.id", r.name)
              /\ Says(toTarget(r), "gcp.memorystore.region", r.location)
         /\ r.kind = "spanner" => Says(toTarget(r), "gcp.spanner.instance.name", r.name)
         /\ r.kind = "topic" => Says(toTarget(r), "gcp.pubsub.topic.name", r.name)
         /\ r.kind = "subscription" =>
              /\ Says(toTarget(r), "gcp.pubsub.subscription.name", r.name)
              /\ Says(toTarget(r), "gcp.pubsub.subscription.delivery-type", r.sink)
<1>1. ASSUME r.kind = "redis"
      PROVE  /\ Says(toTarget(r), "gcp.memorystore.instance.id", r.name)
             /\ Says(toTarget(r), "gcp.memorystore.region", r.location)
  <2>1. FullName(r)[4] = r.location /\ FullName(r)[6] = r.name
    BY <1>1, FullNames
  <2>2. toTarget(r) = OfProject(r) \cup {<<"gcp.memorystore.instance.id", r.name>>,
                                         <<"gcp.memorystore.region", r.location>>}
                        \cup Optional("gcp.memorystore.tier", r.tier)
    BY <1>1, <2>1 DEF toTarget, toRedisTarget
  <2>. QED
    BY <2>2 DEF Says, OfProject, Optional
<1>2. ASSUME r.kind \in {"spanner", "topic", "subscription"} PROVE Last(FullName(r)) = r.name
  <2>1. FullName(r) = <<"projects", r.project, Collection(r.kind), r.name>>
    BY <1>2, FullNames
  <2>. QED
    BY <2>1 DEF Last
<1>3. ASSUME r.kind = "spanner" PROVE Says(toTarget(r), "gcp.spanner.instance.name", r.name)
  BY <1>2, <1>3 DEF toTarget, toSpannerTarget, Says, OfProject
<1>4. ASSUME r.kind = "topic" PROVE Says(toTarget(r), "gcp.pubsub.topic.name", r.name)
  BY <1>2, <1>4 DEF toTarget, toTopicTarget, Says, OfProject
<1>5. ASSUME r.kind = "subscription"
      PROVE  /\ Says(toTarget(r), "gcp.pubsub.subscription.name", r.name)
             /\ Says(toTarget(r), "gcp.pubsub.subscription.delivery-type", r.sink)
  <2>1. deliveryType(r) = r.sink
    BY <1>5, KindsOfResources DEF deliveryType, IsPush
  <2>2. toTarget(r) = {<<"gcp.project.id", r.project>>,
                       <<"gcp.pubsub.subscription.name", r.name>>,
                       <<"gcp.pubsub.subscription.delivery-type", r.sink>>}
    BY <1>2, <1>5, <2>1 DEF toTarget, toSubscriptionTarget, OfProject
  <2>. QED
    BY <2>2 DEF Says
<1>. QED
  BY <1>1, <1>3, <1>4, <1>5

\* A Cloud Run service, also one scaled to zero.
LEMMA PublishedService ==
  ASSUME NEW r \in Resources, r.kind = "service", NEW excludes
  PROVE  /\ Published(r, excludes, "gcp.cloudrun.service.name", r.name)
         /\ Published(r, excludes, "gcp.cloudrun.service.location", r.location)
         /\ Published(r, excludes, "gcp.cloudrun.service.scaling.min-instance-count",
                      IF r.scaling \in {"0", "1"} THEN r.scaling ELSE Blank)
<1>. DEFINE t == toTarget(r)
            min == "gcp.cloudrun.service.scaling.min-instance-count"
<1>1. r.location \in Locations /\ r.location # Blank /\ r.scaling \in {"nil", "0", "1"}
  BY KindsOfResources, NamesAssumption DEF Services, Locations
<1>2. FullName(r) = <<"projects", r.project, "locations", r.location, "services", r.name>>
  BY FullNames DEF Collection
<1>3. parseServiceName(FullName(r)) = <<r.location, r.name>>
  BY <1>1, <1>2, ParsedServiceNames
<1>4. t = {<<"gcp.project.id", r.project>>, <<"gcp.cloudrun.service.name", r.name>>,
           <<"gcp.cloudrun.service.location", r.location>>}
            \cup Optional(min, IF r.scaling = "nil" THEN Blank ELSE r.scaling)
  BY <1>1, <1>3 DEF toTarget, toServiceTarget, OfProject, Optional
<1>5. /\ Says(t, "gcp.cloudrun.service.name", r.name)
      /\ Says(t, "gcp.cloudrun.service.location", r.location)
  BY <1>4 DEF Says, Optional
<1>6. Published(r, excludes, "gcp.cloudrun.service.name", r.name)
  BY <1>5, PublishedAsWritten, Zenon
<1>7. Published(r, excludes, "gcp.cloudrun.service.location", r.location)
  BY <1>5, PublishedAsWritten, Zenon
<1>8. CASE r.scaling = "nil"
  <2>1. min \notin Attributes(t)
    BY <1>4, <1>8 DEF Attributes, Optional
  <2>2. Published(r, excludes, min, Blank)
    BY <2>1, PublishedAsBlank, Zenon
  <2>. QED
    BY <1>6, <1>7, <1>8, <2>2
<1>9. CASE r.scaling \in {"0", "1"}
  <2>1. Says(t, min, r.scaling)
    BY <1>4, <1>9, BlankIsNoWord DEF Says, Optional
  <2>2. Published(r, excludes, min, r.scaling)
    BY <2>1, PublishedAsWritten, Zenon
  <2>. QED
    BY <1>6, <1>7, <1>9, <2>2
<1>. QED
  BY <1>1, <1>8, <1>9

\* A control plane that is open is published as open.
LEMMA PublishedCluster ==
  ASSUME NEW r \in Clusters
  PROVE  /\ Says(toTarget(r), "gcp.gke.cluster.location-type",
                 IF r.location \in Zones THEN "zonal" ELSE "regional")
         /\ ~r.private /\ (r.config # "enabled" \/ r.blocks \subseteq Wildcards \cup {Blank}) =>
              <<"gcp.gke.cluster.api-server-open-to-internet", "true">> \in toTarget(r)
<1>1. /\ r.location \in Locations
      /\ classifyLocation(r.location) = IF r.location \in Zones THEN "zonal" ELSE "regional"
  BY ClassifiedLocations DEF Clusters, Locations
<1>2. toTarget(r) = toClusterTarget(r)
  BY DEF Clusters, toTarget
<1>. QED
  BY <1>1, <1>2 DEF toClusterTarget, OfProject, Says, Restricts

\* All of the above, for the kind that the resource has.
LEMMA TruthIsPublished ==
  ASSUME NEW r \in Resources, NEW excludes, NEW a \in Truth(r)
  PROVE  Published(r, excludes, a[1], a[2])
<1>. USE KindsOfResources
<1>1. CASE r.kind = "vm"
  <2>1. a = <<"gcp.region", RegionOf[r.zone]>>
    BY <1>1 DEF Truth
  <2>2. Published(r, excludes, "gcp.region", RegionOf[r.zone])
    BY <1>1, PublishedVm, PublishedAsWritten
  <2>. QED
    BY <2>1, <2>2
<1>2. CASE r.kind = "mig"
  <2>. DEFINE v == IF r.key[1] = "zones" THEN "zonal"
                   ELSE IF r.key[1] = "regions" THEN "regional" ELSE "unknown"
  <2>1. a = <<"gcp.mig.scope", v>>
    BY <1>2 DEF Truth
  <2>2. Says(toTarget(r), "gcp.mig.scope", v)
    BY <1>2, PublishedMig
  <2>. HIDE DEF v
  <2>3. Published(r, excludes, "gcp.mig.scope", v)
    BY <2>2, PublishedAsWritten, Zenon
  <2>. QED
    BY <2>1, <2>3
<1>3. CASE r.kind = "disk"
  <2>. DEFINE v == IF Last(r.key) \in Zones THEN Last(r.key) ELSE Blank
              w == IF Last(r.key) \in Regions THEN Last(r.key) ELSE Blank
  <2>1. a = <<"gcp.persistent-disk.zone", v>> \/ a = <<"gcp.persistent-disk.region", w>>
    BY <1>3 DEF Truth
  <2>2. /\ Published(r, excludes, "gcp.persistent-disk.zone", v)
        /\ Published(r, excludes, "gcp.persistent-disk.region", w)
    BY <1>3, PublishedDisk
  <2>. HIDE DEF v, w
  <2>. QED
    BY <2>1, <2>2
<1>4. CASE r.kind \in {"redis", "spanner", "topic", "subscription"}
  <2>1. Says(toTarget(r), a[1], a[2])
    BY <1>4, PublishedNames DEF Truth
  <2>. QED
    BY <2>1, PublishedAsWritten, Zenon
<1>5. CASE r.kind = "service"
  <2>. DEFINE v == IF r.scaling \in {"0", "1"} THEN r.scaling ELSE Blank
              min == "gcp.cloudrun.service.scaling.min-instance-count"
  <2>1. \/ a = <<"gcp.cloudrun.service.name", r.name>>
        \/ a = <<"gcp.cloudrun.service.location", r.location>>
        \/ a = <<min, v>>
    BY <1>5 DEF Truth
  <2>2. /\ Published(r, excludes, "gcp.cloudrun.service.name", r.name)
        /\ Published(r, excludes, "gcp.cloudrun.service.location", r.location)
        /\ Published(r, excludes, min, v)
    BY <1>5, PublishedService
  <2>. HIDE DEF v, min
  <2>. QED
    BY <2>1, <2>2
<1>6. CASE r.kind = "cluster"
  <2>. DEFINE v == IF r.location \in Zones THEN "zonal" ELSE "regional"
  <2>1. a = <<"gcp.gke.cluster.location-type", v>>
    BY <1>6 DEF Truth
  <2>2. Says(toTarget(r), "gcp.gke.cluster.location-type", v)
    BY <1>6, PublishedCluster
  <2>. HIDE DEF v
  <2>3. Published(r, excludes, "gcp.gke.cluster.location-type", v)
    BY <2>2, PublishedAsWritten, Zenon
  <2>. QED
    BY <2>1, <2>3
<1>7. CASE r.kind \in {"nat", "nodepool", "sql"}
  BY <1>7 DEF Truth
<1>. QED
  BY <1>1, <1>2, <1>3, <1>4, <1>5, <1>6, <1>7

-------------------------------------------------------------------------------
(* From discovery to Start                                                   *)

\* What an attack holds of its target: until Start it is what the discovery wrote
\* of one resource, or what the excludes left of it, and nothing else.
TargetInv ==
  /\ phase = "new" => resource = None
  /\ phase # "new" =>
       /\ resource \in Resources
       /\ \E excludes \in Excludes(resource) : target = Excluding(toTarget(resource), excludes)
       /\ restarts = 0 => resource.project \in configured

\* The address is what Prepare makes of that target; without a restart a refusal
\* has its reason in the target alone.
AddressInv ==
  /\ phase \in {"new", "discovered", "refused"} => address = None
  /\ phase \in {"prepared", "called", "failed"} =>
       /\ resource.kind \in Attackable
       /\ address = PrepareKind(resource.kind, target)
       /\ address # None
  /\ phase = "refused" =>
       /\ resource.kind \in Attackable
       /\ PrepareKind(resource.kind, target) = None \/ restarts > 0
  /\ used # None => phase = "called" /\ used = address[1]

\* What every step keeps.
Inv ==
  /\ phase \in {"new", "discovered", "prepared", "refused", "called", "failed"}
  /\ restarts \in Nat
  /\ TargetInv
  /\ AddressInv

\* Before the discovery there is neither target nor address.
LEMMA InitInv == Init => Inv
BY DEF Init, Inv, TargetInv, AddressInv

\* What is a tuple of names is not None.
LEMMA NamesAreNotNone ==
  ASSUME NEW s \in Seq(Projects \cup Locations \cup Names \cup {"zonal", "regional", "unknown"})
  PROVE  s # None
BY NoneAssumption, Zenon

\* A resource has coordinates, and they begin with its project.
LEMMA CoordinatesAreGiven ==
  ASSUME NEW r \in Resources, r.kind \in Attackable
  PROVE  Coordinates(r) # None /\ Coordinates(r)[1] = r.project
<1>. DEFINE T == Projects \cup Locations \cup Names \cup {"zonal", "regional", "unknown"}
<1>. USE KindsOfResources
<1>1. CASE r.kind = "mig"
  <2>1. Coordinates(r) = <<r.project, r.key, r.name>>
    BY <1>1 DEF Coordinates
  <2>2. Coordinates(r) \in Projects \X Keys \X Names
    BY <1>1, <2>1 DEF Migs
  <2>. QED
    BY <2>1, <2>2, NoneAssumption
<1>2. CASE r.kind = "vm"
  <2>1. Coordinates(r) = <<r.project, r.zone, r.name>>
    BY <1>2 DEF Coordinates
  <2>2. r.project \in T /\ r.zone \in T /\ r.name \in T
    BY <1>2 DEF Vms, Locations
  <2>. HIDE DEF T
  <2>3. Coordinates(r) \in Seq(T)
    BY <2>1, <2>2
  <2>4. Coordinates(r) # None
    BY <2>3, NamesAreNotNone, Zenon DEF T
  <2>. QED
    BY <2>1, <2>4
<1>3. CASE r.kind = "nat"
  <2>1. Coordinates(r) = <<r.project, r.key[2], r.router, r.name>>
    BY <1>3 DEF Coordinates
  <2>2. r.project \in T /\ r.key[2] \in T /\ r.router \in T /\ r.name \in T
    BY <1>3 DEF Nats, Locations
  <2>. HIDE DEF T
  <2>3. Coordinates(r) \in Seq(T)
    BY <2>1, <2>2
  <2>4. Coordinates(r) # None
    BY <2>3, NamesAreNotNone, Zenon DEF T
  <2>. QED
    BY <2>1, <2>4
<1>4. CASE r.kind = "nodepool"
  <2>1. Coordinates(r) = <<r.project, r.location, r.cluster, r.name>>
    BY <1>4 DEF Coordinates
  <2>2. r.project \in T /\ r.location \in T /\ r.cluster \in T /\ r.name \in T
    BY <1>4 DEF NodePools
  <2>. HIDE DEF T
  <2>3. Coordinates(r) \in Seq(T)
    BY <2>1, <2>2
  <2>4. Coordinates(r) # None
    BY <2>3, NamesAreNotNone, Zenon DEF T
  <2>. QED
    BY <2>1, <2>4
<1>5. CASE r.kind = "sql"
  <2>1. Coordinates(r) = <<r.project, r.name>>
    BY <1>5 DEF Coordinates
  <2>2. r.project \in T /\ r.name \in T
    BY <1>5 DEF Sqls
  <2>. HIDE DEF T
  <2>3. Coordinates(r) \in Seq(T)
    BY <2>1, <2>2
  <2>4. Coordinates(r) # None
    BY <2>3, NamesAreNotNone, Zenon DEF T
  <2>. QED
    BY <2>1, <2>4
<1>6. CASE r.kind = "redis"
  <2>1. Coordinates(r) = <<r.project, r.location, r.name>>
    BY <1>6 DEF Coordinates
  <2>2. r.project \in T /\ r.location \in T /\ r.name \in T
    BY <1>6 DEF Redises, Locations
  <2>. HIDE DEF T
  <2>3. Coordinates(r) \in Seq(T)
    BY <2>1, <2>2
  <2>4. Coordinates(r) # None
    BY <2>3, NamesAreNotNone, Zenon DEF T
  <2>. QED
    BY <2>1, <2>4
<1>. QED
  BY <1>1, <1>2, <1>3, <1>4, <1>5, <1>6 DEF Attackable

\* What Prepare makes of the target that is held, in terms of the resource.
LEMMA PreparedIsUnderstood ==
  ASSUME Inv, phase # "new", resource.kind \in Attackable
  PROVE  LET a == PrepareKind(resource.kind, target) IN
           /\ a # None => /\ a = Coordinates(resource) /\ a[1] = resource.project
                          /\ Supported(resource) /\ Needed(resource) \subseteq Attributes(target)
           /\ a = None => ~(Supported(resource) /\ Needed(resource) \subseteq Attributes(target))
<1>1. PICK excludes \in Excludes(resource) : target = Excluding(toTarget(resource), excludes)
  BY DEF Inv, TargetInv
<1>2. resource \in Resources
  BY DEF Inv, TargetInv
<1>3. Prepared(resource, excludes)
  BY <1>2, PreparedAsDiscovered
<1>. QED
  BY <1>1, <1>2, <1>3, CoordinatesAreGiven DEF Prepared

\* Every step keeps the target and the address what they are.
LEMMA NextInv == Inv /\ [Next]_vars => Inv'
<1>. SUFFICES ASSUME Inv, [Next]_vars PROVE Inv'
  OBVIOUS
<1>1. CASE Discover
  BY <1>1 DEF Discover, Inv, TargetInv, AddressInv
<1>2. CASE Prepare
  <2>. DEFINE a == PrepareKind(resource.kind, target)
  <2>1. /\ phase = "discovered" /\ phase' \in {"prepared", "refused"}
        /\ UNCHANGED <<configured, resource, target, used, restarts>>
        /\ resource.kind \in Attackable
    BY <1>2 DEF Prepare
  <2>2. used = None /\ address = None
    BY <2>1 DEF Inv, AddressInv
  <2>3. TargetInv'
    BY <2>1 DEF Inv, TargetInv
  <2>4. CASE a # None /\ (resource.kind \in AsksInPrepare => HasAccess(a[1]))
    <3>1. phase' = "prepared" /\ address' = a
      BY <1>2, <2>4 DEF Prepare
    <3>. QED
      BY <2>1, <2>2, <2>3, <2>4, <3>1 DEF Inv, AddressInv
  <2>5. CASE ~(a # None /\ (resource.kind \in AsksInPrepare => HasAccess(a[1])))
    <3>1. phase' = "refused" /\ address' = address
      BY <1>2, <2>5 DEF Prepare
    <3>2. a = None \/ restarts > 0
      <4>1. ASSUME a # None, restarts = 0 PROVE HasAccess(a[1])
        BY <2>1, <4>1, PreparedIsUnderstood DEF Inv, TargetInv, HasAccess
      <4>. QED
        BY <2>5, <4>1 DEF Inv
    <3>. QED
      BY <2>1, <2>2, <2>3, <3>1, <3>2 DEF Inv, AddressInv
  <2>. QED
    BY <2>4, <2>5
<1>3. CASE Start
  BY <1>3 DEF Start, Inv, TargetInv, AddressInv
<1>4. CASE Restart
  BY <1>4 DEF Restart, Inv, TargetInv, AddressInv
<1>5. CASE UNCHANGED vars
  BY <1>5 DEF vars, Inv, TargetInv, AddressInv
<1>. QED
  BY <1>1, <1>2, <1>3, <1>4, <1>5 DEF Next

\* The two together.
LEMMA AlwaysInv == Spec => []Inv
BY InitInv, NextInv, PTL DEF Spec

\* Whatever the excludes leave, an attack addresses the resource that was
\* discovered, with the access of that resource's own project.
THEOREM AddressesItsTargetHolds == Spec => []AddressesItsTarget
<1>1. Inv => AddressesItsTarget
  BY PreparedIsUnderstood DEF Inv, AddressInv, AddressesItsTarget
<1>. QED
  BY <1>1, AlwaysInv, PTL

\* Discovery and attack agree on the attributes: what can be attacked is refused
\* only for want of one of them or of access, and what cannot is never accepted.
THEOREM RefusedExactlyIfUnfitHolds == Spec => []RefusedExactlyIfUnfit
<1>1. Inv => RefusedExactlyIfUnfit
  BY PreparedIsUnderstood DEF Inv, AddressInv, RefusedExactlyIfUnfit
<1>. QED
  BY <1>1, AlwaysInv, PTL

\* No two resources of a kind share the id of their targets.
THEOREM TargetsAreDistinctHolds == Spec => []TargetsAreDistinct
<1>1. Inv => TargetsAreDistinct
  BY IdsAreDistinct DEF Inv, TargetInv, TargetsAreDistinct
<1>. QED
  BY <1>1, AlwaysInv, PTL

\* Targets say of their resource what is so, whatever projects, places and
\* resources are called.
THEOREM PublishedAsItIsHolds == Spec => []PublishedAsItIs
<1>1. Inv => PublishedAsItIs
  <2>. SUFFICES ASSUME Inv, resource # None PROVE PublishedAsItIs
    BY DEF PublishedAsItIs
  <2>1. resource \in Resources
    BY DEF Inv, TargetInv
  <2>2. PICK excludes \in Excludes(resource) : target = Excluding(toTarget(resource), excludes)
    BY DEF Inv, TargetInv
  <2>3. \A a \in Truth(resource) : Published(resource, excludes, a[1], a[2])
    BY <2>1, TruthIsPublished
  <2>4. resource.kind = "cluster" => target = toTarget(resource) /\ resource \in Clusters
    BY <2>1, <2>2, KindsOfResources DEF Excludes, Attackable, Excluding
  <2>. QED
    BY <2>2, <2>3, <2>4, PublishedCluster DEF Published, PublishedAsItIs
<1>. QED
  BY <1>1, AlwaysInv, PTL

===============================================================================
