-------------------------------- MODULE Targets --------------------------------
(***************************************************************************)
(* What the discoveries make of resources: the toTarget functions of all   *)
(* twelve kinds.  A target has an id and named attributes; after that      *)
(* nothing else is known of the resource.  Names and locations often have  *)
(* to be taken out of paths, aggregated-list keys and URLs first.          *)
(*                                                                         *)
(* A path is the sequence of its segments, and the map of attributes the   *)
(* set of its pairs <<name, value>>.  Attributes that are a field of the   *)
(* resource copied under another name, and that no attack reads, are left  *)
(* out; so are labels.                                                     *)
(***************************************************************************)

EXTENDS Naturals, Sequences, SequencesExt

CONSTANTS
  Projects, Names,   \* ids and names; the same names recur everywhere
  Zones, Regions,
  RegionOf,          \* the region of each zone
  Segments,          \* of a zone's or region's name, between its hyphens
  Letters            \* segments of one character

Locations == Zones \cup Regions

\* The text of what is not set.
Blank == ""

\* Nothing is without a name, and no place is called like a word of the paths.
ASSUME NamesAssumption ==
  /\ Blank \notin Projects \cup Locations \cup Names
  /\ {"locations", "global"} \cap Locations = {}

\* "Zones have the form <region>-<letter> [...] Regions have no trailing -letter."
ASSUME NamingAssumption ==
  /\ Segments \in [Locations -> Seq(STRING)]
  /\ \A l, m \in Locations : Segments[l] = Segments[m] => l = m
  /\ RegionOf \in [Zones -> Regions]
  /\ \A r \in Regions : Segments[r] # <<>> /\ Last(Segments[r]) \notin Letters
  /\ \A z \in Zones : \E l \in Letters : Segments[z] = Append(Segments[RegionOf[z]], l)

-------------------------------------------------------------------------------
(* Resources as the services list them                                       *)

\* Keys of an aggregated list.
Keys == ({"zones"} \X Zones) \cup ({"regions"} \X Regions) \cup {<<"global">>}

Vms == [kind : {"vm"}, project : Projects, zone : Zones, name : Names]
Migs == [kind : {"mig"}, project : Projects, name : Names, key : Keys]
Nats == [kind : {"nat"}, project : Projects, key : {"regions"} \X Regions, router : Names,
         name : Names]
NodePools == [kind : {"nodepool"}, project : Projects, location : Locations,
              cluster : Names, name : Names]
Sqls == [kind : {"sql"}, project : Projects, name : Names,
         availability : {"REGIONAL", "ZONAL", Blank}]
Redises == [kind : {"redis"}, project : Projects, location : Regions, name : Names,
            tier : {"STANDARD_HA", "BASIC", Blank}]
Disks == [kind : {"disk"}, project : Projects, name : Names, key : Keys]
Spanners == [kind : {"spanner"}, project : Projects, name : Names]
Topics == [kind : {"topic"}, project : Projects, name : Names]

\* A subscription delivers to at most one sink; whatever it is, there may be a
\* PushConfig that has no endpoint.
Subscriptions == [kind : {"subscription"}, project : Projects, name : Names,
                  pushConfig : BOOLEAN,
                  sink : {"pull", "push", "bigquery", "cloud-storage", "bigtable"}]

\* scaling: "nil", or the MinInstanceCount of Scaling.
Services == [kind : {"service"}, project : Projects, location : Regions, name : Names,
             scaling : {"nil", "0", "1"}]

\* private: EnablePrivateEndpoint; config: MasterAuthorizedNetworksConfig; blocks: its
\* CIDRs, Blank for a nil or empty one, left over ones of a disabled config included.
Wildcards == {"0.0.0.0/0", "::/0"}
Clusters == [kind : {"cluster"}, project : Projects, location : Locations, name : Names,
             private : BOOLEAN, config : {"nil", "disabled", "enabled"},
             blocks : SUBSET ({Blank, "narrow"} \cup Wildcards)]

Resources ==
  Vms \cup Migs \cup Nats \cup NodePools \cup Sqls \cup Redises \cup Disks \cup Spanners
  \cup Topics \cup {s \in Subscriptions : s.sink = "push" => s.pushConfig} \cup Services
  \cup {c \in Clusters : c.config = "nil" => c.blocks = {}}

\* The coordinates by which the service knows a resource, its project first.
Coordinates(r) ==
  CASE r.kind = "vm" -> <<r.project, r.zone, r.name>>
    [] r.kind \in {"mig", "disk"} -> <<r.project, r.key, r.name>>
    [] r.kind = "nat" -> <<r.project, r.key[2], r.router, r.name>>
    [] r.kind = "nodepool" -> <<r.project, r.location, r.cluster, r.name>>
    [] r.kind \in {"redis", "service", "cluster"} -> <<r.project, r.location, r.name>>
    [] r.kind \in {"sql", "spanner", "topic", "subscription"} -> <<r.project, r.name>>

\* The full name, where the service gives one.
Collection(kind) ==
  CASE kind \in {"redis", "spanner"} -> "instances"
    [] kind = "service" -> "services"
    [] kind = "topic" -> "topics"
    [] kind = "subscription" -> "subscriptions"
FullName(r) ==
  IF "location" \in DOMAIN r
    THEN <<"projects", r.project, "locations", r.location, Collection(r.kind), r.name>>
    ELSE <<"projects", r.project, Collection(r.kind), r.name>>

\* The self link of what is listed under a key: a MIG, a disk or a router.
SelfLink(r, collection, name) == <<"projects", r.project>> \o r.key \o <<collection, name>>

-------------------------------------------------------------------------------
(* Ids of targets                                                            *)

ClusterPath(project, location, name) ==
  <<"projects", project, "locations", location, "clusters", name>>

\* A mistake: clusters of one name in two locations are taken for one.
IdOfName(r) ==
  IF r.kind = "cluster" THEN <<"projects", r.project, "clusters", r.name>> ELSE Coordinates(r)

\* The number of a VM is its own; Coordinates stand for it.
Id(r) ==
  CASE r.kind = "vm" -> Coordinates(r)
    [] r.kind = "mig" -> SelfLink(r, "instanceGroupManagers", r.name)
    [] r.kind = "disk" -> SelfLink(r, "disks", r.name)
    [] r.kind = "nat" -> SelfLink(r, "routers", r.router) \o <<"nats", r.name>>
    [] r.kind = "nodepool" ->
         ClusterPath(r.project, r.location, r.cluster) \o <<"nodePools", r.name>>
    [] r.kind = "cluster" -> ClusterPath(r.project, r.location, r.name)
    [] r.kind = "sql" -> <<"projects", r.project, "instances", r.name>>
    [] OTHER -> FullName(r)

-------------------------------------------------------------------------------
(* Taking names apart                                                        *)

IsZone(location) == Len(Segments[location]) > 1 /\ Last(Segments[location]) \in Letters

\* Without a trailing letter there is no region.
getRegion(zone) ==
  IF IsZone(zone)
    THEN CHOOSE l \in Locations : Segments[l] = Front(Segments[zone])
    ELSE Blank

classifyLocation(location) == IF IsZone(location) THEN "zonal" ELSE "regional"

parseScope(key) ==
  CASE key[1] = "zones" -> "zonal"
    [] key[1] = "regions" -> "regional"
    [] OTHER -> "unknown"

\* <<zone, region>> of a disk.
classifyScope(key) ==
  CASE key[1] = "zones" -> <<key[2], Blank>>
    [] key[1] = "regions" -> <<Blank, key[2]>>
    [] OTHER -> <<Blank, Blank>>

\* What follows the last segment of that name; the mistake: the first.
Following(parts, word) == {i \in 2..Len(parts) : parts[i - 1] = word}
FirstAfter(parts, word) == parts[CHOOSE i \in Following(parts, word) :
                                   \A j \in Following(parts, word) : i <= j]
After(parts, word) == parts[CHOOSE i \in Following(parts, word) :
                              \A j \in Following(parts, word) : i >= j]

\* <<location, name>> of a Cloud Run service.
parseServiceName(full) == <<After(full, "locations"), After(full, "services")>>

\* A PushConfig without an endpoint is no push.
IsPush(s) == s.pushConfig /\ s.sink = "push"
deliveryType(s) == IF IsPush(s) THEN "push" ELSE s.sink

\* At least one network narrower than a wildcard, and the networks are enabled.
Restricts(c) == c.config = "enabled" /\ c.blocks \ (Wildcards \cup {Blank}) # {}

-------------------------------------------------------------------------------
(* Attributes of targets                                                     *)

OfProject(r) == {<<"gcp.project.id", r.project>>}

Optional(attribute, value) == IF value = Blank THEN {} ELSE {<<attribute, value>>}

\* A VM's attributes are all there, some of them empty.
instanceToTarget(r) ==
  OfProject(r) \cup {<<"gcp-vm.name", r.name>>, <<"gcp.zone", r.zone>>,
                     <<"gcp.region", getRegion(r.zone)>>}

toMigTarget(r) ==
  OfProject(r) \cup {<<"gcp.mig.name", r.name>>, <<"gcp.mig.location", Last(r.key)>>,
                     <<"gcp.mig.scope", parseScope(r.key)>>}

toNatTarget(r) ==
  OfProject(r) \cup {<<"gcp.cloud-nat.name", r.name>>, <<"gcp.cloud-nat.router", r.router>>,
                     <<"gcp.cloud-nat.region", Last(r.key)>>}

\* A mistake: one attribute is spelled as the attack does not expect it.
toNodePoolTargetMisspelled(r) ==
  OfProject(r) \cup {<<"gcp.gke.cluster.name", r.cluster>>, <<"gcp.gke.location", r.location>>,
                     <<"gcp.gke.nodepool.name", r.name>>}

toNodePoolTarget(r) ==
  OfProject(r) \cup {<<"gcp.gke.cluster.name", r.cluster>>,
                     <<"gcp.gke.cluster.location", r.location>>,
                     <<"gcp.gke.nodepool.name", r.name>>}

toInstanceTarget(r) ==
  OfProject(r) \cup {<<"gcp.cloudsql.instance.name", r.name>>}
    \cup Optional("gcp.cloudsql.availability-type", r.availability)

\* By position: the name has six segments.
toRedisTarget(r) ==
  OfProject(r) \cup {<<"gcp.memorystore.instance.id", FullName(r)[6]>>,
                     <<"gcp.memorystore.region", FullName(r)[4]>>}
    \cup Optional("gcp.memorystore.tier", r.tier)

toDiskTarget(r) ==
  OfProject(r) \cup {<<"gcp.persistent-disk.name", r.name>>}
    \cup Optional("gcp.persistent-disk.zone", classifyScope(r.key)[1])
    \cup Optional("gcp.persistent-disk.region", classifyScope(r.key)[2])

toSpannerTarget(r) == OfProject(r) \cup {<<"gcp.spanner.instance.name", Last(FullName(r))>>}

toTopicTarget(r) == OfProject(r) \cup {<<"gcp.pubsub.topic.name", Last(FullName(r))>>}

toSubscriptionTarget(r) ==
  OfProject(r) \cup {<<"gcp.pubsub.subscription.name", Last(FullName(r))>>,
                     <<"gcp.pubsub.subscription.delivery-type", deliveryType(r)>>}

\* "0 is a real, targetable value (scale-to-zero), not 'unset'."
toServiceTarget(r) ==
  LET parsed == parseServiceName(FullName(r)) IN
    OfProject(r) \cup {<<"gcp.cloudrun.service.name", parsed[2]>>}
      \cup Optional("gcp.cloudrun.service.location", parsed[1])
      \cup Optional("gcp.cloudrun.service.scaling.min-instance-count",
                    IF r.scaling = "nil" THEN Blank ELSE r.scaling)

toClusterTarget(r) ==
  OfProject(r) \cup {<<"gcp.gke.cluster.name", r.name>>,
                     <<"gcp.gke.cluster.location", r.location>>,
                     <<"gcp.gke.cluster.location-type", classifyLocation(r.location)>>,
                     <<"gcp.gke.cluster.api-server-open-to-internet",
                       IF ~r.private /\ ~Restricts(r) THEN "true" ELSE "false">>}

toTarget(r) ==
  CASE r.kind = "vm" -> instanceToTarget(r)
    [] r.kind = "mig" -> toMigTarget(r)
    [] r.kind = "nat" -> toNatTarget(r)
    [] r.kind = "nodepool" -> toNodePoolTarget(r)
    [] r.kind = "sql" -> toInstanceTarget(r)
    [] r.kind = "redis" -> toRedisTarget(r)
    [] r.kind = "disk" -> toDiskTarget(r)
    [] r.kind = "spanner" -> toSpannerTarget(r)
    [] r.kind = "topic" -> toTopicTarget(r)
    [] r.kind = "subscription" -> toSubscriptionTarget(r)
    [] r.kind = "service" -> toServiceTarget(r)
    [] r.kind = "cluster" -> toClusterTarget(r)

===============================================================================
