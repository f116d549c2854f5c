------------------------------- MODULE Addressing -------------------------------
(***************************************************************************)
(* Whether a target is what it says it is, and whether an attack does what *)
(* it does to the right resource.  A discovery turns a resource into a     *)
(* target (Targets), after which nothing else is known of it; the          *)
(* configured excludes drop some of its attributes; much later the Prepare *)
(* of an attack reads them, refuses or copies an address into its state;   *)
(* Start looks up the credentials of the project and calls the service     *)
(* with that address.  Discovery and attack are written in different files *)
(* and agree on nothing but the attributes' names, and in between the      *)
(* extension may be restarted with other projects.                         *)
(***************************************************************************)

EXTENDS Targets

CONSTANTS
  None,          \* no value
  MaxRestarts    \* bound: restarts of the extension

ASSUME RestartsAssumption == MaxRestarts \in Nat

\* What stands in the place of an address is none.
ASSUME NoneAssumption ==
  /\ None \notin Seq(Projects \cup Locations \cup Names \cup {"zonal", "regional", "unknown"})
  /\ None \notin Projects \X Keys \X Names

Attributes(t) == {a[1] : a \in t}

\* ApplyAttributeExcludes of the discovery kit.
Excluding(t, excludes) == {a \in t : a[1] \notin excludes}

-------------------------------------------------------------------------------
(* Attack: the address Prepare takes from a target, None if it refuses       *)

Values(t, a) == {x[2] : x \in {y \in t : y[1] = a}}

mustHave(t, a) == IF Values(t, a) = {} THEN Blank ELSE CHOOSE v \in Values(t, a) : TRUE

\* The values of some attributes if all of them are given.
AddressFrom(t, attributes) ==
  LET values == [k \in 1..Len(attributes) |-> mustHave(t, attributes[k])]
  IN  IF \E k \in 1..Len(values) : values[k] = Blank THEN None ELSE values

\* This Prepare asks only whether the attributes are there.
PrepareVm(t) ==
  IF {"gcp-vm.name", "gcp.zone", "gcp.project.id"} \subseteq Attributes(t)
    THEN <<mustHave(t, "gcp.project.id"), mustHave(t, "gcp.zone"), mustHave(t, "gcp-vm.name")>>
    ELSE None

\* The scope selects the service that is asked.
PrepareMig(t) ==
  LET address == AddressFrom(t, <<"gcp.project.id", "gcp.mig.scope", "gcp.mig.location",
                                  "gcp.mig.name">>)
  IN  CASE address = None -> None
        [] address # None /\ address[2] = "zonal" ->
             <<address[1], <<"zones", address[3]>>, address[4]>>
        [] address # None /\ address[2] = "regional" ->
             <<address[1], <<"regions", address[3]>>, address[4]>>
        [] OTHER -> None

PrepareNat(t) ==
  AddressFrom(t, <<"gcp.project.id", "gcp.cloud-nat.region", "gcp.cloud-nat.router",
                   "gcp.cloud-nat.name">>)

PrepareNodePool(t) ==
  AddressFrom(t, <<"gcp.project.id", "gcp.gke.cluster.location", "gcp.gke.cluster.name",
                   "gcp.gke.nodepool.name">>)

PrepareSql(t) ==
  IF mustHave(t, "gcp.cloudsql.availability-type") = "REGIONAL"
    THEN AddressFrom(t, <<"gcp.project.id", "gcp.cloudsql.instance.name">>)
    ELSE None

PrepareRedis(t) ==
  IF mustHave(t, "gcp.memorystore.tier") = "STANDARD_HA"
    THEN AddressFrom(t, <<"gcp.project.id", "gcp.memorystore.region",
                          "gcp.memorystore.instance.id">>)
    ELSE None

PrepareKind(kind, t) ==
  CASE kind = "vm" -> PrepareVm(t)
    [] kind = "mig" -> PrepareMig(t)
    [] kind = "nat" -> PrepareNat(t)
    [] kind = "nodepool" -> PrepareNodePool(t)
    [] kind = "sql" -> PrepareSql(t)
    [] kind = "redis" -> PrepareRedis(t)

\* What can be attacked, and what an attack then reads.
Attackable == {"vm", "mig", "nat", "nodepool", "sql", "redis"}

\* The attacks whose Prepare already calls a service, for which it needs access.
AsksInPrepare == {"mig", "nat", "nodepool"}

-------------------------------------------------------------------------------
(* From discovery to Start                                                   *)

VARIABLES
  configured,   \* projects: what GetGcpAccess has access to
  phase,        \* of the one attack considered
  resource,     \* ghost: the resource behind the target
  target,       \* the attributes the agent keeps and hands to Prepare
  address,      \* what Prepare copied into the state
  used,         \* ghost: the project whose credentials Start's call carried
  restarts

vars == <<configured, phase, resource, target, address, used, restarts>>

Init ==
  /\ configured \in SUBSET Projects \ {{}}
  /\ phase = "new"
  /\ resource = None
  /\ target = {}
  /\ address = None
  /\ used = None
  /\ restarts = 0

\* A resource of a configured project is published.  Excludes matter where an
\* attack reads what is left.
Excludes(r) == IF r.kind \in Attackable THEN SUBSET Attributes(toTarget(r)) ELSE {{}}

Discover ==
  /\ phase = "new"
  /\ \E r \in Resources :
       /\ r.project \in configured
       /\ resource' = r
       /\ \E excludes \in Excludes(r) : target' = Excluding(toTarget(r), excludes)
  /\ phase' = "discovered"
  /\ UNCHANGED <<configured, address, used, restarts>>

\* GetGcpAccess.
HasAccess(project) == project \in configured

Prepare ==
  /\ phase = "discovered"
  /\ resource.kind \in Attackable
  /\ LET a == PrepareKind(resource.kind, target) IN
       IF a # None /\ (resource.kind \in AsksInPrepare => HasAccess(a[1]))
         THEN phase' = "prepared" /\ address' = a
         ELSE phase' = "refused" /\ UNCHANGED address
  /\ UNCHANGED <<configured, resource, target, used, restarts>>

\* A mistake: without access to the project another one's is used.
StartWithAny ==
  /\ phase = "prepared"
  /\ \E p \in configured : used' = IF HasAccess(address[1]) THEN address[1] ELSE p
  /\ phase' = "called"
  /\ UNCHANGED <<configured, resource, target, address, restarts>>

Start ==
  /\ phase = "prepared"
  /\ IF HasAccess(address[1])
       THEN phase' = "called" /\ used' = address[1]
       ELSE phase' = "failed" /\ UNCHANGED used
  /\ UNCHANGED <<configured, resource, target, address, restarts>>

\* The extension comes back with other projects; the agent still has the target
\* and the state.
Restart ==
  /\ restarts < MaxRestarts
  /\ restarts' = restarts + 1
  /\ configured' \in SUBSET Projects \ {{}}
  /\ UNCHANGED <<phase, resource, target, address, used>>

Next == Discover \/ Prepare \/ Start \/ Restart

Spec == Init /\ [][Next]_vars

-------------------------------------------------------------------------------
(* Properties                                                                *)

\* Whatever the excludes leave of a target, an attack that accepts it addresses
\* the resource that was discovered and no other, though the same names exist in
\* other projects, locations, routers and clusters; and it calls with the access
\* of that resource's own project.
AddressesItsTarget ==
  /\ address # None => address = Coordinates(resource)
  /\ used # None => used = resource.project

\* What can be attacked: not a MIG of neither scope, nor a database without a
\* standby.
Supported(r) ==
  /\ r.kind = "mig" => r.key[1] \in {"zones", "regions"}
  /\ r.kind = "sql" => r.availability = "REGIONAL"
  /\ r.kind = "redis" => r.tier = "STANDARD_HA"

\* The attributes the attack on a resource reads.
Needed(r) == Attributes(toTarget(r)) \ {"gcp.region"}

\* Discovery and attack agree on the names: a target that is published in full is
\* refused only when the resource cannot be attacked or its project is not
\* configured any more, and a supported resource is never attacked by what is left
\* of a target that lost an attribute it needs.
RefusedExactlyIfUnfit ==
  /\ phase = "refused" /\ Needed(resource) \subseteq Attributes(target) /\ restarts = 0
       => ~Supported(resource)
  /\ address # None => Supported(resource) /\ Needed(resource) \subseteq Attributes(target)

\* The platform keeps targets by type and id; no other resource, of whichever
\* project or location, has the target of this one.
TargetsAreDistinct ==
  resource # None =>
    \A r \in {x \in Resources : x.kind = resource.kind} :
      Id(r) = Id(resource) => Coordinates(r) = Coordinates(resource)

\* What a target must say of a resource, Blank if nothing.
Truth(r) ==
  CASE r.kind = "vm" -> {<<"gcp.region", RegionOf[r.zone]>>}
    [] r.kind = "mig" ->
         {<<"gcp.mig.scope", IF r.key[1] = "zones" THEN "zonal"
                             ELSE IF r.key[1] = "regions" THEN "regional" ELSE "unknown">>}
    [] r.kind = "disk" ->
         {<<"gcp.persistent-disk.zone", IF Last(r.key) \in Zones THEN Last(r.key) ELSE Blank>>,
          <<"gcp.persistent-disk.region", IF Last(r.key) \in Regions THEN Last(r.key) ELSE Blank>>}
    [] r.kind = "redis" ->
         {<<"gcp.memorystore.instance.id", r.name>>, <<"gcp.memorystore.region", r.location>>}
    [] r.kind = "spanner" -> {<<"gcp.spanner.instance.name", r.name>>}
    [] r.kind = "topic" -> {<<"gcp.pubsub.topic.name", r.name>>}
    [] r.kind = "subscription" ->
         {<<"gcp.pubsub.subscription.name", r.name>>,
          <<"gcp.pubsub.subscription.delivery-type", r.sink>>}
    [] r.kind = "service" ->
         {<<"gcp.cloudrun.service.name", r.name>>,
          <<"gcp.cloudrun.service.location", r.location>>,
          <<"gcp.cloudrun.service.scaling.min-instance-count",
            IF r.scaling \in {"0", "1"} THEN r.scaling ELSE Blank>>}
    [] r.kind = "cluster" ->
         {<<"gcp.gke.cluster.location-type",
            IF r.location \in Zones THEN "zonal" ELSE "regional">>}
    [] OTHER -> {}

\* Names, locations, regions and scopes survive being taken out of paths, keys and
\* zone names, also where a project or a resource is called like a word of those
\* paths; a service scaled to zero differs from one without scaling; and a control
\* plane that anybody can reach is never published as closed, neither because of
\* networks left over in a disabled configuration nor where only wildcards are enabled.
PublishedAsItIs ==
  resource # None =>
    /\ \A a \in Truth(resource) :
         \/ mustHave(target, a[1]) = a[2]
         \/ a[1] \in Attributes(toTarget(resource)) \ Attributes(target)
    /\ resource.kind = "cluster" =>
         (~resource.private /\
          (resource.config # "enabled" \/ resource.blocks \subseteq Wildcards \cup {Blank}) =>
            <<"gcp.gke.cluster.api-server-open-to-internet", "true">> \in target)

\* What the comment over the attribute promises: a public control plane is
\* published as closed only if authorized networks are enabled and every allowed
\* CIDR is narrower than a wildcard.  The code is content with one narrow network:
\* a wildcard beside it admits everybody.
RestrictedOnlyIfAllNarrow ==
  resource # None /\ resource.kind = "cluster" =>
    (~resource.private /\ <<"gcp.gke.cluster.api-server-open-to-internet", "false">> \in target =>
       resource.config = "enabled" /\ resource.blocks \cap Wildcards = {})

===============================================================================
