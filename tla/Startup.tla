-------------------------------- MODULE Startup --------------------------------
(***************************************************************************)
(* From the environment to a serving extension: main.go with               *)
(* config/config.go and InitializeGcpAccess of utils/gcp_access.go.  The   *)
(* main goroutine runs straight through, but it is not alone: every        *)
(* discovery it registers refreshes its targets at once in a goroutine of  *)
(* its own, which reads the projects map without a lock; the health probes *)
(* answer from the start; a signal may come at any time.                   *)
(***************************************************************************)

EXTENDS Naturals, Sequences, SequencesExt

CONSTANTS
  Texts,      \* project ids as they may stand in the environment
  Empty,      \* the empty text
  Trim,       \* strings.TrimSpace on Texts
  Accounts,   \* service accounts to impersonate
  None,       \* no service account
  MaxIds,     \* bound: entries of PROJECT_IDS and of PROJECTS_ADVANCED
  Enablings   \* sets of opt-in modules to consider

ASSUME BoundAssumption == MaxIds \in Nat

ASSUME TextAssumption ==
  /\ Empty \in Texts
  /\ Trim \in [Texts -> Texts]
  /\ \A t \in Texts : Trim[Trim[t]] = Trim[t]

\* The opt-in modules in the order main registers them, and those that bring an
\* attack; the VM module is always there and has one.
ModuleOrder ==
  <<"GkeCluster", "GkeNodePool", "Mig", "CloudNat", "PersistentDisk", "CloudSql", "Spanner",
    "PubSubTopic", "PubSubSubscription", "MemorystoreRedis", "CloudRun">>
OptIn == ToSet(ModuleOrder)
WithAttack == {"VM", "GkeNodePool", "Mig", "CloudNat", "CloudSql", "MemorystoreRedis"}

ASSUME EnablingsAssumption == Enablings \subseteq SUBSET OptIn

Entries == [id : Texts, account : Accounts \cup {None}]
Specifications ==
  [projectId : Texts, projectIds : BoundedSeq(Texts, MaxIds),
   advanced : BoundedSeq(Entries, MaxIds), endpoint : BOOLEAN, enabled : Enablings]

VARIABLES
  pc,           \* where the main goroutine is
  config,       \* config.Config
  todo,         \* the resolved projects InitializeGcpAccess has still to look at
  projects,     \* utils.projects: the account of each usable project
  skipped,      \* ghost: projects whose client options failed
  discoveries, actions,     \* registered so far, by module
  seen,         \* ghost: the projects each refresh found, as <<module, projects>>
  handlers,     \* are the signal handlers installed
  ready,        \* what the readiness probe answers
  attacking     \* is an attack running

vars == <<pc, config, todo, projects, skipped, discoveries, actions, seen,
          handlers, ready, attacking>>

Steps == {"parse", "validate", "access", "register", "signals", "ready", "listen",
          "listening", "dead"}

TypeOK ==
  /\ pc \in Steps
  /\ config \in Specifications
  /\ todo \in Seq(Entries)
  /\ projects \subseteq Entries
  /\ skipped \subseteq Entries
  /\ discoveries \subseteq OptIn \cup {"VM"}
  /\ actions \subseteq WithAttack
  /\ \A s \in seen : s[1] \in OptIn \cup {"VM"} /\ s[2] \subseteq Entries
  /\ handlers \in BOOLEAN
  /\ ready \in BOOLEAN
  /\ attacking \in BOOLEAN

Init ==
  /\ pc = "parse"
  /\ config \in Specifications
  /\ todo = <<>>
  /\ projects = {}
  /\ skipped = {}
  /\ discoveries = {}
  /\ actions = {}
  /\ seen = {}
  /\ handlers = FALSE
  /\ ready = FALSE
  /\ attacking = FALSE

-------------------------------------------------------------------------------
(* Configuration                                                             *)

\* One value: what is left of it, if anything, is appended.
Trimmed(out, v) == IF Trim[v] # Empty THEN Append(out, Trim[v]) ELSE out
trimAndFilter(values) ==
  LET out[k \in 0..Len(values)] ==
        IF k = 0 THEN <<>> ELSE Trimmed(out[k - 1], values[k])
  IN  out[Len(values)]

ParseConfiguration ==
  /\ pc = "parse"
  /\ config' = [config EXCEPT !.projectId = Trim[@], !.projectIds = trimAndFilter(@)]
  /\ pc' = "validate"
  /\ UNCHANGED <<todo, projects, skipped, discoveries, actions, seen,
                 handlers, ready, attacking>>

\* A number, a boolean or the JSON of PROJECTS_ADVANCED does not parse.
ParseFails ==
  /\ pc = "parse"
  /\ pc' = "dead"
  /\ UNCHANGED <<config, todo, projects, skipped, discoveries, actions, seen,
                 handlers, ready, attacking>>

\* ResolvedProjects.
ResolvedProjects ==
  LET plain(id) == [id |-> id, account |-> None]
      ids == IF config.projectIds = <<>> /\ config.projectId # Empty
             THEN <<config.projectId>> ELSE config.projectIds
  IN  IF config.advanced # <<>> THEN config.advanced
      ELSE [k \in 1..Len(ids) |-> plain(ids[k])]

Sources ==
  {s \in {"ID", "IDS", "ADVANCED"} :
     \/ s = "ID" /\ config.projectId # Empty
     \/ s = "IDS" /\ config.projectIds # <<>>
     \/ s = "ADVANCED" /\ config.advanced # <<>>}

\* checkDuplicateIDs and its twin for the entries of PROJECTS_ADVANCED.
NoDuplicates(ids) == \A j, k \in 1..Len(ids) : ids[j] = ids[k] => j = k

\* A mistake: entries count as duplicates only if the accounts agree as well.
ValidatesEntries ==
  /\ \E s \in Sources : Sources = {s}
  /\ NoDuplicates(config.projectIds)
  /\ NoDuplicates(config.advanced)
  /\ \A k \in 1..Len(config.advanced) : Trim[config.advanced[k].id] # Empty

validateProjects ==
  /\ \E s \in Sources : Sources = {s}
  /\ NoDuplicates(config.projectIds)
  /\ NoDuplicates([k \in 1..Len(config.advanced) |-> config.advanced[k].id])
  /\ \A k \in 1..Len(config.advanced) : Trim[config.advanced[k].id] # Empty

\* ValidateConfiguration; log.Fatal ends the process.
ValidateConfiguration ==
  /\ pc = "validate"
  /\ IF validateProjects
       THEN pc' = "access" /\ todo' = ResolvedProjects
       ELSE pc' = "dead" /\ UNCHANGED todo
  /\ UNCHANGED <<config, projects, skipped, discoveries, actions, seen,
                 handlers, ready, attacking>>

-------------------------------------------------------------------------------
(* Access                                                                    *)

\* buildClientOptions can only fail where it creates an impersonating token
\* source.
MayFail(p) == ~config.endpoint /\ p.account # None

\* One iteration of InitializeGcpAccess: the entry replaces one of the same id.
BuildAccess ==
  /\ pc = "access"
  /\ todo # <<>>
  /\ LET p == Head(todo) IN
       \/ /\ projects' = {q \in projects : q.id # p.id} \cup {p}
          /\ UNCHANGED skipped
       \/ /\ MayFail(p)
          /\ skipped' = skipped \cup {p}
          /\ UNCHANGED projects
  /\ todo' = Tail(todo)
  /\ UNCHANGED <<pc, config, discoveries, actions, seen, handlers, ready, attacking>>

\* A mistake: without a usable project the extension waits for one.
AccessDoneIfAny ==
  /\ pc = "access"
  /\ todo = <<>>
  /\ projects # {}
  /\ pc' = "register"
  /\ UNCHANGED <<config, todo, projects, skipped, discoveries, actions, seen,
                 handlers, ready, attacking>>

AccessDone ==
  /\ pc = "access"
  /\ todo = <<>>
  /\ pc' = IF projects = {} THEN "dead" ELSE "register"
  /\ UNCHANGED <<config, todo, projects, skipped, discoveries, actions, seen,
                 handlers, ready, attacking>>

-------------------------------------------------------------------------------
(* Registration and serving                                                  *)

Wanted == {"VM"} \cup config.enabled

\* A mistake: registration does not wait for the access to be complete.
MayRegisterEarly == pc \in {"access", "register"}

MayRegister == pc = "register"

\* The place of a module in main.
Position(m) == IF m = "VM" THEN 0 ELSE CHOOSE k \in 1..Len(ModuleOrder) : ModuleOrder[k] = m
IsNext(m) ==
  /\ m \in Wanted \ discoveries
  /\ \A n \in Wanted \ discoveries : Position(m) <= Position(n)

\* A mistake: every module brings an attack.
RegisterBoth(m) ==
  /\ MayRegister
  /\ IsNext(m)
  /\ discoveries' = discoveries \cup {m}
  /\ actions' = actions \cup {m}
  /\ UNCHANGED <<pc, config, todo, projects, skipped, seen, handlers, ready, attacking>>

\* The next module of the list: its discovery and the action it has, if any.
Register(m) ==
  /\ MayRegister
  /\ IsNext(m)
  /\ discoveries' = discoveries \cup {m}
  /\ actions' = actions \cup ({m} \cap WithAttack)
  /\ UNCHANGED <<pc, config, todo, projects, skipped, seen, handlers, ready, attacking>>

Registered ==
  /\ pc = "register"
  /\ discoveries = Wanted
  /\ pc' = "signals"
  /\ UNCHANGED <<config, todo, projects, skipped, discoveries, actions, seen,
                 handlers, ready, attacking>>

\* A mistake: no handlers are installed.
ActivateNoHandlers ==
  /\ pc = "signals"
  /\ pc' = "ready"
  /\ UNCHANGED <<config, todo, projects, skipped, discoveries, actions, seen,
                 handlers, ready, attacking>>

ActivateSignalHandlers ==
  /\ pc = "signals"
  /\ handlers' = TRUE
  /\ pc' = "ready"
  /\ UNCHANGED <<config, todo, projects, skipped, discoveries, actions, seen,
                 ready, attacking>>

\* A mistake: the extension is ready before it has its handlers.
SetReadyEarly ==
  /\ pc \in {"signals", "ready"}
  /\ ~ready \/ pc = "ready"
  /\ ready' = TRUE
  /\ pc' = IF pc = "ready" THEN "listen" ELSE pc
  /\ UNCHANGED <<config, todo, projects, skipped, discoveries, actions, seen,
                 handlers, attacking>>

SetReady ==
  /\ pc = "ready"
  /\ ready' = TRUE
  /\ pc' = "listen"
  /\ UNCHANGED <<config, todo, projects, skipped, discoveries, actions, seen,
                 handlers, attacking>>

Listen ==
  /\ pc = "listen"
  /\ pc' = "listening"
  /\ UNCHANGED <<config, todo, projects, skipped, discoveries, actions, seen,
                 handlers, ready, attacking>>

Main ==
  \/ ParseConfiguration \/ ParseFails \/ ValidateConfiguration \/ BuildAccess \/ AccessDone
  \/ (\E m \in Wanted : Register(m))
  \/ Registered \/ ActivateSignalHandlers \/ SetReady \/ Listen

-------------------------------------------------------------------------------
(* Everybody else                                                            *)

\* The goroutine of a registered discovery calls ForEveryConfiguredGcpAccess.
Refresh(m) ==
  /\ pc # "dead"
  /\ m \in discoveries
  /\ seen' = seen \cup {<<m, projects>>}
  /\ UNCHANGED <<pc, config, todo, projects, skipped, discoveries, actions,
                 handlers, ready, attacking>>

\* The agent starts an attack the extension offers.
Attack ==
  /\ pc = "listening"
  /\ actions # {}
  /\ attacking' = TRUE
  /\ UNCHANGED <<pc, config, todo, projects, skipped, discoveries, actions, seen,
                 handlers, ready>>

\* A signal ends the process: by the handlers, which stop the attacks first, or
\* without them at once.
Signal ==
  /\ pc # "dead"
  /\ attacking' = (attacking /\ ~handlers)
  /\ ready' = FALSE
  /\ pc' = "dead"
  /\ UNCHANGED <<config, todo, projects, skipped, discoveries, actions, seen, handlers>>

Next == Main \/ (\E m \in Wanted : Refresh(m)) \/ Attack \/ Signal

\* The main goroutine never blocks before it listens.
Spec == Init /\ [][Next]_vars /\ WF_vars(Main)

-------------------------------------------------------------------------------
(* Properties                                                                *)

Resolved == ToSet(ResolvedProjects)

\* A ready extension is complete: it has a usable project, every enabled module
\* offers its discovery, attacks are offered for discovered targets only and none
\* is missing, and nothing is left of the start-up but to listen.
ReadyIsComplete ==
  ready => /\ projects # {} /\ todo = <<>>
           /\ discoveries = Wanted
           /\ actions = discoveries \cap WithAttack
           /\ handlers

\* Every configured project ends up either usable, with the service account it was
\* configured with, or skipped because its client options failed; it came from the
\* one source that was set, and no entry replaced another; blanks around the ids of
\* a plain list made no project of their own.
NothingIsLost ==
  pc \notin {"parse", "validate", "access", "dead"} =>
    /\ projects \cup skipped = Resolved
    /\ projects \cap skipped = {}
    /\ \E s \in Sources : Sources = {s}
    /\ config.advanced = <<>> => \A p \in Resolved : p.id = Trim[p.id] /\ p.id # Empty

\* No background refresh ever reads the projects while they are being collected:
\* all see the same, complete set, though none takes a lock.
RefreshesSeeAll == \A s \in seen : s[2] = projects /\ s[2] # {}

\* A signal never leaves an attack of a listening extension running.
SignalStopsAttacks == pc = "dead" => ~attacking

\* Start-up neither hangs nor stays half done: the extension ends up listening or
\* gives up.
ServesOrDies == <>(pc \in {"listening", "dead"})

===============================================================================
