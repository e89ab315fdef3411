----------------------------- MODULE Exposition -----------------------------
(***************************************************************************)
(* What the cache lets a reader see: the metrics of a scrape               *)
(* (internal/metrics/metrics.go) and the readiness report                  *)
(* (internal/health/health.go, internal/httpapi/server.go), over the       *)
(* collector states and data of several clusters (internal/cache/store.go).*)
(*                                                                         *)
(* Both readers take one Snapshot under the lock of the store, so that     *)
(* what they answer is a function of the state; the properties hold for a  *)
(* reader at any moment.  A time is kept as its age at the present moment, *)
(* in ticks.  The runs are those of Collector without their inner steps.   *)
(***************************************************************************)
EXTENDS Naturals

CONSTANTS
  Clusters,             \* config: the names of the clusters
  Collectors,           \* the scheduled collectors, a subset of AllCollectors
  StaleTolerance,       \* config: cache.staleTolerance, in ticks
  MaxStale,             \* config: cache.maxStale, in ticks
  Resolutions           \* the capabilities that a resolution may enable

AllCollectors == {"cluster", "node", "node-resources", "namespace", "bucket",
                  "replication", "recovery"}

\* The capabilities that decide what a run renews, and whether it does anything.
ResourceCaps == {"node_cpu_memory", "node_network_counters", "node_disk_capacity"}
Caps == ResourceCaps \cup {"recovery_progress"}

ASSUME CollectorsAssumption == Collectors \subseteq AllCollectors
\* Config.Validate.
ASSUME ToleranceAssumption ==
  /\ StaleTolerance \in Nat \ {0}
  /\ MaxStale \in Nat
  /\ StaleTolerance <= MaxStale
ASSUME ResolutionsAssumption == Resolutions \subseteq SUBSET Caps

VARIABLES
  reachable,     \* the ECS API of the cluster answers
  booted,        \* NotBooted, Booted, or the collector that resolved the profiles and
                 \* is about to publish the node list of Bootstrap
  enabled,       \* the capabilities that the resolution enables
  phase,         \* whether the collector has begun a run, and has just published
  success,       \* CollectorState.LastSuccessAt
  lastError,     \* CollectorState.LastError is not empty
  collected,     \* when the cached values of each kind were published
  healthy        \* Cluster.Health of the cached cluster is not 0

data == <<collected, healthy>>
vars == <<reachable, booted, enabled, phase, success, lastError, data>>

-----------------------------------------------------------------------------
\* Ages that differ for no reader are one: older than MaxStale, and never.
Never == MaxStale + 2
Ages == 0 .. Never
Older(age) == IF age > MaxStale THEN age ELSE age + 1

NotBooted == "no"
Booted == "yes"

Phases == {"unstarted", "started", "published"}

\* The collectors that readiness asks for.
Required == {"cluster", "node", "namespace", "bucket"}

\* The kinds of values in the cache: the resource values by capability, status and lag of
\* replication, recovery progress.  The age of a kind is that of its oldest value.
Kinds == Required \cup ResourceCaps \cup {"replication", "recovery"}

\* The values that every publication of the collector renews, whatever is enabled.  A
\* replication run brings recovery values along (ParseReplication).
AlwaysRenews(c) ==
  CASE c = "node-resources" ->
         {v \in ResourceCaps : \A r \in Resolutions : r \cap ResourceCaps # {} => v \in r}
    [] c = "replication" -> {"replication", "recovery"}
    [] OTHER -> {c}

Init ==
  /\ reachable = [k \in Clusters |-> TRUE]
  /\ booted = [k \in Clusters |-> NotBooted]
  /\ enabled = [k \in Clusters |-> {}]
  /\ phase = [k \in Clusters |-> [c \in Collectors |-> "unstarted"]]
  /\ success = [k \in Clusters |-> [c \in Collectors |-> Never]]
  /\ lastError = [k \in Clusters |-> [c \in Collectors |-> FALSE]]
  /\ collected = [k \in Clusters |-> [v \in Kinds |-> Never]]
  /\ healthy = [k \in Clusters |-> TRUE]

\* A store operation and the next statement of its goroutine are less than a tick
\* apart: no time passes between a publication and the end of its run.
Tick ==
  /\ \A k \in Clusters : booted[k] \in {NotBooted, Booted}
  /\ \A k \in Clusters, c \in Collectors : phase[k][c] # "published"
  /\ success' = [k \in Clusters |-> [c \in Collectors |-> Older(success[k][c])]]
  /\ collected' = [k \in Clusters |-> [v \in Kinds |-> Older(collected[k][v])]]
  /\ UNCHANGED <<reachable, booted, enabled, phase, lastError, healthy>>

\* The API of a cluster is gone for good.
Outage(k) ==
  /\ reachable[k]
  /\ reachable' = [reachable EXCEPT ![k] = FALSE]
  /\ UNCHANGED <<booted, enabled, phase, success, lastError, data>>

\* The first Store.Start, which creates the state; the later ones change nothing that
\* a reader looks at.
Start(k, c) ==
  /\ phase[k][c] = "unstarted"
  /\ phase' = [phase EXCEPT ![k][c] = "started"]
  /\ UNCHANGED <<reachable, booted, enabled, success, lastError, data>>

\* Bootstrap up to the resolution, and its ReplaceNodes: nodes without values.
Resolve(k, c) ==
  /\ phase[k][c] = "started"
  /\ booted[k] = NotBooted
  /\ reachable[k]
  /\ booted' = [booted EXCEPT ![k] = c]
  /\ \E r \in Resolutions : enabled' = [enabled EXCEPT ![k] = r]
  /\ UNCHANGED <<reachable, phase, success, lastError, data>>

BootstrapReplaceNodes(k, c) ==
  /\ booted[k] = c
  /\ booted' = [booted EXCEPT ![k] = Booted]
  /\ collected' = [collected EXCEPT ![k] =
       [v \in Kinds |-> IF v \in {"node"} \cup ResourceCaps THEN Never ELSE collected[k][v]]]
  /\ UNCHANGED <<reachable, enabled, phase, success, lastError, healthy>>

\* ecs.ParseClusterHealth: whether all nodes and all disks are good.
ParseClusterHealth == BOOLEAN

\* The collector is past ensureBootstrap.
InCollect(k, c) == phase[k][c] = "started" /\ booted[k] \notin {NotBooted, c}

\* The collectors that have nothing to ask for without a capability.
Gate(c) ==
  CASE c = "node-resources" -> ResourceCaps
    [] c = "recovery" -> {"recovery_progress"}
    [] OTHER -> {}
Enabled(k, c) == Gate(c) = {} \/ enabled[k] \cap Gate(c) # {}

\* The values a publication renews: CollectNodeResources those of the enabled
\* capabilities, the others being carried over, as CollectNodes carries over all of them;
\* MergeRecovery the recovery values, and the whole record of a link that the list does not
\* have, which is every link until a replication run has published.
Renews(k, c) ==
  CASE c = "node-resources" -> enabled[k] \cap ResourceCaps
    [] c = "recovery" /\ collected[k]["replication"] = Never -> {"replication", "recovery"}
    [] c = "replication" -> {"replication", "recovery"}
    [] OTHER -> {c}

\* The Replace operations and MergeRecovery of the store; CollectNodes resolves the
\* profiles anew just before.
Publish(k, c) ==
  /\ InCollect(k, c)
  /\ reachable[k]
  /\ Enabled(k, c)
  /\ IF c = "node"
     THEN \E r \in Resolutions : enabled' = [enabled EXCEPT ![k] = r]
     ELSE UNCHANGED enabled
  /\ phase' = [phase EXCEPT ![k][c] = "published"]
  /\ collected' = [collected EXCEPT ![k] =
                     [v \in Kinds |-> IF v \in Renews(k, c) THEN 0 ELSE collected[k][v]]]
  /\ IF c = "cluster"
     THEN \E h \in ParseClusterHealth : healthy' = [healthy EXCEPT ![k] = h]
     ELSE UNCHANGED healthy
  /\ UNCHANGED <<reachable, booted, success, lastError>>

\* Deviation: an error moves the success time as well.
FinishAttempt(k, c) ==
  /\ phase[k][c] = "started"
  /\ booted[k] # c
  /\ success' = [success EXCEPT ![k][c] = 0]
  /\ lastError' = [lastError EXCEPT ![k][c] = TRUE]
  /\ UNCHANGED <<reachable, booted, enabled, phase, data>>

\* Store.Finish with an error.
FinishError(k, c) ==
  /\ phase[k][c] = "started"
  /\ booted[k] # c
  /\ lastError' = [lastError EXCEPT ![k][c] = TRUE]
  /\ UNCHANGED <<reachable, booted, enabled, phase, success, data>>

\* Store.FinishSkipped: a run without its capability publishes nothing.
FinishSkipped(k, c) ==
  /\ InCollect(k, c)
  /\ ~Enabled(k, c)
  /\ lastError' = [lastError EXCEPT ![k][c] = FALSE]
  /\ UNCHANGED <<reachable, booted, enabled, phase, success, data>>

\* Store.Finish without one.
FinishSuccess(k, c) ==
  /\ phase[k][c] = "published"
  /\ phase' = [phase EXCEPT ![k][c] = "started"]
  /\ success' = [success EXCEPT ![k][c] = 0]
  /\ lastError' = [lastError EXCEPT ![k][c] = FALSE]
  /\ UNCHANGED <<reachable, booted, enabled, data>>

Next ==
  \/ Tick
  \/ \E k \in Clusters :
       \/ Outage(k)
       \/ \E c \in Collectors :
            \/ Start(k, c) \/ Resolve(k, c) \/ BootstrapReplaceNodes(k, c)
            \/ Publish(k, c)
            \/ FinishError(k, c) \/ FinishSkipped(k, c) \/ FinishSuccess(k, c)

Spec == Init /\ [][Next]_vars

\* Time passes, and a goroutine that only has store operations left comes to its end.
Fairness ==
  /\ WF_vars(Tick)
  /\ \A k \in Clusters, c \in Collectors :
       WF_vars(BootstrapReplaceNodes(k, c)) /\ WF_vars(FinishSuccess(k, c))

FairSpec == Spec /\ Fairness

-----------------------------------------------------------------------------
(* The readers *)

\* Deviation: only a collector without a state is not fresh.
AnySuccessFresh(k, c) ==
  c \in Collectors /\ phase[k][c] # "unstarted" => success[k][c] # Never

\* snapshotCollector.domainFresh: a collector without a state counts as fresh.
domainFresh(k, c) ==
  c \in Collectors /\ phase[k][c] # "unstarted" => success[k][c] <= MaxStale

\* The domains that must be fresh for a kind of values to be exposed.
Domains(kind) ==
  CASE kind \in ResourceCaps -> {"node", "node-resources"}
    [] kind = "recovery" -> {"replication", "recovery"}
    [] OTHER -> {kind}

\* snapshotCollector.Collect: the kinds of values of a cluster that /metrics shows.
Exposed(k) ==
  {v \in Kinds : collected[k][v] # Never /\ \A c \in Domains(v) : domainFresh(k, c)}

\* Deviation: the newest success decides.
EvaluateNewest(k) ==
  LET times == {IF c \in Collectors THEN success[k][c] ELSE Never : c \in Required}
  IN  IF Never \in times \/ \A age \in times : age > MaxStale THEN "DOWN"
      ELSE IF \/ \A age \in times : age > StaleTolerance
              \/ ~healthy[k]
              \/ \E c \in Collectors : lastError[k][c]
      THEN "DEGRADED"
      ELSE "UP"

\* health.evaluateCluster.
evaluateCluster(k) ==
  LET times == {IF c \in Collectors THEN success[k][c] ELSE Never : c \in Required}
  IN  IF \E age \in times : age > MaxStale THEN "DOWN"
      ELSE IF \/ \E age \in times : age > StaleTolerance
              \/ ~healthy[k]
              \/ \E c \in Collectors : lastError[k][c]
      THEN "DEGRADED"
      ELSE "UP"

\* The clusters of a Snapshot: those with a state or a cached cluster.
Known == {k \in Clusters : \E c \in Collectors : phase[k][c] # "unstarted"}

\* health.Evaluate.
Evaluate ==
  IF \A k \in Known : evaluateCluster(k) = "DOWN" THEN "DOWN"
  ELSE IF \A k \in Known : evaluateCluster(k) = "UP" THEN "UP"
  ELSE "DEGRADED"

-----------------------------------------------------------------------------
(* Properties *)

TypeOK ==
  /\ reachable \in [Clusters -> BOOLEAN]
  /\ booted \in [Clusters -> Collectors \cup {NotBooted, Booted}]
  /\ enabled \in [Clusters -> Resolutions \cup {{}}]
  /\ phase \in [Clusters -> [Collectors -> Phases]]
  /\ success \in [Clusters -> [Collectors -> Ages]]
  /\ lastError \in [Clusters -> [Collectors -> BOOLEAN]]
  /\ collected \in [Clusters -> [Kinds -> Ages]]
  /\ healthy \in [Clusters -> BOOLEAN]

\* The values that nobody is bound to renew: the status that a recovery run has brought,
\* before the replication collector begins, and resource values of a capability that only
\* some resolutions enable.
Unattended(k) ==
  {v \in {"replication"} : v \in Collectors => phase[k][v] = "unstarted"}
    \cup (ResourceCaps \ AlwaysRenews("node-resources"))

\* A scrape shows no value published more than MaxStale ago, the resource values that node
\* runs carry over and the recovery values that two collectors write included, as long as
\* somebody is bound to renew it.
ExposedIsCurrent ==
  \A k \in Clusters : \A v \in Exposed(k) \ Unattended(k) : collected[k][v] <= MaxStale

\* README.md: only values whose cache has not expired are exposed.  The status that a
\* recovery run has brought is exposed without limit until the replication collector
\* begins (MergeRecovery, domainFresh).
NothingExpiredIsExposed ==
  \A k \in Clusters : \A v \in Exposed(k) : collected[k][v] <= MaxStale

\* Readiness and /metrics agree: of a cluster that is not DOWN, /metrics withholds no
\* required domain, and whatever required values are in the cache are as recent as the
\* status promises (evaluateCluster and domainFresh use the same times).
ReadyIsCurrent ==
  \A k \in Clusters : evaluateCluster(k) # "DOWN" =>
    \A c \in Required :
      /\ domainFresh(k, c)
      /\ collected[k][c] # Never =>
           collected[k][c] <= (IF evaluateCluster(k) = "UP" THEN StaleTolerance ELSE MaxStale)

\* When the API of a cluster is gone, its status ends up DOWN and stays so, however
\* often its collectors try again (Finish leaves LastSuccessAt alone after an error).
OutageIsReported ==
  \A k \in Clusters : ~reachable[k] ~> [](evaluateCluster(k) = "DOWN")

\* PRODUCTION_RUNBOOK.md: UP means that all required collectors have initialized.
UpMeansInitialized ==
  Evaluate = "UP" => \A k \in Clusters, c \in Required : success[k][c] # Never

-----------------------------------------------------------------------------
(* The inductive invariant *)

\* A collector between its publication and the end of its run has just published.
PublishedInv ==
  \A k \in Clusters, c \in Collectors :
    phase[k][c] = "published" =>
      \A v \in Kinds \cap AlwaysRenews(c) : collected[k][v] \in {0, Never}

\* A cached value is no older than the last success of any collector whose publications
\* all renew it.
CollectedInv ==
  \A k \in Clusters, c \in Collectors : \A v \in Kinds \cap AlwaysRenews(c) :
    collected[k][v] # Never => collected[k][v] <= success[k][c]

\* The collectors that may bring a value into the cache.
Sources(v) ==
  CASE v \in ResourceCaps -> {"node-resources"}
    [] v \in {"replication", "recovery"} -> {"replication", "recovery"}
    [] OTHER -> {v}

\* A collector that has brought a value has a state.
SourceInv ==
  \A k \in Clusters, v \in Kinds :
    collected[k][v] # Never =>
      \E c \in Sources(v) \cap Collectors : phase[k][c] # "unstarted"

IInv == TypeOK /\ PublishedInv /\ CollectedInv /\ SourceInv

=============================================================================
