----------------------------- MODULE Collector -----------------------------
(***************************************************************************)
(* One cluster's Runner (internal/collector/runner.go), the scheduled      *)
(* goroutines that drive it (internal/collector/scheduler.go) and the part *)
(* of the cache (internal/cache/store.go) that belongs to the cluster.     *)
(*                                                                         *)
(* Each collector is one goroutine, so "collector" names both.  Data is    *)
(* abstracted to its provenance: a cached value is the number of the run   *)
(* that produced it (CollectorState.Runs), 0 being "nil, never collected". *)
(* The calls a Collect function makes before it next touches shared state  *)
(* are one step, which ends in a result or in an error.                    *)
(***************************************************************************)
EXTENDS Naturals

CONSTANTS
  Collectors,          \* the scheduled collectors, a subset of AllCollectors
  NodeIDs,             \* ids an ECS node may have
  Resolutions,         \* what Catalog.Resolve may answer: capability |-> support
  NoResolution,        \* the zero Resolution: no profile id
  EnabledConditional,  \* config: capabilities.enabled_conditional
  Groups, Links,       \* config: replication.groups and replication.links
  MaxRuns,             \* bound: the runs of each collector
  Nobody,              \* a mutex without an owner
  Absent               \* an id that is not in a list

\* The tasks of Scheduler.Start.
AllCollectors ==
  {"cluster", "node", "node-resources", "performance", "namespace", "bucket",
   "replication", "recovery"}

Support == {"native", "derived", "conditional", "unavailable"}

ResourceCaps == {"node_cpu_memory", "node_network_counters", "node_disk_capacity"}
PerformanceCaps == {"vdc_performance", "namespace_performance"}
\* The capabilities the runner asks for.
Caps == ResourceCaps \cup PerformanceCaps
          \cup {"node_service_process", "recovery_progress"}

ASSUME CollectorsAssumption == Collectors \subseteq AllCollectors
ASSUME ResolutionsAssumption ==
  /\ Resolutions \subseteq [Caps -> Support]
  /\ NoResolution \notin Resolutions
\* ClusterConfig.validate refuses an id that is both a group and a link.
ASSUME ReplicationAssumption == Groups \cap Links = {}
ASSUME NobodyAssumption == Nobody \notin AllCollectors
ASSUME MaxRunsAssumption == MaxRuns \in [Collectors -> Nat]

VARIABLES
  pc,            \* where each collector's goroutine stands
  cancelled,     \* the context of Scheduler.Start is done
  nodeMu, bootstrapMu,     \* owners of the two mutexes of Runner
  resolution,    \* Runner.resolution
  generation,    \* Run: the generation read after Start
  failed,        \* Run: the error of the Collect function is not nil
  caps,          \* Collect*: the capabilities found enabled
  draft,         \* Bootstrap, CollectNode*: the node list to be published
  tally,         \* Collect*: the run of each list read from the Snapshot
  nodes,         \* clusterData.nodes, by node id
  counted,       \* the lists that the cached cluster and namespaces count
  replications,  \* clusterData.replications, by id
  published,     \* run of the value each collector last put in the store
  generations,   \* Store.generations
  states         \* Store.states

locals == <<generation, failed, caps, draft, tally>>
data == <<nodes, counted, replications, published, generations>>
vars == <<pc, cancelled, nodeMu, bootstrapMu, resolution, locals, data, states>>

-----------------------------------------------------------------------------
Labels == {"wait", "nodeLock", "ensure", "bootLock", "bootFetch", "bootPublish",
           "caps", "caps2", "fetch", "publish", "finish", "exited"}

\* The collectors whose result is the node list; they hold nodeMu.
NodeWriters == {"node", "node-resources"}
\* The collectors that ask for a capability before they query.
Gated == {"node-resources", "performance", "recovery"}

\* The lists that another collector reads from a Snapshot.
ReadLists == {"cluster", "namespace", "bucket"}
NoTally == [l \in ReadLists |-> 0]

\* A list, a map from id to record in the code as well wherever it is read, is a
\* function of all possible ids.
Ids(list) == {id \in DOMAIN list : list[id] # Absent}

NodeRecord == [health: Nat, services: Nat, res: [ResourceCaps -> Nat]]
NodeLists == [NodeIDs -> NodeRecord \cup {Absent}]
EmptyList == [id \in NodeIDs |-> Absent]
NoResources == [k \in ResourceCaps |-> 0]

\* Which run of which collector a replication value comes from.
Origin == {"replication", "recovery"} \X Nat
LinkRecord == [status: Origin, recovery: Origin]
ReplicationLists == [Groups \cup Links -> LinkRecord \cup {Absent}]
ASSUME AbsentAssumption == Absent \notin NodeRecord /\ Absent \notin LinkRecord

CollectorState == [running: BOOLEAN, runs: Nat, lastSuccess: Nat, lastError: BOOLEAN]
NewState == [running |-> FALSE, runs |-> 0, lastSuccess |-> 0, lastError |-> FALSE]

\* Runner.capabilityEnabledFor.
capabilityEnabledFor(r, name) ==
  \/ r[name] \in {"native", "derived"}
  \/ r[name] = "conditional" /\ name \in EnabledConditional

\* ecs.ParseNodes: nodes with neither health nor resources.
ParseNodes(inventory) ==
  [id \in NodeIDs |->
     IF id \in inventory THEN [health |-> 0, services |-> 0, res |-> NoResources]
     ELSE Absent]

\* preserveNodeResources: nodes known before keep their resource values.
preserveNodeResources(list, previous) ==
  [id \in NodeIDs |->
     IF id \in Ids(list) \cap Ids(previous)
     THEN [list[id] EXCEPT !.res = previous[id].res]
     ELSE list[id]]

\* ecs.ParseNodeStatuses: which nodes the health response has, one entry each.
ParseNodeStatuses(inventory) == SUBSET inventory

\* ecs.ApplyNodeStatuses: health, and services where they are enabled, of the
\* nodes in the health response; the others keep what they have.
ApplyNodeStatuses(list, reported, run, includeServices) ==
  [id \in NodeIDs |->
     IF id \in Ids(list) \cap reported
     THEN [list[id] EXCEPT !.health = run,
                           !.services = IF includeServices THEN run ELSE 0]
     ELSE list[id]]

\* CollectNodeResources clears the enabled values of every node, then
\* ecs.ApplyNodeResourcesForCapabilities sets those of the nodes Flux reported.
ApplyNodeResources(list, reported, run, enabled) ==
  [id \in NodeIDs |->
     IF id \in Ids(list)
     THEN [list[id] EXCEPT !.res =
             [k \in ResourceCaps |->
                IF k \notin enabled THEN list[id].res[k]
                ELSE IF id \in reported THEN run ELSE 0]]
     ELSE Absent]

-----------------------------------------------------------------------------
\* New Runner and Store: nothing is known, nobody inside.
NewRunner ==
  /\ cancelled = FALSE
  /\ nodeMu = Nobody
  /\ bootstrapMu = Nobody
  /\ resolution = NoResolution
  /\ generation = [c \in Collectors |-> 0]
  /\ failed = [c \in Collectors |-> FALSE]
  /\ caps = [c \in Collectors |-> {}]
  /\ draft = [c \in Collectors |-> EmptyList]
  /\ tally = [c \in Collectors |-> NoTally]
  /\ nodes = EmptyList
  /\ counted = [c \in {"cluster", "namespace"} |-> NoTally]
  /\ replications = [id \in Groups \cup Links |-> Absent]
  /\ published = [c \in AllCollectors |-> 0]
  /\ generations = [c \in AllCollectors |-> 0]
  /\ states = [c \in Collectors |-> NewState]

\* Scheduler.Start: one goroutine per collector.
Init == pc = [c \in Collectors |-> "wait"] /\ NewRunner

Goto(c, label) == pc' = [pc EXCEPT ![c] = label]

\* Where ensureBootstrap continues when the resolution is known.
AfterBootstrap(c) == IF c \in Gated THEN "caps" ELSE "fetch"

\* Deviation: an error return that skips the deferred unlock.
ReturnHoldingLock(c, err) ==
  /\ Goto(c, "finish")
  /\ failed' = [failed EXCEPT ![c] = err]
  /\ caps' = [caps EXCEPT ![c] = {}]
  /\ draft' = [draft EXCEPT ![c] = EmptyList]
  /\ tally' = [tally EXCEPT ![c] = NoTally]
  /\ nodeMu' = IF c \in NodeWriters /\ ~err THEN Nobody ELSE nodeMu
  /\ UNCHANGED generation

\* The Collect function returns: its locals go, its deferred unlock runs.
Return(c, err) ==
  /\ Goto(c, "finish")
  /\ failed' = [failed EXCEPT ![c] = err]
  /\ caps' = [caps EXCEPT ![c] = {}]
  /\ draft' = [draft EXCEPT ![c] = EmptyList]
  /\ tally' = [tally EXCEPT ![c] = NoTally]
  /\ nodeMu' = IF c \in NodeWriters THEN Nobody ELSE nodeMu
  /\ UNCHANGED generation

\* Deviation: every publication bumps the key of the node list.
PublishUnderNodeKey(c) ==
  /\ pc[c] = "publish"
  /\ published' = [published EXCEPT ![c] = states[c].runs]
  /\ generations' = [generations EXCEPT !["node"] = @ + 1]
  /\ Return(c, FALSE)
  /\ UNCHANGED <<cancelled, bootstrapMu, resolution, states>>

\* The publication of c's own domain: Store.bump and the end of the function.
Publish(c) ==
  /\ pc[c] = "publish"
  /\ published' = [published EXCEPT ![c] = states[c].runs]
  /\ generations' = [generations EXCEPT ![c] = @ + 1]
  /\ Return(c, FALSE)
  /\ UNCHANGED <<cancelled, bootstrapMu, resolution, states>>

-----------------------------------------------------------------------------
(* Scheduler and Run *)

\* The signal context is cancelled.
Cancel ==
  /\ ~cancelled
  /\ cancelled' = TRUE
  /\ UNCHANGED <<pc, nodeMu, bootstrapMu, resolution, locals, data, states>>

\* waitForSchedule: the timer wins and Run begins with Store.Start and
\* Store.Generation.  Start never refuses: see RunningIsInside.
StartRun(c) ==
  /\ pc[c] = "wait"
  /\ ~states[c].running
  /\ states[c].runs < MaxRuns[c]
  /\ states' = [states EXCEPT ![c].running = TRUE, ![c].runs = @ + 1]
  /\ generation' = [generation EXCEPT ![c] = generations[c]]
  /\ Goto(c, IF c \in NodeWriters THEN "nodeLock" ELSE "ensure")
  /\ UNCHANGED <<cancelled, nodeMu, bootstrapMu, resolution, failed, caps, draft,
                 tally, data>>

\* Deviation: the context is looked at before the first run only.
ExitBeforeFirstRun(c) ==
  /\ pc[c] = "wait"
  /\ cancelled
  /\ states[c].runs = 0
  /\ Goto(c, "exited")
  /\ UNCHANGED <<cancelled, nodeMu, bootstrapMu, resolution, locals, data, states>>

\* waitForSchedule: ctx.Done wins and the goroutine ends.
ExitTask(c) ==
  /\ pc[c] = "wait"
  /\ cancelled
  /\ Goto(c, "exited")
  /\ UNCHANGED <<cancelled, nodeMu, bootstrapMu, resolution, locals, data, states>>

\* Deviation: whatever returns without an error is a success.
FinishWithoutComparing(c) ==
  /\ pc[c] = "finish"
  /\ states' =
       IF failed[c]
       THEN [states EXCEPT ![c].running = FALSE, ![c].lastError = TRUE]
       ELSE [states EXCEPT ![c].running = FALSE, ![c].lastError = FALSE,
                           ![c].lastSuccess = states[c].runs]
  /\ failed' = [failed EXCEPT ![c] = FALSE]
  /\ generation' = [generation EXCEPT ![c] = 0]
  /\ Goto(c, "wait")
  /\ UNCHANGED <<cancelled, nodeMu, bootstrapMu, resolution, caps, draft, tally, data>>

\* The end of Run: error, skipped when the generation did not move, success.
FinishRun(c) ==
  /\ pc[c] = "finish"
  /\ states' =
       IF failed[c]
       THEN [states EXCEPT ![c].running = FALSE, ![c].lastError = TRUE]
       ELSE IF generations[c] = generation[c]
       THEN [states EXCEPT ![c].running = FALSE, ![c].lastError = FALSE]
       ELSE [states EXCEPT ![c].running = FALSE, ![c].lastError = FALSE,
                           ![c].lastSuccess = states[c].runs]
  /\ failed' = [failed EXCEPT ![c] = FALSE]
  /\ generation' = [generation EXCEPT ![c] = 0]
  /\ Goto(c, "wait")
  /\ UNCHANGED <<cancelled, nodeMu, bootstrapMu, resolution, caps, draft, tally, data>>

-----------------------------------------------------------------------------
(* ensureBootstrap and Bootstrap *)

\* Deviation: node and node-resources do not exclude each other.
LockNothing(c) ==
  /\ pc[c] = "nodeLock"
  /\ nodeMu' = c
  /\ Goto(c, "ensure")
  /\ UNCHANGED <<cancelled, bootstrapMu, resolution, locals, data, states>>

LockNodeMu(c) ==
  /\ pc[c] = "nodeLock"
  /\ nodeMu = Nobody
  /\ nodeMu' = c
  /\ Goto(c, "ensure")
  /\ UNCHANGED <<cancelled, bootstrapMu, resolution, locals, data, states>>

EnsureBootstrap(c) ==
  /\ pc[c] = "ensure"
  /\ Goto(c, IF resolution = NoResolution THEN "bootLock" ELSE AfterBootstrap(c))
  /\ UNCHANGED <<cancelled, nodeMu, bootstrapMu, resolution, locals, data, states>>

\* Deviation: no second look under bootstrapMu.
LockBootstrapBlindly(c) ==
  /\ pc[c] = "bootLock"
  /\ bootstrapMu = Nobody
  /\ bootstrapMu' = c
  /\ Goto(c, "bootFetch")
  /\ UNCHANGED <<cancelled, nodeMu, resolution, locals, data, states>>

\* bootstrapMu is taken and the resolution looked at again; one that appeared
\* in the meantime makes Bootstrap return at once.
LockBootstrap(c) ==
  /\ pc[c] = "bootLock"
  /\ bootstrapMu = Nobody
  /\ IF resolution = NoResolution
     THEN bootstrapMu' = c /\ Goto(c, "bootFetch")
     ELSE UNCHANGED bootstrapMu /\ Goto(c, AfterBootstrap(c))
  /\ UNCHANGED <<cancelled, nodeMu, resolution, locals, data, states>>

\* Deviation: a failed Bootstrap keeps its mutex.
BootstrapErrorLocked(c) ==
  /\ pc[c] = "bootFetch"
  /\ UNCHANGED bootstrapMu
  /\ Return(c, TRUE)
  /\ UNCHANGED <<cancelled, resolution, data, states>>

\* The node list, the profile resolution or the whoami call fails.
BootstrapError(c) ==
  /\ pc[c] = "bootFetch"
  /\ bootstrapMu' = Nobody
  /\ Return(c, TRUE)
  /\ UNCHANGED <<cancelled, resolution, data, states>>

\* They succeed, and the resolution is made visible first ...
BootstrapResolve(c) ==
  /\ pc[c] = "bootFetch"
  /\ \E inventory \in SUBSET NodeIDs \ {{}} :
       draft' = [draft EXCEPT ![c] = ParseNodes(inventory)]
  /\ resolution' \in Resolutions
  /\ Goto(c, "bootPublish")
  /\ UNCHANGED <<cancelled, nodeMu, bootstrapMu, generation, failed, caps, tally,
                 data, states>>

\* ... the node list second, without nodeMu, under the "node" generation.
BootstrapReplaceNodes(c) ==
  /\ pc[c] = "bootPublish"
  /\ nodes' = draft[c]
  /\ generations' = [generations EXCEPT !["node"] = @ + 1]
  /\ draft' = [draft EXCEPT ![c] = EmptyList]
  /\ bootstrapMu' = Nobody
  /\ Goto(c, AfterBootstrap(c))
  /\ UNCHANGED <<cancelled, nodeMu, resolution, generation, failed, caps, tally,
                 counted, replications, published, states>>

-----------------------------------------------------------------------------
(* The Collect functions *)

\* The capabilities are read; with none enabled the function returns nil before
\* it queries anything.  nodeMu keeps the resolution still for node-resources.
CheckCapabilities(c) ==
  LET asked == IF c = "node-resources" THEN ResourceCaps ELSE {"recovery_progress"}
      enabled == {k \in asked : capabilityEnabledFor(resolution, k)}
  IN  /\ c \in {"node-resources", "recovery"}
      /\ pc[c] = "caps"
      /\ IF enabled = {}
         THEN Return(c, FALSE)
         ELSE /\ Goto(c, "fetch")
              /\ caps' = [caps EXCEPT ![c] = enabled]
              /\ UNCHANGED <<nodeMu, generation, failed, draft, tally>>
      /\ UNCHANGED <<cancelled, bootstrapMu, resolution, data, states>>

\* CollectPerformance reads the resolution twice, with no lock in between ...
CheckVDCPerformance(c) ==
  /\ c = "performance"
  /\ pc[c] = "caps"
  /\ caps' = [caps EXCEPT ![c] = {k \in {"vdc_performance"} :
                                    capabilityEnabledFor(resolution, k)}]
  /\ Goto(c, "caps2")
  /\ UNCHANGED <<cancelled, nodeMu, bootstrapMu, resolution, generation, failed, draft,
                 tally, data, states>>

\* ... and takes its default VDC from the cached cluster before it queries.
CheckNamespacePerformance(c) ==
  LET enabled == caps[c] \cup {k \in {"namespace_performance"} :
                                 capabilityEnabledFor(resolution, k)}
  IN  /\ c = "performance"
      /\ pc[c] = "caps2"
      /\ IF enabled = {}
         THEN Return(c, FALSE)
         ELSE /\ Goto(c, "fetch")
              /\ caps' = [caps EXCEPT ![c] = enabled]
              /\ tally' = [tally EXCEPT ![c]["cluster"] = published["cluster"]]
              /\ UNCHANGED <<nodeMu, generation, failed, draft>>
      /\ UNCHANGED <<cancelled, bootstrapMu, resolution, data, states>>

\* An API call or a parse of its answer fails: the error is returned and nothing
\* of what the function gathered reaches the store.
FetchError(c) ==
  /\ pc[c] = "fetch"
  /\ Return(c, TRUE)
  /\ UNCHANGED <<cancelled, bootstrapMu, resolution, data, states>>

\* CollectNodes up to ReplaceNodes: the new list takes the resource values of the
\* Snapshot, and the new resolution becomes visible.
FetchNodes(c) ==
  /\ c = "node"
  /\ pc[c] = "fetch"
  /\ \E inventory \in SUBSET NodeIDs \ {{}} :
     \E reported \in ParseNodeStatuses(inventory), r \in Resolutions :
       /\ draft' = [draft EXCEPT ![c] =
            ApplyNodeStatuses(preserveNodeResources(ParseNodes(inventory), nodes),
                              reported, states[c].runs,
                              capabilityEnabledFor(r, "node_service_process"))]
       /\ resolution' = r
  /\ Goto(c, "publish")
  /\ UNCHANGED <<cancelled, nodeMu, bootstrapMu, generation, failed, caps, tally, data,
                 states>>

\* CollectNodeResources up to ReplaceNodeResources: the list of the Snapshot with
\* its enabled values renewed; an empty list is an error.
FetchNodeResources(c) ==
  /\ c = "node-resources"
  /\ pc[c] = "fetch"
  /\ IF nodes = EmptyList
     THEN Return(c, TRUE)
     ELSE /\ \E reported \in SUBSET Ids(nodes) :
               draft' = [draft EXCEPT ![c] =
                 ApplyNodeResources(nodes, reported, states[c].runs, caps[c])]
          /\ Goto(c, "publish")
          /\ UNCHANGED <<nodeMu, generation, failed, caps, tally>>
  /\ UNCHANGED <<cancelled, bootstrapMu, resolution, data, states>>

\* The lists of the Snapshot whose entries a collector counts: CollectNamespaces those
\* of the buckets, CollectCluster both.
Counts(c) == IF c = "cluster" THEN {"bucket", "namespace"} ELSE {"bucket"}

\* CollectCluster and CollectNamespaces up to their publication.
FetchCounted(c) ==
  /\ c \in {"cluster", "namespace"}
  /\ pc[c] = "fetch"
  /\ tally' = [tally EXCEPT ![c] =
                 [l \in ReadLists |-> IF l \in Counts(c) THEN published[l] ELSE 0]]
  /\ Goto(c, "publish")
  /\ UNCHANGED <<cancelled, nodeMu, bootstrapMu, resolution, generation, failed, caps,
                 draft, data, states>>

\* CollectPerformance: rows without a VDC need the default of the cached cluster.
FetchPerformance(c) ==
  /\ c = "performance"
  /\ pc[c] = "fetch"
  /\ \E rowsNameVDC \in BOOLEAN :
       IF rowsNameVDC \/ tally[c]["cluster"] # 0
       THEN Goto(c, "publish") /\ UNCHANGED <<nodeMu, locals>>
       ELSE Return(c, TRUE)
  /\ UNCHANGED <<cancelled, bootstrapMu, resolution, data, states>>

\* CollectBuckets, CollectReplication and CollectRecovery read nothing back.
FetchOnly(c) ==
  /\ c \in {"bucket", "replication", "recovery"}
  /\ pc[c] = "fetch"
  /\ Goto(c, "publish")
  /\ UNCHANGED <<cancelled, nodeMu, bootstrapMu, resolution, locals, data, states>>

\* Store.ReplaceNodes and Store.ReplaceNodeResources.
ReplaceNodes(c) ==
  /\ c \in NodeWriters
  /\ Publish(c)
  /\ nodes' = draft[c]
  /\ UNCHANGED <<counted, replications>>

\* Store.ReplaceCluster and Store.ReplaceNamespaces.
ReplaceCounted(c) ==
  /\ c \in {"cluster", "namespace"}
  /\ Publish(c)
  /\ counted' = [counted EXCEPT ![c] = tally[c]]
  /\ UNCHANGED <<nodes, replications>>

\* Store.ReplaceBuckets and Store.ReplacePerformances.
ReplacePlain(c) ==
  /\ c \in {"bucket", "performance"}
  /\ Publish(c)
  /\ UNCHANGED <<nodes, counted, replications>>

\* ecs.ParseReplication: one response brings the status and the recovery values.
ParseReplication(now) == [status |-> now, recovery |-> now]

\* Store.ReplaceReplications: one record per configured group and link.
ReplaceReplications(c) ==
  LET now == <<c, states[c].runs>>
  IN  /\ c = "replication"
      /\ Publish(c)
      /\ replications' = [id \in Groups \cup Links |-> ParseReplication(now)]
      /\ UNCHANGED <<nodes, counted>>

\* Deviation: the merge replaces the whole record of a link.
MergeWholeRecord(c) ==
  LET now == <<c, states[c].runs>>
  IN  /\ c = "recovery"
      /\ Publish(c)
      /\ replications' =
           [id \in Groups \cup Links |->
              IF id \in Links THEN ParseReplication(now)
              ELSE replications[id]]
      /\ UNCHANGED <<nodes, counted>>

\* Store.MergeRecovery: the recovery part of known links, whole records for others.
MergeRecovery(c) ==
  LET now == <<c, states[c].runs>>
  IN  /\ c = "recovery"
      /\ Publish(c)
      /\ replications' =
           [id \in Groups \cup Links |->
              IF id \notin Links THEN replications[id]
              ELSE IF replications[id] = Absent THEN ParseReplication(now)
              ELSE [replications[id] EXCEPT !.recovery = now]]
      /\ UNCHANGED <<nodes, counted>>

-----------------------------------------------------------------------------
Step(c) ==
  \/ FinishRun(c) \/ EnsureBootstrap(c)
  \/ BootstrapError(c) \/ BootstrapResolve(c) \/ BootstrapReplaceNodes(c)
  \/ CheckCapabilities(c) \/ CheckVDCPerformance(c) \/ CheckNamespacePerformance(c)
  \/ FetchError(c) \/ FetchNodes(c) \/ FetchNodeResources(c)
  \/ FetchCounted(c) \/ FetchPerformance(c) \/ FetchOnly(c)
  \/ ReplaceNodes(c) \/ ReplaceCounted(c) \/ ReplacePlain(c)
  \/ ReplaceReplications(c) \/ MergeRecovery(c)

Lock(c) == LockNodeMu(c) \/ LockBootstrap(c)

\* Every goroutine has ended: Scheduler.Wait returns.
Stopped ==
  /\ \A c \in Collectors : pc[c] = "exited"
  /\ UNCHANGED vars

Next ==
  \/ Cancel
  \/ Stopped
  \/ \E c \in Collectors : StartRun(c) \/ ExitTask(c) \/ Lock(c) \/ Step(c)

Spec == Init /\ [][Next]_vars

\* A goroutine that can run runs; a Go mutex is starvation-free; a select whose
\* ctx.Done case is ready again and again is not decided for the timer for ever.
Fairness ==
  \A c \in Collectors : WF_vars(Step(c)) /\ SF_vars(Lock(c)) /\ SF_vars(ExitTask(c))

FairSpec == Spec /\ Fairness

-----------------------------------------------------------------------------
(* Properties *)

TypeOK ==
  /\ pc \in [Collectors -> Labels]
  /\ cancelled \in BOOLEAN
  /\ nodeMu \in Collectors \cup {Nobody}
  /\ bootstrapMu \in Collectors \cup {Nobody}
  /\ resolution \in Resolutions \cup {NoResolution}
  /\ generation \in [Collectors -> Nat]
  /\ failed \in [Collectors -> BOOLEAN]
  /\ caps \in [Collectors -> SUBSET Caps]
  /\ draft \in [Collectors -> NodeLists]
  /\ tally \in [Collectors -> [ReadLists -> Nat]]
  /\ nodes \in NodeLists
  /\ counted \in [{"cluster", "namespace"} -> [ReadLists -> Nat]]
  /\ replications \in ReplicationLists
  /\ published \in [AllCollectors -> Nat]
  /\ generations \in [AllCollectors -> Nat]
  /\ states \in [Collectors -> CollectorState]

\* The success time that /metrics and readiness go by is that of the data in the
\* cache: Run claims a success exactly for the run that published, although it
\* only compares generations, which Bootstrap and other collectors bump as well.
SuccessIsPublication ==
  \A c \in Collectors : pc[c] # "finish" => states[c].lastSuccess = published[c]

\* No value of the node list is lost between two lists of the same node.
KeepsResources(old, new) ==
  \A id \in Ids(old) \cap Ids(new) : \A k \in ResourceCaps :
    old[id].res[k] <= new[id].res[k]
KeepsStatuses(old, new) ==
  \A id \in Ids(old) \cap Ids(new) :
    /\ old[id].health <= new[id].health
    /\ old[id].services <= new[id].services

\* The node and the node-resources collector write one list, each after reading a
\* Snapshot of it: neither puts back an older value of the other's (nodeMu,
\* preserveNodeResources).
NoLostNodeUpdate ==
  [][/\ published'["node"] # published["node"] => KeepsResources(nodes, nodes')
     /\ published'["node-resources"] # published["node-resources"]
          => KeepsStatuses(nodes, nodes')]_vars

\* Bootstrap publishes at most once in the life of the process, whatever number of
\* collectors find no resolution at the same time (the second look under bootstrapMu).
BootstrapRunsOnce ==
  [][\A c \in Collectors :
       pc[c] # "bootPublish" /\ pc'[c] = "bootPublish" => resolution = NoResolution]_vars

\* After a replication success every configured group and link is cached with the
\* status of the last replication run; a link's recovery values come from the last
\* run of one of the two writers, a group's never from recovery
\* (ReplaceReplications, MergeRecovery).
ReplicationProvenance ==
  LET replicated == <<"replication", published["replication"]>>
      recovered == <<"recovery", published["recovery"]>>
  IN  published["replication"] # 0 =>
        /\ \A id \in Groups : replications[id] = [status |-> replicated, recovery |-> replicated]
        /\ \A id \in Links :
             /\ replications[id] # Absent
             /\ replications[id].status = replicated
             /\ replications[id].recovery \in {replicated, recovered}

\* The node runs that the statuses of a node list are of.
StatusRuns(list) ==
  (UNION {{list[id].health, list[id].services} : id \in Ids(list)}) \ {0}

\* How far the run of a collector is, as far as the store knows.
Phase(c) ==
  IF ~states[c].running THEN "idle"
  ELSE IF published[c] = states[c].runs THEN "published"
  ELSE "running"

Store ==
  INSTANCE Cache WITH
    Keys <- AllCollectors,
    phase <- [c \in Collectors |-> Phase(c)],
    run <- [c \in Collectors |-> states[c].runs],
    current <- published,
    success <- [c \in Collectors |-> states[c].lastSuccess],
    statuses <- StatusRuns(nodes)

\* The goroutines, with their locks and their lists on the way, implement what the
\* cache promises: a run publishes at most once, its success is recorded when and only
\* when it has (Store.Start, Finish, FinishSkipped and the Replace operations), and a
\* Snapshot has the statuses of the last node run or none.
ImplementsCache == Store!Spec

\* Every run ends, although two collectors hold nodeMu while they ask for bootstrapMu and
\* the others ask for bootstrapMu alone, all over API calls that may fail.
RunsEnd == \A c \in Collectors : states[c].running ~> ~states[c].running

\* Scheduler.Wait returns after the context is cancelled.
ShutdownCompletes == cancelled ~> \A c \in Collectors : pc[c] = "exited"

\* README.md: while the API fails, and after every success, the last complete list
\* stays in the cache.  Bootstrap breaks it: only a later node run may lower the
\* node statuses, and BootstrapReplaceNodes does as well.
CompleteNodesKept ==
  [][published'["node"] = published["node"] => KeepsStatuses(nodes, nodes')]_vars

-----------------------------------------------------------------------------
(* The inductive invariant *)

InRun(c) == pc[c] \notin {"wait", "exited"}

\* A collector holds nodeMu from Lock to the return of its Collect function.
InsideNodeMu(c) == c \in NodeWriters /\ pc[c] \notin {"wait", "nodeLock", "finish", "exited"}
InsideBootstrapMu(c) == pc[c] \in {"bootFetch", "bootPublish"}

MutexInv ==
  \A c \in Collectors :
    /\ pc[c] = "nodeLock" => c \in NodeWriters
    /\ nodeMu = c <=> InsideNodeMu(c)
    /\ bootstrapMu = c <=> InsideBootstrapMu(c)

\* Past ensureBootstrap there is a resolution; inside Bootstrap's calls there is none.
ResolutionInv ==
  \A c \in Collectors :
    /\ pc[c] = "bootFetch" => resolution = NoResolution
    /\ pc[c] \in {"bootPublish", "caps", "caps2", "fetch", "publish"}
         => resolution # NoResolution

\* state.Running is set while the goroutine is inside Run and only then, so Start
\* never refuses a scheduled run.
RunningIsInside == \A c \in Collectors : states[c].running <=> InRun(c)

\* How far the generation, the publication and the recorded success of a run are.
RunInv ==
  \A c \in Collectors :
    /\ states[c].lastSuccess <= states[c].runs
    /\ InRun(c) => states[c].lastSuccess < states[c].runs
    /\ failed[c] => pc[c] = "finish"
    /\ pc[c] # "finish" => states[c].lastSuccess = published[c]
    /\ InRun(c) /\ pc[c] # "finish" =>
         /\ generation[c] <= generations[c]
         /\ c # "node" => generation[c] = generations[c]
    /\ pc[c] = "finish" =>
         \/ failed[c] /\ states[c].lastSuccess = published[c]
         \/ /\ ~failed[c] /\ c # "node"
            /\ generation[c] = generations[c]
            /\ states[c].lastSuccess = published[c]
         \/ /\ ~failed[c]
            /\ generation[c] < generations[c]
            /\ published[c] = states[c].runs

\* What a node list on its way to the store may still lower.
DraftInv ==
  \A c \in Collectors :
    /\ pc[c] = "bootPublish" =>
         \A id \in Ids(draft[c]) :
           draft[c][id] = [health |-> 0, services |-> 0, res |-> NoResources]
    /\ c = "node" /\ pc[c] = "publish" => KeepsResources(nodes, draft[c])
    /\ c = "node-resources" /\ pc[c] = "publish" => KeepsStatuses(nodes, draft[c])

\* Which node runs' statuses a node list has: one on its way to the store, and the
\* cached one.
StatusInv ==
  /\ StatusRuns(nodes) \subseteq {published["node"]}
  /\ \A c \in Collectors :
       /\ c = "node" /\ pc[c] = "publish" => StatusRuns(draft[c]) \subseteq {states[c].runs}
       /\ c = "node-resources" /\ pc[c] = "publish" =>
            StatusRuns(draft[c]) \subseteq {published["node"]}

IInv ==
  /\ TypeOK
  /\ MutexInv
  /\ ResolutionInv
  /\ RunningIsInside
  /\ RunInv
  /\ DraftInv
  /\ StatusInv
  /\ ReplicationProvenance

=============================================================================
