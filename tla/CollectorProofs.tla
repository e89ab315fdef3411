-------------------------- MODULE CollectorProofs --------------------------
(***************************************************************************)
(* Theorems about Collector, for every set of collectors, nodes, profiles, *)
(* groups and links and every number of runs.                              *)
(***************************************************************************)
EXTENDS Collector, TLAPS

USE DEF AllCollectors, NodeWriters, Gated, Labels

-----------------------------------------------------------------------------
(* The operators on node lists *)

\* ParseNodes returns a list of exactly the inventory's nodes.
LEMMA ParseNodesType ==
  ASSUME NEW inventory \in SUBSET NodeIDs
  PROVE  /\ ParseNodes(inventory) \in NodeLists
         /\ Ids(ParseNodes(inventory)) = inventory
BY AbsentAssumption DEF ParseNodes, NodeLists, NodeRecord, NoResources, Ids

\* preserveNodeResources keeps the nodes of the new list, and every resource value
\* of a node that both lists have.
LEMMA PreserveKeeps ==
  ASSUME NEW list \in NodeLists, NEW previous \in NodeLists
  PROVE  LET new == preserveNodeResources(list, previous)
         IN  /\ new \in NodeLists
             /\ Ids(new) = Ids(list)
             /\ KeepsResources(previous, new)
<1> DEFINE new == preserveNodeResources(list, previous)
<1>1. ASSUME NEW id \in NodeIDs
      PROVE  /\ new[id] \in NodeRecord \cup {Absent}
             /\ new[id] = Absent <=> list[id] = Absent
             /\ id \in Ids(list) \cap Ids(previous) => new[id].res = previous[id].res
  BY AbsentAssumption DEF preserveNodeResources, NodeLists, NodeRecord, Ids
<1>2. new \in NodeLists
  BY <1>1 DEF preserveNodeResources, NodeLists
<1>3. Ids(new) = Ids(list)
  BY <1>1, <1>2 DEF NodeLists, Ids
<1>4. KeepsResources(previous, new)
  <2>1. SUFFICES ASSUME NEW id \in Ids(previous) \cap Ids(new), NEW k \in ResourceCaps
                 PROVE  previous[id].res[k] <= new[id].res[k]
    BY DEF KeepsResources
  <2>2. new[id].res = previous[id].res
    BY <1>1, <1>3 DEF NodeLists, Ids
  <2>3. previous[id].res[k] \in Nat
    BY DEF NodeLists, NodeRecord, Ids
  <2>4. QED
    BY <2>2, <2>3
<1>5. QED
  BY <1>2, <1>3, <1>4

\* ApplyNodeStatuses touches no resource value.
LEMMA StatusesKeepResources ==
  ASSUME NEW list \in NodeLists, NEW reported, NEW run \in Nat, NEW services \in BOOLEAN
  PROVE  LET new == ApplyNodeStatuses(list, reported, run, services)
         IN  /\ new \in NodeLists
             /\ Ids(new) = Ids(list)
             /\ \A id \in Ids(list) : new[id].res = list[id].res
<1> DEFINE new == ApplyNodeStatuses(list, reported, run, services)
<1>1. ASSUME NEW id \in NodeIDs
      PROVE  /\ new[id] \in NodeRecord \cup {Absent}
             /\ new[id] = Absent <=> list[id] = Absent
             /\ id \in Ids(list) => new[id].res = list[id].res
  <2>1. CASE id \in Ids(list)
    <3>1. list[id] \in NodeRecord
      BY <2>1 DEF NodeLists, Ids
    <3>2. \/ new[id] = list[id]
          \/ \E n \in Nat : new[id] = [list[id] EXCEPT !.health = run, !.services = n]
      <4>1. (IF services THEN run ELSE 0) \in Nat
        OBVIOUS
      <4>2. QED
        BY <4>1 DEF ApplyNodeStatuses
    <3>3. new[id] \in NodeRecord /\ new[id].res = list[id].res
      <4>1. CASE new[id] = list[id]
        BY <3>1, <4>1
      <4>2. ASSUME NEW n \in Nat,
                   new[id] = [list[id] EXCEPT !.health = run, !.services = n]
            PROVE  new[id] \in NodeRecord /\ new[id].res = list[id].res
        BY <3>1, <4>2 DEF NodeRecord
      <4>3. QED
        BY <3>2, <4>1, <4>2
    <3>4. QED
      BY <2>1, <3>1, <3>3, AbsentAssumption
  <2>2. CASE id \notin Ids(list)
    BY <2>2 DEF ApplyNodeStatuses, NodeLists, Ids
  <2>3. QED
    BY <2>1, <2>2
<1>2. new \in NodeLists
  BY <1>1 DEF ApplyNodeStatuses, NodeLists
<1>3. Ids(new) = Ids(list)
  BY <1>1, <1>2 DEF NodeLists, Ids
<1>4. QED
  BY <1>1, <1>2, <1>3 DEF NodeLists, Ids

\* ApplyNodeResources touches neither the health nor the services of a node.
LEMMA ResourcesKeepStatuses ==
  ASSUME NEW list \in NodeLists, NEW reported, NEW run \in Nat, NEW enabled
  PROVE  LET new == ApplyNodeResources(list, reported, run, enabled)
         IN  /\ new \in NodeLists
             /\ KeepsStatuses(list, new)
<1> DEFINE new == ApplyNodeResources(list, reported, run, enabled)
<1>1. ASSUME NEW id \in NodeIDs
      PROVE  /\ new[id] \in NodeRecord \cup {Absent}
             /\ id \in Ids(list) =>
                  /\ new[id].health = list[id].health
                  /\ new[id].services = list[id].services
  BY AbsentAssumption DEF ApplyNodeResources, NodeLists, NodeRecord, Ids
<1>2. new \in NodeLists
  BY <1>1 DEF ApplyNodeResources, NodeLists
<1>3. KeepsStatuses(list, new)
  <2>1. SUFFICES ASSUME NEW id \in Ids(list)
                 PROVE  /\ list[id].health <= new[id].health
                        /\ list[id].services <= new[id].services
    BY DEF KeepsStatuses
  <2>2. list[id].health \in Nat /\ list[id].services \in Nat
    BY DEF NodeLists, NodeRecord, Ids
  <2>3. QED
    BY <1>1, <2>2 DEF NodeLists, Ids
<1>4. QED
  BY <1>2, <1>3

-----------------------------------------------------------------------------
(* Type correctness *)

\* The list a Collect function starts from is a node list.
LEMMA EmptyListType == EmptyList \in NodeLists
BY DEF EmptyList, NodeLists

\* A new Runner and an empty Store are well typed.
LEMMA TypeInit == Init => TypeOK
<1> SUFFICES ASSUME Init
             PROVE  TypeOK
  OBVIOUS
<1>1. NoTally \in [ReadLists -> Nat]
  BY DEF NoTally
<1>2. NewState \in CollectorState
  BY DEF NewState, CollectorState
<1>3. replications \in ReplicationLists
  BY DEF Init, NewRunner, ReplicationLists
<1>4. /\ counted \in [{"cluster", "namespace"} -> [ReadLists -> Nat]]
      /\ tally \in [Collectors -> [ReadLists -> Nat]]
      /\ states \in [Collectors -> CollectorState]
  BY <1>1, <1>2 DEF Init, NewRunner
<1>5. /\ draft \in [Collectors -> NodeLists]
      /\ nodes \in NodeLists
  BY EmptyListType DEF Init, NewRunner
<1>6. QED
  BY <1>3, <1>4, <1>5 DEF Init, NewRunner, TypeOK

\* What the return of a Collect function leaves behind is well typed.
LEMMA ReturnType ==
  ASSUME TypeOK, NEW c \in Collectors, NEW err \in BOOLEAN, Return(c, err)
  PROVE  /\ pc' \in [Collectors -> Labels]
         /\ nodeMu' \in Collectors \cup {Nobody}
         /\ generation' \in [Collectors -> Nat]
         /\ failed' \in [Collectors -> BOOLEAN]
         /\ caps' \in [Collectors -> SUBSET Caps]
         /\ draft' \in [Collectors -> NodeLists]
         /\ tally' \in [Collectors -> [ReadLists -> Nat]]
<1>1. NoTally \in [ReadLists -> Nat]
  BY DEF NoTally
<1>2. QED
  BY <1>1, EmptyListType DEF TypeOK, Return, Goto

\* A publication leaves everything but the lists it replaces well typed.
LEMMA PublishType ==
  ASSUME TypeOK, NEW c \in Collectors, Publish(c),
         nodes' \in NodeLists,
         counted' \in [{"cluster", "namespace"} -> [ReadLists -> Nat]],
         replications' \in ReplicationLists
  PROVE  TypeOK'
<1>1. /\ published' \in [AllCollectors -> Nat]
      /\ generations' \in [AllCollectors -> Nat]
  <2>1. states[c].runs \in Nat
    BY DEF TypeOK, CollectorState
  <2>2. QED
    BY <2>1, CollectorsAssumption DEF TypeOK, Publish
<1>2. Return(c, FALSE)
  BY DEF Publish
<1>3. QED
  BY <1>1, <1>2, ReturnType DEF TypeOK, Publish

\* Every step of a collector goroutine keeps the types.
LEMMA TypeStep == TypeOK /\ [Next]_vars => TypeOK'
<1> SUFFICES ASSUME TypeOK, [Next]_vars
             PROVE  TypeOK'
  OBVIOUS
<1> USE CollectorsAssumption DEF TypeOK, Goto, locals, data
<1>1. CASE Cancel
  BY <1>1 DEF Cancel
<1>2. CASE Stopped
  BY <1>2 DEF Stopped, vars
<1>3. CASE UNCHANGED vars
  BY <1>3 DEF vars
<1>4. ASSUME NEW c \in Collectors,
             StartRun(c) \/ ExitTask(c) \/ Lock(c) \/ Step(c)
      PROVE  TypeOK'
  <2>1. CASE StartRun(c)
    <3>1. states[c] \in CollectorState
      OBVIOUS
    <3>2. [states[c] EXCEPT !.running = TRUE, !.runs = states[c].runs + 1]
            \in CollectorState
      <4>1. states[c].runs + 1 \in Nat
        BY <3>1 DEF CollectorState
      <4>2. ASSUME NEW n \in Nat
            PROVE  [states[c] EXCEPT !.running = TRUE, !.runs = n] \in CollectorState
        BY <3>1 DEF CollectorState
      <4>3. QED
        BY <4>1, <4>2
    <3>3. states' = [states EXCEPT ![c] =
                       [states[c] EXCEPT !.running = TRUE, !.runs = states[c].runs + 1]]
      BY <2>1 DEF StartRun
    <3>4. states' \in [Collectors -> CollectorState]
      BY <3>2, <3>3
    <3>5. QED
      BY <2>1, <3>4 DEF StartRun
  <2>2. CASE ExitTask(c)
    BY <2>2 DEF ExitTask
  <2>3. CASE LockNodeMu(c)
    BY <2>3 DEF LockNodeMu
  <2>4. CASE LockBootstrap(c)
    BY <2>4 DEF LockBootstrap, AfterBootstrap
  <2>5. CASE FinishRun(c)
    <3>1. states[c] \in CollectorState
      OBVIOUS
    <3>2. /\ [states[c] EXCEPT !.running = FALSE, !.lastError = TRUE] \in CollectorState
          /\ [states[c] EXCEPT !.running = FALSE, !.lastError = FALSE] \in CollectorState
          /\ [states[c] EXCEPT !.running = FALSE, !.lastError = FALSE,
                               !.lastSuccess = states[c].runs] \in CollectorState
      BY <3>1 DEF CollectorState
    <3>3. \/ states' = [states EXCEPT ![c] =
                          [states[c] EXCEPT !.running = FALSE, !.lastError = TRUE]]
          \/ states' = [states EXCEPT ![c] =
                          [states[c] EXCEPT !.running = FALSE, !.lastError = FALSE]]
          \/ states' = [states EXCEPT ![c] =
                          [states[c] EXCEPT !.running = FALSE, !.lastError = FALSE,
                                            !.lastSuccess = states[c].runs]]
      BY <2>5 DEF FinishRun
    <3>4. states' \in [Collectors -> CollectorState]
      BY <3>2, <3>3
    <3>5. QED
      BY <2>5, <3>4 DEF FinishRun
  <2>6. CASE EnsureBootstrap(c)
    BY <2>6 DEF EnsureBootstrap, AfterBootstrap
  <2>7. CASE BootstrapError(c)
    BY <2>7, ReturnType DEF BootstrapError
  <2>8. CASE BootstrapResolve(c)
    BY <2>8, ParseNodesType DEF BootstrapResolve
  <2>9. CASE BootstrapReplaceNodes(c)
    BY <2>9, EmptyListType DEF BootstrapReplaceNodes, AfterBootstrap
  <2>10. CASE CheckCapabilities(c)
    <3> DEFINE asked == IF c = "node-resources" THEN ResourceCaps
                        ELSE {"recovery_progress"}
               enabled == {k \in asked : capabilityEnabledFor(resolution, k)}
    <3>1. CASE enabled = {}
      BY <2>10, <3>1, ReturnType DEF CheckCapabilities
    <3>2. CASE enabled # {}
      <4>1. enabled \in SUBSET Caps
        BY DEF Caps
      <4>2. /\ pc' = [pc EXCEPT ![c] = "fetch"]
            /\ caps' = [caps EXCEPT ![c] = enabled]
            /\ UNCHANGED <<cancelled, bootstrapMu, resolution, data, states,
                           nodeMu, generation, failed, draft, tally>>
        BY <2>10, <3>2 DEF CheckCapabilities
      <4> HIDE DEF enabled
      <4>3. QED
        BY <4>1, <4>2
    <3>3. QED
      BY <3>1, <3>2
  <2>11. CASE CheckVDCPerformance(c)
    BY <2>11 DEF CheckVDCPerformance, Caps, PerformanceCaps
  <2>12. CASE CheckNamespacePerformance(c)
    <3> DEFINE enabled == caps[c] \cup {k \in {"namespace_performance"} :
                                          capabilityEnabledFor(resolution, k)}
    <3>1. CASE enabled = {}
      BY <2>12, <3>1, ReturnType DEF CheckNamespacePerformance
    <3>2. CASE enabled # {}
      <4>1. enabled \in SUBSET Caps
        BY DEF Caps, PerformanceCaps
      <4>2. /\ pc' = [pc EXCEPT ![c] = "fetch"]
            /\ caps' = [caps EXCEPT ![c] = enabled]
            /\ tally' = [tally EXCEPT ![c]["cluster"] = published["cluster"]]
            /\ UNCHANGED <<cancelled, bootstrapMu, resolution, data, states,
                           nodeMu, generation, failed, draft>>
        BY <2>12, <3>2 DEF CheckNamespacePerformance
      <4>3. tally' \in [Collectors -> [ReadLists -> Nat]]
        BY <4>2 DEF ReadLists
      <4> HIDE DEF enabled
      <4>4. QED
        BY <4>1, <4>2, <4>3
    <3>3. QED
      BY <3>1, <3>2
  <2>13. CASE FetchError(c)
    BY <2>13, ReturnType DEF FetchError
  <2>14. CASE FetchNodes(c)
    <3>1. states[c].runs \in Nat
      BY DEF CollectorState
    <3>2. ASSUME NEW inventory \in SUBSET NodeIDs, NEW reported, NEW r \in Resolutions
          PROVE  ApplyNodeStatuses(preserveNodeResources(ParseNodes(inventory), nodes),
                                   reported, states[c].runs,
                                   capabilityEnabledFor(r, "node_service_process"))
                   \in NodeLists
      <4>1. preserveNodeResources(ParseNodes(inventory), nodes) \in NodeLists
        BY ParseNodesType, PreserveKeeps
      <4>2. capabilityEnabledFor(r, "node_service_process") \in BOOLEAN
        BY DEF capabilityEnabledFor
      <4>3. QED
        BY <3>1, <4>1, <4>2, StatusesKeepResources
    <3>3. draft' \in [Collectors -> NodeLists] /\ resolution' \in Resolutions
      BY <2>14, <3>2 DEF FetchNodes
    <3>4. QED
      BY <2>14, <3>3 DEF FetchNodes
  <2>15. CASE FetchNodeResources(c)
    <3>1. CASE nodes = EmptyList
      BY <2>15, <3>1, ReturnType DEF FetchNodeResources
    <3>2. CASE nodes # EmptyList
      <4>1. states[c].runs \in Nat
        BY DEF CollectorState
      <4>2. PICK reported \in SUBSET Ids(nodes) :
              draft' = [draft EXCEPT ![c] =
                ApplyNodeResources(nodes, reported, states[c].runs, caps[c])]
        BY <2>15, <3>2 DEF FetchNodeResources
      <4>3. ApplyNodeResources(nodes, reported, states[c].runs, caps[c]) \in NodeLists
        BY <4>1, ResourcesKeepStatuses
      <4>4. draft' \in [Collectors -> NodeLists]
        BY <4>2, <4>3
      <4>5. QED
        BY <2>15, <3>2, <4>4 DEF FetchNodeResources
    <3>3. QED
      BY <3>1, <3>2
  <2>16. CASE FetchCounted(c)
    <3>1. [l \in ReadLists |-> IF l \in Counts(c) THEN published[l] ELSE 0] \in [ReadLists -> Nat]
      BY DEF ReadLists
    <3>2. QED
      BY <2>16, <3>1 DEF FetchCounted
  <2>17. CASE FetchPerformance(c)
    BY <2>17, ReturnType DEF FetchPerformance
  <2>18. CASE FetchOnly(c)
    BY <2>18 DEF FetchOnly
  <2>19. CASE ReplaceNodes(c)
    BY <2>19, PublishType DEF ReplaceNodes
  <2>20. CASE ReplaceCounted(c)
    BY <2>20, PublishType DEF ReplaceCounted
  <2>21. CASE ReplacePlain(c)
    BY <2>21, PublishType DEF ReplacePlain
  <2>22. CASE ReplaceReplications(c)
    <3>1. <<c, states[c].runs>> \in Origin
      BY <2>22 DEF ReplaceReplications, ParseReplication, Origin, CollectorState
    <3>2. replications' \in ReplicationLists
      BY <2>22, <3>1 DEF ReplaceReplications, ParseReplication, ReplicationLists, LinkRecord
    <3>3. QED
      BY <2>22, <3>2, PublishType DEF ReplaceReplications, ParseReplication
  <2>23. CASE MergeRecovery(c)
    <3> DEFINE now == <<c, states[c].runs>>
    <3>1. now \in Origin
      BY <2>23 DEF MergeRecovery, ParseReplication, Origin, CollectorState
    <3>2. ASSUME NEW id \in Groups \cup Links
          PROVE  replications'[id] \in LinkRecord \cup {Absent}
      <4>1. \/ replications'[id] = replications[id]
            \/ replications'[id] = [status |-> now, recovery |-> now]
            \/ /\ replications[id] # Absent
               /\ replications'[id] = [replications[id] EXCEPT !.recovery = now]
        BY <2>23 DEF MergeRecovery, ParseReplication
      <4>2. replications[id] \in LinkRecord \cup {Absent}
        BY DEF ReplicationLists
      <4>3. QED
        <5>1. CASE replications'[id] = replications[id]
          BY <4>2, <5>1
        <5>2. CASE replications'[id] = [status |-> now, recovery |-> now]
          BY <3>1, <5>2 DEF LinkRecord
        <5>3. CASE /\ replications[id] # Absent
                   /\ replications'[id] = [replications[id] EXCEPT !.recovery = now]
          <6>1. replications[id] \in LinkRecord
            BY <4>2, <5>3
          <6> HIDE DEF now
          <6>2. QED
            BY <3>1, <5>3, <6>1 DEF LinkRecord
        <5>4. QED
          BY <4>1, <5>1, <5>2, <5>3
    <3>3. replications' \in ReplicationLists
      BY <2>23, <3>2 DEF MergeRecovery, ParseReplication, ReplicationLists
    <3>4. QED
      BY <2>23, <3>3, PublishType DEF MergeRecovery
  <2> QED
    BY <1>4, <2>1, <2>2, <2>3, <2>4, <2>5, <2>6, <2>7, <2>8, <2>9, <2>10, <2>11,
       <2>12, <2>13, <2>14, <2>15, <2>16, <2>17, <2>18, <2>19, <2>20, <2>21, <2>22, <2>23
       DEF Lock, Step
<1> QED
  BY <1>1, <1>2, <1>3, <1>4 DEF Next

-----------------------------------------------------------------------------
(* The mutexes, the resolution and the Running flag *)

\* Every step keeps nodeMu and bootstrapMu with the goroutines inside them.
LEMMA MutexStep == TypeOK /\ MutexInv /\ [Next]_vars => MutexInv'
<1> SUFFICES ASSUME TypeOK, MutexInv, [Next]_vars
             PROVE  MutexInv'
  OBVIOUS
<1>a. pc \in [Collectors -> Labels]
  BY DEF TypeOK
<1> USE <1>a, CollectorsAssumption, NobodyAssumption
    DEF Goto, MutexInv, InsideNodeMu, InsideBootstrapMu, locals, data
<1>1. CASE Cancel
  BY <1>1 DEF Cancel
<1>2. CASE Stopped
  BY <1>2 DEF Stopped, vars
<1>3. CASE UNCHANGED vars
  BY <1>3 DEF vars
<1>4. ASSUME NEW c \in Collectors,
             StartRun(c) \/ ExitTask(c) \/ Lock(c) \/ Step(c)
      PROVE  MutexInv'
  <2>1. CASE StartRun(c)
    BY <2>1 DEF StartRun
  <2>2. CASE ExitTask(c)
    BY <2>2 DEF ExitTask
  <2>3. CASE LockNodeMu(c)
    BY <2>3 DEF LockNodeMu
  <2>4. CASE LockBootstrap(c)
    BY <2>4 DEF LockBootstrap, AfterBootstrap
  <2>5. CASE FinishRun(c)
    BY <2>5 DEF FinishRun
  <2>6. CASE EnsureBootstrap(c)
    BY <2>6 DEF EnsureBootstrap, AfterBootstrap
  <2>7. CASE BootstrapError(c)
    BY <2>7 DEF BootstrapError, Return
  <2>8. CASE BootstrapResolve(c)
    BY <2>8 DEF BootstrapResolve
  <2>9. CASE BootstrapReplaceNodes(c)
    BY <2>9 DEF BootstrapReplaceNodes, AfterBootstrap
  <2>10. CASE CheckCapabilities(c)
    BY <2>10 DEF CheckCapabilities, Return
  <2>11. CASE CheckVDCPerformance(c)
    BY <2>11 DEF CheckVDCPerformance
  <2>12. CASE CheckNamespacePerformance(c)
    BY <2>12 DEF CheckNamespacePerformance, Return
  <2>13. CASE FetchError(c)
    BY <2>13 DEF FetchError, Return
  <2>14. CASE FetchNodes(c)
    BY <2>14 DEF FetchNodes
  <2>15. CASE FetchNodeResources(c)
    BY <2>15 DEF FetchNodeResources, Return
  <2>16. CASE FetchCounted(c)
    BY <2>16 DEF FetchCounted
  <2>17. CASE FetchPerformance(c)
    BY <2>17 DEF FetchPerformance, Return
  <2>18. CASE FetchOnly(c)
    BY <2>18 DEF FetchOnly
  <2>19. CASE ReplaceNodes(c)
    BY <2>19 DEF ReplaceNodes, Publish, Return
  <2>20. CASE ReplaceCounted(c)
    BY <2>20 DEF ReplaceCounted, Publish, Return
  <2>21. CASE ReplacePlain(c)
    BY <2>21 DEF ReplacePlain, Publish, Return
  <2>22. CASE ReplaceReplications(c)
    BY <2>22 DEF ReplaceReplications, Publish, Return
  <2>23. CASE MergeRecovery(c)
    BY <2>23 DEF MergeRecovery, Publish, Return
  <2> QED
    BY <1>4, <2>1, <2>2, <2>3, <2>4, <2>5, <2>6, <2>7, <2>8, <2>9, <2>10, <2>11,
       <2>12, <2>13, <2>14, <2>15, <2>16, <2>17, <2>18, <2>19, <2>20, <2>21, <2>22, <2>23
       DEF Lock, Step
<1> QED
  BY <1>1, <1>2, <1>3, <1>4 DEF Next

\* Every step keeps what a goroutine past ensureBootstrap relies on.
LEMMA ResolutionStep == TypeOK /\ MutexInv /\ ResolutionInv /\ [Next]_vars => ResolutionInv'
<1> SUFFICES ASSUME TypeOK, MutexInv, ResolutionInv, [Next]_vars
             PROVE  ResolutionInv'
  OBVIOUS
<1>a. pc \in [Collectors -> Labels]
  BY DEF TypeOK
<1>b. ASSUME NEW c \in Collectors, NEW d \in Collectors,
             pc[c] \in {"bootFetch", "bootPublish"},
             pc[d] \in {"bootFetch", "bootPublish"}
      PROVE  c = d
  BY <1>b DEF MutexInv, InsideBootstrapMu
<1> USE <1>a, <1>b, ResolutionsAssumption DEF Goto, ResolutionInv, locals, data
<1>1. CASE Cancel
  BY <1>1 DEF Cancel
<1>2. CASE Stopped
  BY <1>2 DEF Stopped, vars
<1>3. CASE UNCHANGED vars
  BY <1>3 DEF vars
<1>4. ASSUME NEW c \in Collectors,
             StartRun(c) \/ ExitTask(c) \/ Lock(c) \/ Step(c)
      PROVE  ResolutionInv'
  <2>1. CASE StartRun(c)
    BY <2>1 DEF StartRun
  <2>2. CASE ExitTask(c)
    BY <2>2 DEF ExitTask
  <2>3. CASE LockNodeMu(c)
    BY <2>3 DEF LockNodeMu
  <2>4. CASE LockBootstrap(c)
    BY <2>4 DEF LockBootstrap, AfterBootstrap
  <2>5. CASE FinishRun(c)
    BY <2>5 DEF FinishRun
  <2>6. CASE EnsureBootstrap(c)
    BY <2>6 DEF EnsureBootstrap, AfterBootstrap
  <2>7. CASE BootstrapError(c)
    BY <2>7 DEF BootstrapError, Return
  <2>8. CASE BootstrapResolve(c)
    BY <2>8 DEF BootstrapResolve
  <2>9. CASE BootstrapReplaceNodes(c)
    BY <2>9 DEF BootstrapReplaceNodes, AfterBootstrap
  <2>10. CASE CheckCapabilities(c)
    BY <2>10 DEF CheckCapabilities, Return
  <2>11. CASE CheckVDCPerformance(c)
    BY <2>11 DEF CheckVDCPerformance
  <2>12. CASE CheckNamespacePerformance(c)
    BY <2>12 DEF CheckNamespacePerformance, Return
  <2>13. CASE FetchError(c)
    BY <2>13 DEF FetchError, Return
  <2>14. CASE FetchNodes(c)
    BY <2>14 DEF FetchNodes
  <2>15. CASE FetchNodeResources(c)
    BY <2>15 DEF FetchNodeResources, Return
  <2>16. CASE FetchCounted(c)
    BY <2>16 DEF FetchCounted
  <2>17. CASE FetchPerformance(c)
    BY <2>17 DEF FetchPerformance, Return
  <2>18. CASE FetchOnly(c)
    BY <2>18 DEF FetchOnly
  <2>19. CASE ReplaceNodes(c)
    BY <2>19 DEF ReplaceNodes, Publish, Return
  <2>20. CASE ReplaceCounted(c)
    BY <2>20 DEF ReplaceCounted, Publish, Return
  <2>21. CASE ReplacePlain(c)
    BY <2>21 DEF ReplacePlain, Publish, Return
  <2>22. CASE ReplaceReplications(c)
    BY <2>22 DEF ReplaceReplications, Publish, Return
  <2>23. CASE MergeRecovery(c)
    BY <2>23 DEF MergeRecovery, Publish, Return
  <2> QED
    BY <1>4, <2>1, <2>2, <2>3, <2>4, <2>5, <2>6, <2>7, <2>8, <2>9, <2>10, <2>11,
       <2>12, <2>13, <2>14, <2>15, <2>16, <2>17, <2>18, <2>19, <2>20, <2>21, <2>22, <2>23
       DEF Lock, Step
<1> QED
  BY <1>1, <1>2, <1>3, <1>4 DEF Next

\* Every step keeps state.Running equal to being inside Run.
LEMMA RunningStep == TypeOK /\ RunningIsInside /\ [Next]_vars => RunningIsInside'
<1> SUFFICES ASSUME TypeOK, RunningIsInside, [Next]_vars
             PROVE  RunningIsInside'
  OBVIOUS
<1>a. /\ pc \in [Collectors -> Labels]
      /\ states \in [Collectors -> CollectorState]
  BY DEF TypeOK
<1> USE <1>a DEF Goto, RunningIsInside, InRun, CollectorState, locals, data
<1>1. CASE Cancel
  BY <1>1 DEF Cancel
<1>2. CASE Stopped
  BY <1>2 DEF Stopped, vars
<1>3. CASE UNCHANGED vars
  BY <1>3 DEF vars
<1>4. ASSUME NEW c \in Collectors,
             StartRun(c) \/ ExitTask(c) \/ Lock(c) \/ Step(c)
      PROVE  RunningIsInside'
  <2>1. CASE StartRun(c)
    BY <2>1 DEF StartRun
  <2>2. CASE ExitTask(c)
    BY <2>2 DEF ExitTask
  <2>3. CASE LockNodeMu(c)
    BY <2>3 DEF LockNodeMu
  <2>4. CASE LockBootstrap(c)
    BY <2>4 DEF LockBootstrap, AfterBootstrap
  <2>5. CASE FinishRun(c)
    BY <2>5 DEF FinishRun
  <2>6. CASE EnsureBootstrap(c)
    BY <2>6 DEF EnsureBootstrap, AfterBootstrap
  <2>7. CASE BootstrapError(c)
    BY <2>7 DEF BootstrapError, Return
  <2>8. CASE BootstrapResolve(c)
    BY <2>8 DEF BootstrapResolve
  <2>9. CASE BootstrapReplaceNodes(c)
    BY <2>9 DEF BootstrapReplaceNodes, AfterBootstrap
  <2>10. CASE CheckCapabilities(c)
    BY <2>10 DEF CheckCapabilities, Return
  <2>11. CASE CheckVDCPerformance(c)
    BY <2>11 DEF CheckVDCPerformance
  <2>12. CASE CheckNamespacePerformance(c)
    BY <2>12 DEF CheckNamespacePerformance, Return
  <2>13. CASE FetchError(c)
    BY <2>13 DEF FetchError, Return
  <2>14. CASE FetchNodes(c)
    BY <2>14 DEF FetchNodes
  <2>15. CASE FetchNodeResources(c)
    BY <2>15 DEF FetchNodeResources, Return
  <2>16. CASE FetchCounted(c)
    BY <2>16 DEF FetchCounted
  <2>17. CASE FetchPerformance(c)
    BY <2>17 DEF FetchPerformance, Return
  <2>18. CASE FetchOnly(c)
    BY <2>18 DEF FetchOnly
  <2>19. CASE ReplaceNodes(c)
    BY <2>19 DEF ReplaceNodes, Publish, Return
  <2>20. CASE ReplaceCounted(c)
    BY <2>20 DEF ReplaceCounted, Publish, Return
  <2>21. CASE ReplacePlain(c)
    BY <2>21 DEF ReplacePlain, Publish, Return
  <2>22. CASE ReplaceReplications(c)
    BY <2>22 DEF ReplaceReplications, Publish, Return
  <2>23. CASE MergeRecovery(c)
    BY <2>23 DEF MergeRecovery, Publish, Return
  <2> QED
    BY <1>4, <2>1, <2>2, <2>3, <2>4, <2>5, <2>6, <2>7, <2>8, <2>9, <2>10, <2>11,
       <2>12, <2>13, <2>14, <2>15, <2>16, <2>17, <2>18, <2>19, <2>20, <2>21, <2>22, <2>23
       DEF Lock, Step
<1> QED
  BY <1>1, <1>2, <1>3, <1>4 DEF Next

-----------------------------------------------------------------------------
(* Runs, generations and successes *)

\* Every step keeps generation, publication and recorded success of a run in line.
LEMMA RunStep == TypeOK /\ RunInv /\ [Next]_vars => RunInv'
<1> SUFFICES ASSUME TypeOK, RunInv, [Next]_vars
             PROVE  RunInv'
  OBVIOUS
<1>a. /\ pc \in [Collectors -> Labels]
      /\ generation \in [Collectors -> Nat]
      /\ failed \in [Collectors -> BOOLEAN]
      /\ published \in [AllCollectors -> Nat]
      /\ generations \in [AllCollectors -> Nat]
      /\ states \in [Collectors -> CollectorState]
  BY DEF TypeOK
<1> USE <1>a, CollectorsAssumption DEF Goto, RunInv, InRun, CollectorState, locals, data
<1>1. CASE Cancel
  BY <1>1 DEF Cancel
<1>2. CASE Stopped
  BY <1>2 DEF Stopped, vars
<1>3. CASE UNCHANGED vars
  BY <1>3 DEF vars
<1>4. ASSUME NEW c \in Collectors,
             StartRun(c) \/ ExitTask(c) \/ Lock(c) \/ Step(c)
      PROVE  RunInv'
  <2>1. CASE StartRun(c)
    BY <2>1 DEF StartRun
  <2>2. CASE ExitTask(c)
    BY <2>2 DEF ExitTask
  <2>3. CASE LockNodeMu(c)
    BY <2>3 DEF LockNodeMu
  <2>4. CASE LockBootstrap(c)
    BY <2>4 DEF LockBootstrap, AfterBootstrap
  <2>5. CASE FinishRun(c)
    BY <2>5 DEF FinishRun
  <2>6. CASE EnsureBootstrap(c)
    BY <2>6 DEF EnsureBootstrap, AfterBootstrap
  <2>7. CASE BootstrapError(c)
    BY <2>7 DEF BootstrapError, Return
  <2>8. CASE BootstrapResolve(c)
    BY <2>8 DEF BootstrapResolve
  <2>9. CASE BootstrapReplaceNodes(c)
    BY <2>9 DEF BootstrapReplaceNodes, AfterBootstrap
  <2>10. CASE CheckCapabilities(c)
    BY <2>10 DEF CheckCapabilities, Return
  <2>11. CASE CheckVDCPerformance(c)
    BY <2>11 DEF CheckVDCPerformance
  <2>12. CASE CheckNamespacePerformance(c)
    <3>1. c = "performance" /\ pc[c] = "caps2"
      BY <2>12 DEF CheckNamespacePerformance
    <3>2. /\ UNCHANGED <<published, generations, states, generation>>
          /\ \/ pc' = [pc EXCEPT ![c] = "finish"] /\ failed' = [failed EXCEPT ![c] = FALSE]
             \/ pc' = [pc EXCEPT ![c] = "fetch"] /\ failed' = failed
      BY <2>12 DEF CheckNamespacePerformance, Return
    <3>3. QED
      BY <3>1, <3>2
  <2>13. CASE FetchError(c)
    BY <2>13 DEF FetchError, Return
  <2>14. CASE FetchNodes(c)
    BY <2>14 DEF FetchNodes
  <2>15. CASE FetchNodeResources(c)
    BY <2>15 DEF FetchNodeResources, Return
  <2>16. CASE FetchCounted(c)
    BY <2>16 DEF FetchCounted
  <2>17. CASE FetchPerformance(c)
    BY <2>17 DEF FetchPerformance, Return
  <2>18. CASE FetchOnly(c)
    BY <2>18 DEF FetchOnly
  <2>19. CASE ReplaceNodes(c)
    BY <2>19 DEF ReplaceNodes, Publish, Return
  <2>20. CASE ReplaceCounted(c)
    BY <2>20 DEF ReplaceCounted, Publish, Return
  <2>21. CASE ReplacePlain(c)
    BY <2>21 DEF ReplacePlain, Publish, Return
  <2>22. CASE ReplaceReplications(c)
    BY <2>22 DEF ReplaceReplications, Publish, Return
  <2>23. CASE MergeRecovery(c)
    BY <2>23 DEF MergeRecovery, Publish, Return
  <2> QED
    BY <1>4, <2>1, <2>2, <2>3, <2>4, <2>5, <2>6, <2>7, <2>8, <2>9, <2>10, <2>11,
       <2>12, <2>13, <2>14, <2>15, <2>16, <2>17, <2>18, <2>19, <2>20, <2>21, <2>22, <2>23
       DEF Lock, Step
<1> QED
  BY <1>1, <1>2, <1>3, <1>4 DEF Next

-----------------------------------------------------------------------------
(* The node list *)

\* A step that moves one collector, leaves the cached list and the drafts of the others
\* alone and gives its own draft what it promises keeps the promises of all.
LEMMA OthersKeepDraft ==
  ASSUME DraftInv, NEW c \in Collectors,
         nodes' = nodes,
         \A d \in Collectors \ {c} : draft'[d] = draft[d] /\ pc'[d] = pc[d],
         pc'[c] # "bootPublish",
         c = "node" /\ pc'[c] = "publish" => KeepsResources(nodes, draft'[c]),
         c = "node-resources" /\ pc'[c] = "publish" => KeepsStatuses(nodes, draft'[c])
  PROVE  DraftInv'
<1> SUFFICES ASSUME NEW d \in Collectors
             PROVE  /\ pc'[d] = "bootPublish" =>
                         \A id \in Ids(draft'[d]) :
                           draft'[d][id] = [health |-> 0, services |-> 0, res |-> NoResources]
                    /\ d = "node" /\ pc'[d] = "publish" => KeepsResources(nodes', draft'[d])
                    /\ d = "node-resources" /\ pc'[d] = "publish"
                         => KeepsStatuses(nodes', draft'[d])
  BY DEF DraftInv
<1>1. CASE d = c
  BY <1>1
<1>2. CASE d # c
  <2>1. draft'[d] = draft[d] /\ pc'[d] = pc[d]
    BY <1>2
  <2>2. QED
    BY <2>1 DEF DraftInv
<1>3. QED
  BY <1>1, <1>2

\* Every step keeps what a node list on its way to the store may hold.
LEMMA DraftStep == TypeOK /\ MutexInv /\ DraftInv /\ [Next]_vars => DraftInv'
<1> SUFFICES ASSUME TypeOK, MutexInv, DraftInv, [Next]_vars
             PROVE  DraftInv'
  OBVIOUS
<1>a. /\ pc \in [Collectors -> Labels]
      /\ draft \in [Collectors -> NodeLists]
      /\ nodes \in NodeLists
      /\ states \in [Collectors -> CollectorState]
  BY DEF TypeOK
<1> USE <1>a, CollectorsAssumption DEF Goto, DraftInv, locals, data
<1>1. CASE Cancel
  BY <1>1 DEF Cancel
<1>2. CASE Stopped
  BY <1>2 DEF Stopped, vars
<1>3. CASE UNCHANGED vars
  BY <1>3 DEF vars
<1>4. ASSUME NEW c \in Collectors,
             StartRun(c) \/ ExitTask(c) \/ Lock(c) \/ Step(c)
      PROVE  DraftInv'
  <2>1. CASE StartRun(c)
    BY <2>1 DEF StartRun
  <2>2. CASE ExitTask(c)
    BY <2>2 DEF ExitTask
  <2>3. CASE LockNodeMu(c)
    BY <2>3 DEF LockNodeMu
  <2>4. CASE LockBootstrap(c)
    BY <2>4 DEF LockBootstrap, AfterBootstrap
  <2>5. CASE FinishRun(c)
    BY <2>5 DEF FinishRun
  <2>6. CASE EnsureBootstrap(c)
    BY <2>6 DEF EnsureBootstrap, AfterBootstrap
  <2>7. CASE BootstrapError(c)
    BY <2>7 DEF BootstrapError, Return
  <2>8. CASE BootstrapResolve(c)
    <3>1. ASSUME NEW inventory \in SUBSET NodeIDs
          PROVE  \A id \in Ids(ParseNodes(inventory)) :
                   ParseNodes(inventory)[id] =
                     [health |-> 0, services |-> 0, res |-> NoResources]
      BY DEF ParseNodes, Ids
    <3>2. \A id \in Ids(draft'[c]) :
            draft'[c][id] = [health |-> 0, services |-> 0, res |-> NoResources]
      BY <2>8, <3>1 DEF BootstrapResolve
    <3>3. QED
      BY <2>8, <3>2 DEF BootstrapResolve
  <2>9. CASE BootstrapReplaceNodes(c)
    <3>1. ASSUME NEW list \in NodeLists
          PROVE  KeepsResources(draft[c], list) /\ KeepsStatuses(draft[c], list)
      <4>1. ASSUME NEW id \in Ids(draft[c]) \cap Ids(list)
            PROVE  /\ draft[c][id] = [health |-> 0, services |-> 0, res |-> NoResources]
                   /\ list[id] \in NodeRecord
        BY <2>9 DEF BootstrapReplaceNodes, NodeLists, Ids
      <4>2. QED
        BY <4>1 DEF KeepsResources, KeepsStatuses, NodeRecord, NoResources
    <3>2. \A d \in Collectors : draft[d] \in NodeLists
      BY DEF TypeOK
    <3>3. QED
      BY <2>9, <3>1, <3>2 DEF BootstrapReplaceNodes, AfterBootstrap
  <2>10. CASE CheckCapabilities(c)
    BY <2>10 DEF CheckCapabilities, Return
  <2>11. CASE CheckVDCPerformance(c)
    BY <2>11 DEF CheckVDCPerformance
  <2>12. CASE CheckNamespacePerformance(c)
    BY <2>12 DEF CheckNamespacePerformance, Return
  <2>13. CASE FetchError(c)
    BY <2>13 DEF FetchError, Return
  <2>14. CASE FetchNodes(c)
    <3>1. states[c].runs \in Nat
      BY DEF CollectorState
    <3>2. ASSUME NEW inventory \in SUBSET NodeIDs, NEW reported, NEW s \in BOOLEAN
          PROVE  KeepsResources(nodes,
                   ApplyNodeStatuses(preserveNodeResources(ParseNodes(inventory), nodes),
                                     reported, states[c].runs, s))
      <4> DEFINE kept == preserveNodeResources(ParseNodes(inventory), nodes)
      <4>1. kept \in NodeLists /\ KeepsResources(nodes, kept)
        BY ParseNodesType, PreserveKeeps
      <4> HIDE DEF kept
      <4> DEFINE new == ApplyNodeStatuses(kept, reported, states[c].runs, s)
      <4>2. Ids(new) = Ids(kept) /\ \A id \in Ids(kept) : new[id].res = kept[id].res
        BY <3>1, <4>1, StatusesKeepResources
      <4> HIDE DEF new
      <4>3. KeepsResources(nodes, new)
        BY <4>1, <4>2 DEF KeepsResources
      <4>4. QED
        BY <4>3 DEF new, kept
    <3>3. c = "node" /\ draft' = [draft EXCEPT ![c] = draft'[c]] /\ nodes' = nodes
      BY <2>14 DEF FetchNodes
    <3>4. KeepsResources(nodes, draft'[c])
      <4>1. PICK inventory \in SUBSET NodeIDs \ {{}} :
              \E reported \in ParseNodeStatuses(inventory), r \in Resolutions :
                /\ draft' = [draft EXCEPT ![c] =
                     ApplyNodeStatuses(preserveNodeResources(ParseNodes(inventory), nodes),
                                       reported, states[c].runs,
                                       capabilityEnabledFor(r, "node_service_process"))]
                /\ resolution' = r
        BY <2>14, Zenon DEF FetchNodes
      <4>1a. PICK reported \in ParseNodeStatuses(inventory), r \in Resolutions :
               draft' = [draft EXCEPT ![c] =
                 ApplyNodeStatuses(preserveNodeResources(ParseNodes(inventory), nodes),
                                   reported, states[c].runs,
                                   capabilityEnabledFor(r, "node_service_process"))]
        BY <4>1, Zenon
      <4>2. capabilityEnabledFor(r, "node_service_process") \in BOOLEAN
        BY DEF capabilityEnabledFor
      <4>3. draft'[c] = ApplyNodeStatuses(preserveNodeResources(ParseNodes(inventory), nodes),
                          reported, states[c].runs,
                          capabilityEnabledFor(r, "node_service_process"))
        BY <4>1a
      <4>4. QED
        BY <3>2, <4>2, <4>3
    <3>5. pc' = [pc EXCEPT ![c] = "publish"]
      BY <2>14 DEF FetchNodes
    <3>6. QED
      BY <3>3, <3>4, <3>5
  <2>15. CASE FetchNodeResources(c)
    <3>1. states[c].runs \in Nat
      BY DEF CollectorState
    <3>2. CASE nodes = EmptyList
      BY <2>15, <3>2 DEF FetchNodeResources, Return
    <3>3. CASE nodes # EmptyList
      <4>1. KeepsStatuses(nodes, draft'[c])
        BY <2>15, <3>1, <3>3, ResourcesKeepStatuses DEF FetchNodeResources
      <4>2. /\ c = "node-resources" /\ nodes' = nodes
            /\ \A d \in Collectors \ {c} : draft'[d] = draft[d] /\ pc'[d] = pc[d]
            /\ pc'[c] = "publish"
        BY <2>15, <3>3 DEF FetchNodeResources
      <4>3. QED
        BY <1>4, <4>1, <4>2, OthersKeepDraft
    <3>4. QED
      BY <3>2, <3>3
  <2>16. CASE FetchCounted(c)
    BY <2>16 DEF FetchCounted
  <2>17. CASE FetchPerformance(c)
    <3>1. c = "performance" /\ nodes' = nodes /\ pc'[c] \in {"publish", "finish"}
      BY <2>17 DEF FetchPerformance, Return
    <3>2. \A d \in Collectors \ {c} : draft'[d] = draft[d] /\ pc'[d] = pc[d]
      BY <2>17 DEF FetchPerformance, Return
    <3>3. QED
      BY <1>4, <3>1, <3>2, OthersKeepDraft
  <2>18. CASE FetchOnly(c)
    BY <2>18 DEF FetchOnly
  <2>19. CASE ReplaceNodes(c)
    <3>1. ASSUME NEW d \in NodeWriters \cap Collectors, pc'[d] = "publish"
          PROVE  FALSE
      <4>1. pc[d] = "publish" /\ d # c
        BY <2>19, <3>1 DEF ReplaceNodes, Publish, Return
      <4>2. nodeMu = c /\ nodeMu = d
        BY <2>19, <4>1 DEF MutexInv, InsideNodeMu, ReplaceNodes, Publish
      <4>3. QED
        BY <4>1, <4>2
    <3>2. QED
      BY <2>19, <3>1, EmptyListType DEF ReplaceNodes, Publish, Return
  <2>20. CASE ReplaceCounted(c)
    BY <2>20 DEF ReplaceCounted, Publish, Return
  <2>21. CASE ReplacePlain(c)
    BY <2>21 DEF ReplacePlain, Publish, Return
  <2>22. CASE ReplaceReplications(c)
    BY <2>22 DEF ReplaceReplications, Publish, Return
  <2>23. CASE MergeRecovery(c)
    BY <2>23 DEF MergeRecovery, Publish, Return
  <2> QED
    BY <1>4, <2>1, <2>2, <2>3, <2>4, <2>5, <2>6, <2>7, <2>8, <2>9, <2>10, <2>11,
       <2>12, <2>13, <2>14, <2>15, <2>16, <2>17, <2>18, <2>19, <2>20, <2>21, <2>22, <2>23
       DEF Lock, Step
<1> QED
  BY <1>1, <1>2, <1>3, <1>4 DEF Next

-----------------------------------------------------------------------------
(* The statuses in the node list *)

\* A node run begins with a list without statuses and gives it those of its own run.
LEMMA StatusesOfRun ==
  ASSUME NEW inventory \in SUBSET NodeIDs, NEW previous \in NodeLists, NEW reported,
         NEW run \in Nat, NEW services \in BOOLEAN
  PROVE  StatusRuns(ApplyNodeStatuses(preserveNodeResources(ParseNodes(inventory), previous),
                                      reported, run, services)) \subseteq {run}
<1> DEFINE kept == preserveNodeResources(ParseNodes(inventory), previous)
           new == ApplyNodeStatuses(kept, reported, run, services)
<1>1. ASSUME NEW id \in Ids(ParseNodes(inventory))
      PROVE  /\ kept[id].health = 0 /\ kept[id].services = 0
             /\ kept[id] = ParseNodes(inventory)[id]
                  \/ kept[id] = [ParseNodes(inventory)[id] EXCEPT !.res = previous[id].res]
  <2>1. ParseNodes(inventory)[id] = [health |-> 0, services |-> 0, res |-> NoResources]
    BY DEF ParseNodes, Ids
  <2>2. id \in NodeIDs
    BY DEF ParseNodes, Ids
  <2>3. QED
    BY <2>1, <2>2 DEF preserveNodeResources
<1>2. kept \in NodeLists /\ Ids(kept) = Ids(ParseNodes(inventory))
  BY ParseNodesType, PreserveKeeps
<1> HIDE DEF kept
<1>3. Ids(new) = Ids(kept)
  BY <1>2, StatusesKeepResources
<1>4. ASSUME NEW id \in Ids(new)
      PROVE  /\ new[id].health \in {0, run}
             /\ new[id].services \in {0, run}
  <2>1. kept[id] \in NodeRecord /\ kept[id].health = 0 /\ kept[id].services = 0
    BY <1>1, <1>2, <1>3 DEF NodeLists, Ids
  <2>2. id \in NodeIDs
    BY <1>2, <1>3 DEF NodeLists, Ids
  <2>3. \/ new[id] = kept[id]
        \/ \E n \in {0, run} : new[id] = [kept[id] EXCEPT !.health = run, !.services = n]
    <3>1. (IF services THEN run ELSE 0) \in {0, run}
      OBVIOUS
    <3>2. QED
      BY <2>2, <3>1 DEF ApplyNodeStatuses
  <2>4. ASSUME NEW n \in {0, run}, new[id] = [kept[id] EXCEPT !.health = run, !.services = n]
        PROVE  new[id].health = run /\ new[id].services = n
    BY <2>1, <2>4 DEF NodeRecord
  <2>5. QED
    BY <2>1, <2>3, <2>4
<1>5. StatusRuns(new) \subseteq {run}
  <2> HIDE DEF new
  <2> QED
    BY <1>4 DEF StatusRuns
<1>6. QED
  BY <1>5 DEF kept

\* ApplyNodeResources leaves the statuses of the list as they are.
LEMMA StatusesKept ==
  ASSUME NEW list \in NodeLists, NEW reported, NEW run \in Nat, NEW enabled
  PROVE  StatusRuns(ApplyNodeResources(list, reported, run, enabled)) \subseteq StatusRuns(list)
<1> DEFINE new == ApplyNodeResources(list, reported, run, enabled)
<1>1. ASSUME NEW id \in Ids(new)
      PROVE  /\ id \in Ids(list)
             /\ new[id].health = list[id].health
             /\ new[id].services = list[id].services
  <2>1. id \in NodeIDs /\ id \in Ids(list)
    BY DEF ApplyNodeResources, NodeLists, Ids
  <2>2. list[id] \in NodeRecord
    BY <2>1 DEF NodeLists, Ids
  <2>3. QED
    BY <2>1, <2>2 DEF ApplyNodeResources, NodeRecord
<1> HIDE DEF new
<1>2. StatusRuns(new) \subseteq StatusRuns(list)
  BY <1>1 DEF StatusRuns
<1>3. QED
  BY <1>2 DEF new

\* A step that leaves the cached list and the last node run alone, and gives its own
\* draft the statuses it promises, keeps the statuses of all.
LEMMA OthersKeepStatuses ==
  ASSUME StatusInv, NEW c \in Collectors,
         nodes' = nodes,
         published'["node"] = published["node"],
         \A d \in Collectors \ {c} :
           draft'[d] = draft[d] /\ pc'[d] = pc[d] /\ states'[d] = states[d],
         c = "node" /\ pc'[c] = "publish" => StatusRuns(draft'[c]) \subseteq {states'[c].runs},
         c = "node-resources" /\ pc'[c] = "publish" =>
           StatusRuns(draft'[c]) \subseteq {published["node"]}
  PROVE  StatusInv'
<1>1. StatusRuns(nodes') \subseteq {published'["node"]}
  BY DEF StatusInv
<1>2. ASSUME NEW d \in Collectors
      PROVE  /\ d = "node" /\ pc'[d] = "publish" =>
                  StatusRuns(draft'[d]) \subseteq {states'[d].runs}
             /\ d = "node-resources" /\ pc'[d] = "publish" =>
                  StatusRuns(draft'[d]) \subseteq {published'["node"]}
  <2>1. CASE d = c
    BY <2>1
  <2>2. CASE d # c
    BY <2>2 DEF StatusInv
  <2>3. QED
    BY <2>1, <2>2
<1>3. QED
  BY <1>1, <1>2 DEF StatusInv, StatusRuns, Ids

\* Every step keeps the statuses of the cached list, and of the lists on their way to it,
\* those of one node run.
LEMMA StatusStep == TypeOK /\ MutexInv /\ DraftInv /\ StatusInv /\ [Next]_vars => StatusInv'
<1> SUFFICES ASSUME TypeOK, MutexInv, DraftInv, StatusInv, [Next]_vars
             PROVE  StatusInv'
  OBVIOUS
<1>a. /\ pc \in [Collectors -> Labels]
      /\ draft \in [Collectors -> NodeLists]
      /\ nodes \in NodeLists
      /\ states \in [Collectors -> CollectorState]
      /\ published \in [AllCollectors -> Nat]
  BY DEF TypeOK
<1> USE <1>a, CollectorsAssumption DEF Goto, locals, data
<1>1. CASE UNCHANGED <<pc, draft, nodes, published, states>>
  <2>1. StatusRuns(nodes) \subseteq {published["node"]} =>
          StatusRuns(nodes') \subseteq {published'["node"]}
    BY <1>1
  <2>2. QED
    BY <1>1, <2>1 DEF StatusInv
<1>2. CASE Cancel \/ Stopped \/ UNCHANGED vars
  BY <1>1, <1>2 DEF Cancel, Stopped, vars
<1>3. ASSUME NEW c \in Collectors,
             StartRun(c) \/ ExitTask(c) \/ Lock(c) \/ Step(c)
      PROVE  StatusInv'
  <2> DEFINE Elsewhere ==
        \A d \in Collectors \ {c} :
          draft'[d] = draft[d] /\ pc'[d] = pc[d] /\ states'[d] = states[d]
  <2>1. CASE StartRun(c) \/ ExitTask(c) \/ Lock(c)
    <3>1. nodes' = nodes /\ published' = published /\ Elsewhere /\ pc'[c] # "publish"
      BY <2>1 DEF StartRun, ExitTask, Lock, LockNodeMu, LockBootstrap, AfterBootstrap
    <3>2. QED
      BY <1>3, <3>1, OthersKeepStatuses
  <2>2. CASE \/ FinishRun(c) \/ EnsureBootstrap(c) \/ BootstrapError(c)
             \/ BootstrapResolve(c) \/ CheckCapabilities(c) \/ CheckVDCPerformance(c)
             \/ CheckNamespacePerformance(c) \/ FetchError(c)
    <3>1. nodes' = nodes /\ published' = published
      BY <2>2 DEF FinishRun, EnsureBootstrap, BootstrapError, BootstrapResolve,
           CheckCapabilities, CheckVDCPerformance, CheckNamespacePerformance, FetchError
    <3>2. Elsewhere /\ pc'[c] # "publish"
      <4>1. CASE FinishRun(c) \/ EnsureBootstrap(c) \/ BootstrapResolve(c)
        BY <4>1 DEF FinishRun, EnsureBootstrap, BootstrapResolve, AfterBootstrap
      <4>2. CASE BootstrapError(c) \/ FetchError(c)
        BY <4>2 DEF BootstrapError, FetchError, Return
      <4>3. CASE CheckCapabilities(c) \/ CheckNamespacePerformance(c)
        BY <4>3 DEF CheckCapabilities, CheckNamespacePerformance, Return
      <4>4. CASE CheckVDCPerformance(c)
        BY <4>4 DEF CheckVDCPerformance
      <4>5. QED
        BY <2>2, <4>1, <4>2, <4>3, <4>4
    <3>3. QED
      BY <1>3, <3>1, <3>2, OthersKeepStatuses
  <2>3. CASE FetchCounted(c) \/ FetchPerformance(c) \/ FetchOnly(c)
    <3>1. nodes' = nodes /\ published' = published /\ Elsewhere /\ c \notin NodeWriters
      BY <2>3 DEF FetchCounted, FetchPerformance, FetchOnly, Return
    <3>2. QED
      BY <1>3, <3>1, OthersKeepStatuses
  <2>4. CASE FetchNodes(c)
    <3>1. states[c].runs \in Nat
      BY DEF CollectorState
    <3>2. PICK inventory \in SUBSET NodeIDs \ {{}} :
            \E reported \in ParseNodeStatuses(inventory), r \in Resolutions :
              /\ draft' = [draft EXCEPT ![c] =
                   ApplyNodeStatuses(preserveNodeResources(ParseNodes(inventory), nodes),
                                     reported, states[c].runs,
                                     capabilityEnabledFor(r, "node_service_process"))]
              /\ resolution' = r
      BY <2>4, Zenon DEF FetchNodes
    <3>3. PICK reported \in ParseNodeStatuses(inventory), r \in Resolutions :
            draft' = [draft EXCEPT ![c] =
              ApplyNodeStatuses(preserveNodeResources(ParseNodes(inventory), nodes),
                                reported, states[c].runs,
                                capabilityEnabledFor(r, "node_service_process"))]
      BY <3>2, Zenon
    <3>4. capabilityEnabledFor(r, "node_service_process") \in BOOLEAN
      BY DEF capabilityEnabledFor
    <3>5. draft'[c] = ApplyNodeStatuses(preserveNodeResources(ParseNodes(inventory), nodes),
                        reported, states[c].runs,
                        capabilityEnabledFor(r, "node_service_process"))
      BY <3>3
    <3>6. StatusRuns(draft'[c]) \subseteq {states[c].runs}
      BY <3>1, <3>4, <3>5, StatusesOfRun
    <3>7. /\ c = "node" /\ nodes' = nodes /\ published' = published /\ states' = states
          /\ Elsewhere
      BY <2>4 DEF FetchNodes
    <3>8. QED
      BY <1>3, <3>6, <3>7, OthersKeepStatuses
  <2>5. CASE FetchNodeResources(c)
    <3>1. /\ c = "node-resources" /\ nodes' = nodes /\ published' = published
          /\ Elsewhere
      BY <2>5 DEF FetchNodeResources, Return
    <3>2. CASE nodes = EmptyList
      <4>1. pc'[c] # "publish"
        BY <2>5, <3>2 DEF FetchNodeResources, Return
      <4>2. QED
        BY <1>3, <3>1, <4>1, OthersKeepStatuses
    <3>3. CASE nodes # EmptyList
      <4>1. states[c].runs \in Nat
        BY DEF CollectorState
      <4>2. PICK reported \in SUBSET Ids(nodes) :
              draft'[c] = ApplyNodeResources(nodes, reported, states[c].runs, caps[c])
        BY <2>5, <3>3 DEF FetchNodeResources
      <4>3. StatusRuns(draft'[c]) \subseteq StatusRuns(nodes)
        BY <4>1, <4>2, StatusesKept
      <4>4. StatusRuns(draft'[c]) \subseteq {published["node"]}
        BY <4>3 DEF StatusInv
      <4>5. QED
        BY <1>3, <3>1, <4>4, OthersKeepStatuses
    <3>4. QED
      BY <3>2, <3>3
  <2>6. CASE BootstrapReplaceNodes(c)
    <3>1. StatusRuns(draft[c]) = {}
      <4>1. ASSUME NEW id \in Ids(draft[c])
            PROVE  draft[c][id].health = 0 /\ draft[c][id].services = 0
        BY <2>6 DEF BootstrapReplaceNodes, DraftInv
      <4>2. QED
        BY <4>1 DEF StatusRuns
    <3>2. /\ nodes' = draft[c] /\ published' = published /\ states' = states
          /\ Elsewhere /\ pc'[c] # "publish"
      BY <2>6 DEF BootstrapReplaceNodes, AfterBootstrap
    <3>3. StatusRuns(nodes') \subseteq {published'["node"]}
      BY <3>1, <3>2
    <3>4. ASSUME NEW d \in Collectors
          PROVE  /\ d = "node" /\ pc'[d] = "publish" =>
                      StatusRuns(draft'[d]) \subseteq {states'[d].runs}
                 /\ d = "node-resources" /\ pc'[d] = "publish" =>
                      StatusRuns(draft'[d]) \subseteq {published'["node"]}
      BY <3>2 DEF StatusInv
    <3>5. QED
      BY <3>3, <3>4 DEF StatusInv, StatusRuns, Ids
  <2>7. CASE ReplaceNodes(c)
    <3>1. /\ nodes' = draft[c] /\ pc[c] = "publish" /\ states' = states
          /\ published' = [published EXCEPT ![c] = states[c].runs]
          /\ pc'[c] = "finish" /\ \A d \in Collectors \ {c} : pc'[d] = pc[d]
          /\ c \in NodeWriters
      BY <2>7 DEF ReplaceNodes, Publish, Return
    <3>2. StatusRuns(nodes') \subseteq {published'["node"]}
      BY <3>1 DEF StatusInv
    <3>3. ASSUME NEW d \in NodeWriters \cap Collectors, pc'[d] = "publish"
          PROVE  FALSE
      <4>1. pc[d] = "publish" /\ d # c
        BY <3>1, <3>3
      <4>2. nodeMu = c /\ nodeMu = d
        BY <3>1, <4>1 DEF MutexInv, InsideNodeMu
      <4>3. QED
        BY <4>1, <4>2
    <3>4. StatusInv'
      BY <3>2, <3>3 DEF StatusInv
    <3>5. QED
      BY <3>4
  <2>8. CASE \/ ReplaceCounted(c) \/ ReplacePlain(c)
             \/ ReplaceReplications(c) \/ MergeRecovery(c)
    <3>1. /\ c \notin NodeWriters /\ Publish(c) /\ nodes' = nodes
      BY <2>8 DEF ReplaceCounted, ReplacePlain, ReplaceReplications, MergeRecovery
    <3>2. Elsewhere /\ published'["node"] = published["node"]
      BY <3>1 DEF Publish, Return
    <3>3. QED
      BY <1>3, <3>1, <3>2, OthersKeepStatuses
  <2>9. QED
    BY <1>3, <2>1, <2>2, <2>3, <2>4, <2>5, <2>6, <2>7, <2>8 DEF Step
<1>4. QED
  BY <1>2, <1>3 DEF Next

-----------------------------------------------------------------------------
(* The replication list *)

\* Every step keeps the provenance of the replication list.
LEMMA ProvenanceStep == TypeOK /\ ReplicationProvenance /\ [Next]_vars => ReplicationProvenance'
<1> SUFFICES ASSUME TypeOK, ReplicationProvenance, [Next]_vars
             PROVE  ReplicationProvenance'
  OBVIOUS
<1>a. /\ published \in [AllCollectors -> Nat]
      /\ replications \in ReplicationLists
  BY DEF TypeOK
<1> USE <1>a, CollectorsAssumption DEF Goto, ReplicationProvenance, locals, data
<1>1. CASE Cancel
  BY <1>1 DEF Cancel
<1>2. CASE Stopped
  BY <1>2 DEF Stopped, vars
<1>3. CASE UNCHANGED vars
  BY <1>3 DEF vars
<1>4. ASSUME NEW c \in Collectors,
             StartRun(c) \/ ExitTask(c) \/ Lock(c) \/ Step(c)
      PROVE  ReplicationProvenance'
  <2>1. CASE StartRun(c)
    BY <2>1 DEF StartRun
  <2>2. CASE ExitTask(c)
    BY <2>2 DEF ExitTask
  <2>3. CASE LockNodeMu(c)
    BY <2>3 DEF LockNodeMu
  <2>4. CASE LockBootstrap(c)
    BY <2>4 DEF LockBootstrap, AfterBootstrap
  <2>5. CASE FinishRun(c)
    BY <2>5 DEF FinishRun
  <2>6. CASE EnsureBootstrap(c)
    BY <2>6 DEF EnsureBootstrap, AfterBootstrap
  <2>7. CASE BootstrapError(c)
    BY <2>7 DEF BootstrapError, Return
  <2>8. CASE BootstrapResolve(c)
    BY <2>8 DEF BootstrapResolve
  <2>9. CASE BootstrapReplaceNodes(c)
    BY <2>9 DEF BootstrapReplaceNodes, AfterBootstrap
  <2>10. CASE CheckCapabilities(c)
    BY <2>10 DEF CheckCapabilities, Return
  <2>11. CASE CheckVDCPerformance(c)
    BY <2>11 DEF CheckVDCPerformance
  <2>12. CASE CheckNamespacePerformance(c)
    BY <2>12 DEF CheckNamespacePerformance, Return
  <2>13. CASE FetchError(c)
    BY <2>13 DEF FetchError, Return
  <2>14. CASE FetchNodes(c)
    BY <2>14 DEF FetchNodes
  <2>15. CASE FetchNodeResources(c)
    BY <2>15 DEF FetchNodeResources, Return
  <2>16. CASE FetchCounted(c)
    BY <2>16 DEF FetchCounted
  <2>17. CASE FetchPerformance(c)
    BY <2>17 DEF FetchPerformance, Return
  <2>18. CASE FetchOnly(c)
    BY <2>18 DEF FetchOnly
  <2>19. CASE ReplaceNodes(c)
    BY <2>19 DEF ReplaceNodes, Publish, Return
  <2>20. CASE ReplaceCounted(c)
    BY <2>20 DEF ReplaceCounted, Publish, Return
  <2>21. CASE ReplacePlain(c)
    BY <2>21 DEF ReplacePlain, Publish, Return
  <2>22. CASE ReplaceReplications(c)
    <3> DEFINE now == <<"replication", states[c].runs>>
    <3>1. /\ published' = [published EXCEPT !["replication"] = states[c].runs]
          /\ replications' =
               [id \in Groups \cup Links |-> [status |-> now, recovery |-> now]]
      BY <2>22 DEF ReplaceReplications, ParseReplication, Publish
    <3>2. <<"replication", published'["replication"]>> = now
      BY <3>1
    <3>3. \A id \in Links : replications'[id] # Absent
      <4>1. now \in Origin
        BY DEF Origin, TypeOK, CollectorState
      <4>2. [status |-> now, recovery |-> now] \in LinkRecord
        BY <4>1 DEF LinkRecord
      <4>3. QED
        BY <3>1, <4>2, AbsentAssumption
    <3> HIDE DEF now
    <3>4. QED
      BY <3>1, <3>2, <3>3
  <2>23. CASE MergeRecovery(c)
    <3> DEFINE now == <<"recovery", states[c].runs>>
               replicated == <<"replication", published["replication"]>>
    <3>1. /\ published' = [published EXCEPT !["recovery"] = states[c].runs]
          /\ replications' =
               [id \in Groups \cup Links |->
                  IF id \notin Links THEN replications[id]
                  ELSE IF replications[id] = Absent THEN [status |-> now, recovery |-> now]
                  ELSE [replications[id] EXCEPT !.recovery = now]]
      BY <2>23 DEF MergeRecovery, ParseReplication, Publish
    <3>2. /\ published'["replication"] = published["replication"]
          /\ <<"recovery", published'["recovery"]>> = now
      BY <3>1
    <3>3. now \in Origin
      BY <2>23 DEF MergeRecovery, ParseReplication, Origin, TypeOK, CollectorState
    <3> HIDE DEF now
    <3>4. SUFFICES ASSUME published["replication"] # 0
                   PROVE  ReplicationProvenance'
      BY <3>2
    <3>5. ASSUME NEW id \in Groups
          PROVE  replications'[id] = [status |-> replicated, recovery |-> replicated]
      BY <3>1, <3>4, ReplicationAssumption
    <3>6. ASSUME NEW id \in Links
          PROVE  /\ replications'[id] # Absent
                 /\ replications'[id].status = replicated
                 /\ replications'[id].recovery = now
      <4>1. replications[id] # Absent /\ replications[id].status = replicated
        BY <3>4
      <4>2. replications[id] \in LinkRecord
        BY <4>1 DEF ReplicationLists
      <4>3. replications'[id] = [replications[id] EXCEPT !.recovery = now]
        BY <3>1, <4>1
      <4>4. QED
        BY <3>3, <4>1, <4>2, <4>3, AbsentAssumption DEF LinkRecord
    <3>7. QED
      BY <3>2, <3>5, <3>6
  <2> QED
    BY <1>4, <2>1, <2>2, <2>3, <2>4, <2>5, <2>6, <2>7, <2>8, <2>9, <2>10, <2>11,
       <2>12, <2>13, <2>14, <2>15, <2>16, <2>17, <2>18, <2>19, <2>20, <2>21, <2>22, <2>23
       DEF Lock, Step
<1> QED
  BY <1>1, <1>2, <1>3, <1>4 DEF Next

-----------------------------------------------------------------------------
(* The theorems *)

\* The inductive invariant holds when the process starts.
LEMMA InitIInv == Init => IInv
<1> SUFFICES ASSUME Init
             PROVE  IInv
  OBVIOUS
<1>1. TypeOK
  BY TypeInit
<1>2. MutexInv /\ ResolutionInv /\ RunningIsInside
  BY NobodyAssumption, CollectorsAssumption
     DEF Init, NewRunner, MutexInv, ResolutionInv, RunningIsInside, InsideNodeMu, InsideBootstrapMu,
         InRun, NewState
<1>3. RunInv
  <2> SUFFICES ASSUME NEW c \in Collectors
               PROVE  RunInv!(c)
    BY DEF RunInv
  <2>1. /\ pc[c] = "wait" /\ failed[c] = FALSE /\ published[c] = 0
        /\ states[c].lastSuccess = 0 /\ states[c].runs = 0
    BY CollectorsAssumption DEF Init, NewRunner, NewState
  <2>2. /\ ~InRun(c)
        /\ pc[c] # "finish"
    BY <2>1 DEF InRun
  <2>3. states[c].lastSuccess <= states[c].runs
    BY <2>1
  <2>4. QED
    BY <2>1, <2>2, <2>3
<1>4. DraftInv
  BY DEF Init, NewRunner, DraftInv
<1>4a. StatusInv
  <2>1. Ids(nodes) = {}
    BY DEF Init, NewRunner, EmptyList, Ids
  <2>2. QED
    BY <2>1 DEF Init, NewRunner, StatusInv, StatusRuns
<1>5. ReplicationProvenance
  BY DEF Init, NewRunner, ReplicationProvenance
<1>6. QED
  BY <1>1, <1>2, <1>3, <1>4, <1>4a, <1>5 DEF IInv

\* Every step keeps the inductive invariant.
LEMMA StepIInv == IInv /\ [Next]_vars => IInv'
BY TypeStep, MutexStep, ResolutionStep, RunningStep, RunStep, DraftStep, StatusStep,
   ProvenanceStep
   DEF IInv

\* The inductive invariant: types, the two mutexes, the resolution, the position of
\* every run and what a node list on its way to the store may hold.
THEOREM Invariance == Spec => []IInv
BY InitIInv, StepIInv, PTL DEF Spec

\* Type correctness of every reachable state.
THEOREM TypeCorrect == Spec => []TypeOK
<1>1. IInv => TypeOK
  BY DEF IInv
<1>2. QED
  BY <1>1, Invariance, PTL

\* Run's comparison of generations tells a run that published from one that did not,
\* although Bootstrap bumps the generation of the node list as well.
THEOREM SuccessCorrect == Spec => []SuccessIsPublication
<1>1. IInv => SuccessIsPublication
  BY DEF IInv, RunInv, SuccessIsPublication
<1>2. QED
  BY <1>1, Invariance, PTL

\* ReplaceReplications and MergeRecovery in any order: the status of a link is that
\* of the last replication run, its recovery that of the last run of either writer.
THEOREM ProvenanceCorrect == Spec => []ReplicationProvenance
<1>1. IInv => ReplicationProvenance
  BY DEF IInv
<1>2. QED
  BY <1>1, Invariance, PTL

\* Neither writer of the node list puts back an older value of the other's: nodeMu
\* keeps the list that node-resources read still, and preserveNodeResources keeps the
\* resources over Bootstrap and node runs.
THEOREM NoLostUpdate == Spec => NoLostNodeUpdate
<1> DEFINE Kept ==
      /\ published'["node"] # published["node"] => KeepsResources(nodes, nodes')
      /\ published'["node-resources"] # published["node-resources"]
           => KeepsStatuses(nodes, nodes')
<1>1. IInv /\ [Next]_vars => [Kept]_vars
  <2> SUFFICES ASSUME IInv, Next
               PROVE  Kept \/ UNCHANGED vars
    OBVIOUS
  <2> USE DEF data
  <2>0. published \in [AllCollectors -> Nat] /\ Collectors \subseteq AllCollectors
    BY CollectorsAssumption DEF IInv, TypeOK
  <2>1. ASSUME NEW c \in Collectors, Publish(c)
        PROVE  \A k \in AllCollectors : k # c => published'[k] = published[k]
    BY <2>0, <2>1 DEF Publish
  <2>2. ASSUME NEW c \in Collectors, ReplaceNodes(c)
        PROVE  Kept
    <3>1. nodes' = draft[c] /\ pc[c] = "publish"
      BY <2>2 DEF ReplaceNodes, Publish
    <3>2. CASE c = "node"
      <4>1. KeepsResources(nodes, draft[c])
        BY <3>1, <3>2 DEF IInv, DraftInv
      <4>2. published'["node-resources"] = published["node-resources"]
        BY <2>1, <2>2, <3>2 DEF ReplaceNodes
      <4>3. QED
        BY <3>1, <4>1, <4>2
    <3>3. CASE c = "node-resources"
      <4>1. KeepsStatuses(nodes, draft[c])
        BY <3>1, <3>3 DEF IInv, DraftInv
      <4>2. published'["node"] = published["node"]
        BY <2>1, <2>2, <3>3 DEF ReplaceNodes
      <4>3. QED
        BY <3>1, <4>1, <4>2
    <3>4. QED
      BY <2>2, <3>2, <3>3 DEF ReplaceNodes
  <2>3. ASSUME NEW c \in Collectors,
               \/ ReplaceCounted(c) \/ ReplacePlain(c)
               \/ ReplaceReplications(c) \/ MergeRecovery(c)
        PROVE  Kept
    <3>1. Publish(c) /\ c \notin NodeWriters
      BY <2>3 DEF ReplaceCounted, ReplacePlain, ReplaceReplications, MergeRecovery
    <3>2. QED
      BY <2>1, <3>1
  <2>4. Cancel \/ Stopped => UNCHANGED published
    BY DEF Cancel, Stopped, vars
  <2>5. ASSUME NEW c \in Collectors, StartRun(c) \/ ExitTask(c) \/ Lock(c)
        PROVE  UNCHANGED published
    BY <2>5 DEF StartRun, ExitTask, Lock, LockNodeMu, LockBootstrap
  <2>6. ASSUME NEW c \in Collectors, Step(c)
        PROVE  \/ UNCHANGED published
               \/ ReplaceNodes(c) \/ ReplaceCounted(c) \/ ReplacePlain(c)
               \/ ReplaceReplications(c) \/ MergeRecovery(c)
    BY <2>6 DEF Step, FinishRun, EnsureBootstrap, BootstrapError, BootstrapResolve,
         BootstrapReplaceNodes, CheckCapabilities, CheckVDCPerformance,
         CheckNamespacePerformance, FetchError, FetchNodes, FetchNodeResources,
         FetchCounted, FetchPerformance, FetchOnly
  <2>7. QED
    BY <2>2, <2>3, <2>4, <2>5, <2>6 DEF Next
<1>2. QED
  BY <1>1, Invariance, PTL DEF Spec, NoLostNodeUpdate

\* Whatever number of collectors find no resolution at the same time, one of them at
\* most takes Bootstrap to its publication; the second look under bootstrapMu and the
\* mutex held over the API calls see to it.
THEOREM BootstrapOnce == Spec => BootstrapRunsOnce
<1> DEFINE Once ==
      \A c \in Collectors :
        pc[c] # "bootPublish" /\ pc'[c] = "bootPublish" => resolution = NoResolution
<1>1. IInv /\ [Next]_vars => [Once]_vars
  <2> SUFFICES ASSUME IInv, Next,
                      NEW d \in Collectors, pc[d] # "bootPublish", pc'[d] = "bootPublish"
               PROVE  resolution = NoResolution
    OBVIOUS
  <2> USE DEF Goto
  <2>1. pc[d] = "bootFetch" => resolution = NoResolution
    BY DEF IInv, ResolutionInv
  <2>0. pc \in [Collectors -> Labels]
    BY DEF IInv, TypeOK
  <2>2. ~Cancel /\ ~Stopped
    BY DEF Cancel, Stopped, vars
  <2>3. ASSUME NEW c \in Collectors, StartRun(c) \/ ExitTask(c) \/ Lock(c)
        PROVE  FALSE
    BY <2>3, <2>0 DEF StartRun, ExitTask, Lock, LockNodeMu, LockBootstrap, AfterBootstrap
  <2>4. ASSUME NEW c \in Collectors, Publish(c)
        PROVE  FALSE
    BY <2>4, <2>0 DEF Publish, Return
  <2>5. ASSUME NEW c \in Collectors, Step(c)
        PROVE  pc[d] = "bootFetch"
    <3>1. CASE BootstrapResolve(c)
      BY <2>0, <3>1 DEF BootstrapResolve
    <3>2. CASE \/ FinishRun(c) \/ EnsureBootstrap(c) \/ BootstrapError(c)
               \/ BootstrapReplaceNodes(c)
      BY <2>0, <3>2 DEF FinishRun, EnsureBootstrap, BootstrapError, BootstrapReplaceNodes,
           AfterBootstrap, Return
    <3>3. CASE \/ CheckCapabilities(c) \/ CheckVDCPerformance(c)
               \/ CheckNamespacePerformance(c) \/ FetchError(c)
      BY <2>0, <3>3 DEF CheckCapabilities, CheckVDCPerformance, CheckNamespacePerformance,
           FetchError, Return
    <3>4. CASE \/ FetchNodes(c) \/ FetchNodeResources(c) \/ FetchCounted(c)
               \/ FetchPerformance(c) \/ FetchOnly(c)
      BY <2>0, <3>4 DEF FetchNodes, FetchNodeResources, FetchCounted, FetchPerformance,
           FetchOnly, Return
    <3>5. CASE \/ ReplaceNodes(c) \/ ReplaceCounted(c) \/ ReplacePlain(c)
               \/ ReplaceReplications(c) \/ MergeRecovery(c)
      BY <2>4, <3>5 DEF ReplaceNodes, ReplaceCounted, ReplacePlain, ReplaceReplications,
           MergeRecovery
    <3>6. QED
      BY <2>5, <3>1, <3>2, <3>3, <3>4, <3>5 DEF Step
  <2>6. QED
    BY <2>1, <2>2, <2>3, <2>5 DEF Next
<1>2. QED
  BY <1>1, Invariance, PTL DEF Spec, BootstrapRunsOnce

-----------------------------------------------------------------------------
(* The cache *)

\* A new Runner and an empty store are the initial state of the cache.
LEMMA CacheInit == Init => Store!Init
<1> SUFFICES ASSUME Init
             PROVE  Store!Init
  OBVIOUS
<1>1. \A c \in Collectors : Phase(c) = "idle" /\ states[c].runs = 0 /\ states[c].lastSuccess = 0
  BY DEF Init, NewRunner, NewState, Phase
<1>2. StatusRuns(nodes) = {}
  <2>1. Ids(nodes) = {}
    BY DEF Init, NewRunner, EmptyList, Ids
  <2>2. QED
    BY <2>1 DEF StatusRuns
<1>3. published = [k \in AllCollectors |-> 0]
  BY DEF Init, NewRunner
<1>4. QED
  BY <1>1, <1>2, <1>3 DEF Store!Init

\* What the cache knows of a run between its publication and its end, and before.
LEMMA PhaseOfRun ==
  ASSUME IInv, NEW c \in Collectors
  PROVE  /\ pc[c] = "wait" => Phase(c) = "idle"
         /\ pc[c] = "publish" => Phase(c) = "running"
         /\ pc[c] = "finish" =>
              Phase(c) = IF failed[c] \/ generations[c] = generation[c]
                         THEN "running" ELSE "published"
<1>1. /\ states[c].runs \in Nat /\ states[c].lastSuccess \in Nat
      /\ generation[c] \in Nat /\ generations[c] \in Nat
  BY CollectorsAssumption DEF IInv, TypeOK, CollectorState
<1>2. states[c].running <=> pc[c] \notin {"wait", "exited"}
  BY DEF IInv, RunningIsInside, InRun
<1>3. /\ pc[c] \notin {"wait", "exited"} => states[c].lastSuccess < states[c].runs
      /\ pc[c] # "finish" => states[c].lastSuccess = published[c]
      /\ pc[c] = "finish" =>
           \/ failed[c] /\ states[c].lastSuccess = published[c]
           \/ /\ ~failed[c]
              /\ generation[c] = generations[c]
              /\ states[c].lastSuccess = published[c]
           \/ /\ ~failed[c]
              /\ generation[c] < generations[c]
              /\ published[c] = states[c].runs
  BY DEF IInv, RunInv, InRun
<1>4. QED
  BY <1>1, <1>2, <1>3 DEF Phase

\* StartRun is the beginning of a run.
LEMMA StartIsBegin ==
  ASSUME IInv, NEW c \in Collectors, StartRun(c)
  PROVE  Store!Begin(c)
<1>1. Phase(c) = "idle"
  BY PhaseOfRun DEF StartRun
<1>2. states \in [Collectors -> CollectorState] /\ published[c] \in Nat
  BY CollectorsAssumption DEF IInv, TypeOK
<1>3. states[c].lastSuccess <= states[c].runs /\ states[c].lastSuccess = published[c]
  BY DEF IInv, RunInv, StartRun
<1>4. /\ states'[c].running /\ states'[c].runs = states[c].runs + 1
      /\ states'[c].lastSuccess = states[c].lastSuccess
      /\ \A d \in Collectors \ {c} : states'[d] = states[d]
      /\ nodes' = nodes /\ published' = published
  BY <1>2 DEF StartRun, CollectorState, data
<1>5. Phase(c)' = "running"
  <2>1. states[c].runs \in Nat /\ states[c].lastSuccess \in Nat
    BY <1>2 DEF CollectorState
  <2>2. QED
    BY <1>2, <1>3, <1>4, <2>1 DEF Phase
<1>6. \A d \in Collectors \ {c} : Phase(d)' = Phase(d)
  BY <1>4 DEF Phase
<1>7. QED
  BY <1>1, <1>4, <1>5, <1>6 DEF Store!Begin

\* FinishRun records a success for a run that has published, and none for another.
LEMMA FinishIsEnd ==
  ASSUME IInv, NEW c \in Collectors, FinishRun(c)
  PROVE  Store!Succeed(c) \/ Store!GiveUp(c)
<1> DEFINE skipped == failed[c] \/ generations[c] = generation[c]
<1>1. Phase(c) = IF skipped THEN "running" ELSE "published"
  BY PhaseOfRun DEF FinishRun
<1>2. states \in [Collectors -> CollectorState]
  BY DEF IInv, TypeOK
<1>3. /\ ~states'[c].running /\ states'[c].runs = states[c].runs
      /\ states'[c].lastSuccess = IF skipped THEN states[c].lastSuccess ELSE states[c].runs
      /\ \A d \in Collectors \ {c} : states'[d] = states[d]
      /\ nodes' = nodes /\ published' = published
  BY <1>2 DEF FinishRun, CollectorState, data
<1>4. Phase(c)' = "idle" /\ \A d \in Collectors \ {c} : Phase(d)' = Phase(d)
  BY <1>3 DEF Phase
<1>5. QED
  BY <1>1, <1>3, <1>4 DEF Store!Succeed, Store!GiveUp

\* The publication of a run is the one the cache allows it.
LEMMA PublishIsPublish ==
  ASSUME IInv, NEW c \in Collectors, Publish(c),
         StatusRuns(nodes') \in Store!StatusesAfter(c)
  PROVE  Store!Publish(c)
<1>1. Phase(c) = "running"
  BY PhaseOfRun DEF Publish
<1>2. states[c].running
  BY DEF IInv, RunningIsInside, InRun, Publish
<1>3. /\ states' = states
      /\ published' = [published EXCEPT ![c] = states[c].runs]
  BY DEF Publish
<1>4. published \in [AllCollectors -> Nat] /\ c \in AllCollectors
  BY CollectorsAssumption DEF IInv, TypeOK
<1>5. Phase(c)' = "published" /\ \A d \in Collectors \ {c} : Phase(d)' = Phase(d)
  BY <1>2, <1>3, <1>4 DEF Phase
<1>6. QED
  BY <1>1, <1>3, <1>5 DEF Store!Publish

\* A step that touches neither the cached nodes nor the publications nor the states is
\* none for the cache.
LEMMA CacheStutters ==
  ASSUME UNCHANGED <<nodes, published, states>>
  PROVE  UNCHANGED Store!vars
<1>1. \A c \in Collectors : Phase(c)' = Phase(c)
  BY DEF Phase
<1>2. StatusRuns(nodes)' = StatusRuns(nodes)
  BY DEF StatusRuns, Ids
<1>3. QED
  BY <1>1, <1>2 DEF Store!vars

\* Every step of the goroutines is a step of the cache or none.
LEMMA CacheStep == IInv /\ [Next]_vars => [Store!Next]_(Store!vars)
<1> SUFFICES ASSUME IInv, [Next]_vars
             PROVE  Store!Next \/ UNCHANGED Store!vars
  OBVIOUS
<1> USE DEF locals, data
<1>1. CASE Cancel \/ Stopped \/ UNCHANGED vars
  BY <1>1, CacheStutters DEF Cancel, Stopped, vars
<1>2. ASSUME NEW c \in Collectors, StartRun(c) \/ ExitTask(c) \/ Lock(c)
      PROVE  Store!Next \/ UNCHANGED Store!vars
  <2>1. CASE StartRun(c)
    BY <2>1, StartIsBegin DEF Store!Next
  <2>2. CASE ExitTask(c) \/ Lock(c)
    BY <2>2, CacheStutters DEF ExitTask, Lock, LockNodeMu, LockBootstrap
  <2>3. QED
    BY <1>2, <2>1, <2>2
<1>3. ASSUME NEW c \in Collectors, Step(c)
      PROVE  Store!Next \/ UNCHANGED Store!vars
  <2>1. CASE FinishRun(c)
    BY <2>1, FinishIsEnd DEF Store!Next
  <2>2. CASE BootstrapReplaceNodes(c)
    <3>1. StatusRuns(draft[c]) = {}
      <4>1. ASSUME NEW id \in Ids(draft[c])
            PROVE  draft[c][id].health = 0 /\ draft[c][id].services = 0
        BY <2>2 DEF BootstrapReplaceNodes, IInv, DraftInv
      <4>2. QED
        BY <4>1 DEF StatusRuns
    <3>2. /\ nodes' = draft[c] /\ published' = published /\ states' = states
      BY <2>2 DEF BootstrapReplaceNodes
    <3>3. StatusRuns(nodes)' = {}
      BY <3>1, <3>2 DEF StatusRuns, Ids
    <3>4. \A d \in Collectors : Phase(d)' = Phase(d)
      BY <3>2 DEF Phase
    <3>5. Store!Forget
      BY <3>2, <3>3, <3>4 DEF Store!Forget
    <3>6. QED
      BY <3>5 DEF Store!Next
  <2>3. CASE ReplaceNodes(c)
    <3>1. Publish(c) /\ pc[c] = "publish" /\ nodes' = draft[c] /\ c \in NodeWriters
      BY <2>3 DEF ReplaceNodes, Publish
    <3>2. StatusRuns(nodes') \subseteq
            {IF c = "node" THEN states[c].runs ELSE published["node"]}
      BY <3>1 DEF IInv, StatusInv
    <3>3. 0 \notin StatusRuns(nodes')
      BY DEF StatusRuns
    <3>4. StatusRuns(nodes') \in Store!StatusesAfter(c)
      BY <3>1, <3>2, <3>3 DEF Store!StatusesAfter
    <3>5. QED
      BY <3>1, <3>4, PublishIsPublish DEF Store!Next
  <2>4. CASE \/ ReplaceCounted(c) \/ ReplacePlain(c)
             \/ ReplaceReplications(c) \/ MergeRecovery(c)
    <3>1. Publish(c) /\ nodes' = nodes /\ c \notin NodeWriters
      BY <2>4 DEF ReplaceCounted, ReplacePlain, ReplaceReplications, MergeRecovery
    <3>2. StatusRuns(nodes') \in Store!StatusesAfter(c)
      BY <3>1 DEF Store!StatusesAfter
    <3>3. QED
      BY <3>1, <3>2, PublishIsPublish DEF Store!Next
  <2>5. CASE \/ EnsureBootstrap(c) \/ BootstrapError(c) \/ BootstrapResolve(c)
             \/ CheckCapabilities(c) \/ CheckVDCPerformance(c)
             \/ CheckNamespacePerformance(c) \/ FetchError(c) \/ FetchNodes(c)
             \/ FetchNodeResources(c) \/ FetchCounted(c) \/ FetchPerformance(c)
             \/ FetchOnly(c)
    <3>1. UNCHANGED <<nodes, published, states>>
      BY <2>5 DEF EnsureBootstrap, BootstrapError, BootstrapResolve, CheckCapabilities,
           CheckVDCPerformance, CheckNamespacePerformance, FetchError, FetchNodes,
           FetchNodeResources, FetchCounted, FetchPerformance, FetchOnly
    <3>2. QED
      BY <3>1, CacheStutters
  <2>6. QED
    BY <1>3, <2>1, <2>2, <2>3, <2>4, <2>5 DEF Step
<1>4. QED
  BY <1>1, <1>2, <1>3 DEF Next

\* Collector implements Cache: readers of the store see runs that publish in one step,
\* successes of exactly those, and node statuses of one run.
THEOREM Implementation == Spec => ImplementsCache
BY CacheInit, CacheStep, Invariance, PTL DEF Spec, ImplementsCache, Store!Spec

=============================================================================
