---------------------------- MODULE MCCollector ----------------------------
(***************************************************************************)
(* Instances of Collector for TLC.                                         *)
(***************************************************************************)
EXTENDS Collector, TLC

CONSTANT Schedules   \* the sets of collectors of which one is scheduled

\* The other collectors are as if they had ended before.
ScheduledInit ==
  /\ \E schedule \in Schedules :
       pc = [c \in Collectors |-> IF c \in schedule THEN "wait" ELSE "exited"]
  /\ NewRunner
ScheduledSpec == ScheduledInit /\ [][Next]_vars
ScheduledFairSpec == ScheduledSpec /\ Fairness

\* profiles/ecs-3.6.json and profiles/ecs-3.7.json, as far as the runner asks.
Profile36 ==
  [k \in Caps |-> IF k \in {"node_disk_capacity", "node_service_process",
                            "recovery_progress"}
                  THEN "conditional" ELSE "native"]
Profile37 ==
  [k \in Caps |-> IF k \in {"node_cpu_memory", "node_network_counters"}
                  THEN "native" ELSE "conditional"]

\* The collectors around the node list; those whose values others count or fall back on;
\* one that skips its runs, because its capability is not enabled, next to one that does not.
NodeSchedules ==
  {{"cluster", "node", "node-resources"}, {"cluster", "bucket", "performance"},
   {"node", "recovery"}}
NodeCollectors == UNION NodeSchedules
NodeProfiles == {Profile36}
NodeConditional == {"node_service_process"}

\* The two writers of the replication list; the two collectors that ask for nodeMu and then
\* for bootstrapMu, with one that asks for bootstrapMu alone.
ListSchedules == {{"replication", "recovery"}, {"node", "node-resources", "recovery"}}
ListCollectors == UNION ListSchedules
BothProfiles == {Profile36, Profile37}
RecoveryEnabled == {"recovery_progress"}

\* How often each collector runs: twice; the replication list is replaced twice around
\* one run of the others.
Twice == [c \in Collectors |-> 2]
ReplicationTwice == [c \in Collectors |-> IF c = "replication" THEN 2 ELSE 1]

\* Node ids are interchangeable.
NodeSymmetry == Permutations(NodeIDs)
============================================================================
