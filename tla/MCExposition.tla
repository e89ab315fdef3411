---------------------------- MODULE MCExposition ----------------------------
(* Instances of Exposition for TLC. *)
EXTENDS Exposition, TLC

\* The collectors readiness asks for.
RequiredCollectors == {"cluster", "node", "namespace", "bucket"}
\* The collectors whose values end in a list that another collector writes as well.
SharingCollectors == {"node", "node-resources", "replication", "recovery"}
\* The two writers of the replication list.
ReplicationCollectors == {"replication", "recovery"}

\* What a resolution may enable: all, the resource values in part, nothing.
SomeResolutions == {Caps, {"node_cpu_memory"}, {}}
\* With the repository's profiles every resolution enables the same.
OwnResolutions == {Caps}

\* The sets of collectors whose last run failed: none to all, in one order.
Failing ==
  {{}, {"cluster"}, {"cluster", "node"}, {"cluster", "node", "namespace"}, RequiredCollectors}

\* The collectors of which a reader relates the values: no value of one group says
\* anything about a value of another.  An outage only takes steps away, only readiness looks
\* at errors, whoever they are of, and the resolution matters to collectors with a gate
\* alone.
OneGroup ==
  \A k \in Clusters :
    LET begun == {c \in Collectors : phase[k][c] # "unstarted"}
        failing == {c \in Collectors : lastError[k][c]}
    IN  \/ /\ begun \subseteq RequiredCollectors
           /\ booted[k] # NotBooted => enabled[k] = Caps
           /\ failing \in Failing
        \/ /\ begun \subseteq SharingCollectors
           /\ reachable[k] /\ failing = {}

\* The clusters are treated alike.
ClusterSymmetry == Permutations(Clusters)

\* The runs in which nothing goes wrong are enough for a counterexample.
QuietStart ==
  /\ \A k \in Clusters : reachable[k]
  /\ \A k \in Clusters, c \in Collectors : ~lastError[k][c]

=============================================================================
