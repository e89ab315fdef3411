------------------------------- MODULE Cache --------------------------------
(***************************************************************************)
(* What the cache of one cluster (internal/cache/store.go) promises to its *)
(* readers, whatever the goroutines behind it do: a run puts what it has   *)
(* collected into the cache in one step or not at all, its success is      *)
(* recorded exactly when it has, and the statuses of the nodes are never   *)
(* of two runs at a time.  Collector implements this specification.        *)
(***************************************************************************)
EXTENDS Naturals

CONSTANTS
  Collectors,    \* the scheduled collectors
  Keys           \* the collectors the cache has a place for

VARIABLES
  phase,         \* where the run of each collector is, as far as the cache knows
  run,           \* CollectorState.Runs: the number of its last run
  current,       \* the run whose result is in the cache
  success,       \* the run that CollectorState.LastSuccessAt is of
  statuses       \* the node runs that the cached health and services are of

vars == <<phase, run, current, success, statuses>>

-----------------------------------------------------------------------------
Init ==
  /\ phase = [c \in Collectors |-> "idle"]
  /\ run = [c \in Collectors |-> 0]
  /\ current = [k \in Keys |-> 0]
  /\ success = [c \in Collectors |-> 0]
  /\ statuses = {}

\* Store.Start.
Begin(c) ==
  /\ phase[c] = "idle"
  /\ phase' = [phase EXCEPT ![c] = "running"]
  /\ run' = [run EXCEPT ![c] = @ + 1]
  /\ UNCHANGED <<current, success, statuses>>

\* The node lists a publication may leave: a node run brings new statuses, one of the
\* node resources may bring back those of the last node run.
StatusesAfter(c) ==
  CASE c = "node" -> SUBSET {run[c]}
    [] c = "node-resources" -> SUBSET ({current["node"]} \ {0})
    [] OTHER -> {statuses}

\* The one Replace operation, or MergeRecovery, of a run.
Publish(c) ==
  /\ phase[c] = "running"
  /\ phase' = [phase EXCEPT ![c] = "published"]
  /\ current' = [current EXCEPT ![c] = run[c]]
  /\ statuses' \in StatusesAfter(c)
  /\ UNCHANGED <<run, success>>

\* The list of Bootstrap has no statuses.
Forget ==
  /\ statuses' = {}
  /\ UNCHANGED <<phase, run, current, success>>

\* Store.Finish without an error.
Succeed(c) ==
  /\ phase[c] = "published"
  /\ phase' = [phase EXCEPT ![c] = "idle"]
  /\ success' = [success EXCEPT ![c] = run[c]]
  /\ UNCHANGED <<run, current, statuses>>

\* Store.Finish with an error, and Store.FinishSkipped.
GiveUp(c) ==
  /\ phase[c] = "running"
  /\ phase' = [phase EXCEPT ![c] = "idle"]
  /\ UNCHANGED <<run, current, success, statuses>>

Next ==
  \/ Forget
  \/ \E c \in Collectors : Begin(c) \/ Publish(c) \/ Succeed(c) \/ GiveUp(c)

Spec == Init /\ [][Next]_vars

=============================================================================
