------------------------------ MODULE MCParts ------------------------------
(***************************************************************************)
(* For TLC, the parts that share no state with each other: FluxResources,  *)
(* FluxPerformance, the Limiter and the Backoff of a client, and the       *)
(* Inventory API.  A behaviour is one of any of them, and the variables of *)
(* the others keep their first values.                                     *)
(***************************************************************************)
EXTENDS FluxResources, FluxPerformance, Limiter, Backoff, Inventory

VARIABLE kind   \* the part that runs

-----------------------------------------------------------------------------
\* Two nodes; two filesystems, one of them with used above and within total, and one that is not
\* configured; a bond, two of its members and an interface of another kind, which are two
\* more than the limit, and one that is not configured.
NodeRow(n, f, d, v) == [node |-> n, field |-> f, dim |-> d, value |-> v]
NodeRows ==
  {NodeRow(n, "cpu", Nil, 1) : n \in Nodes}
    \cup {NodeRow("n1", "memUsed", Nil, v) : v \in 1..2} \cup {NodeRow("n1", "memTotal", Nil, 1)}
    \cup {NodeRow("n1", "diskUsed", "/data", v) : v \in 1..2}
    \cup {NodeRow("n1", "diskTotal", "/data", 1)}
    \cup {NodeRow("n1", f, "/var", 2) : f \in DiskFields}
    \cup {NodeRow("n1", "diskUsed", "/tmp", 1)}
    \cup {NodeRow("n1", "received", i, 1) : i \in Interfaces}
    \cup {NodeRow("n1", "sent", "eth0", 1)}

AllEnabled == ResourceCaps

-----------------------------------------------------------------------------
\* Rows of all measurements, with spellings that mean the same and columns left out.
LabelRow(m, f, v, n, o, s, q) ==
  [measurement |-> m, field |-> f, vdc |-> v, namespace |-> n, operation |-> o,
   status |-> s, quantile |-> q]
AllLabelRows ==
  {LabelRow("throughput", f, v, Nil, Nil, Nil, Nil) :
     f \in {"total_read_requests_size", "read"}, v \in {Nil, "vdc1"}}
  \cup {LabelRow("throughput", "write", Nil, "ns1", "PUT", Nil, Nil)}
  \cup {LabelRow("latency", f, Nil, Nil, o, Nil, q) :
          f \in {"0.5", "value"}, o \in {Nil, "READ"}, q \in {Nil, "0.99"}}
  \cup {LabelRow("transaction", f, Nil, n, Nil, s, Nil) :
          f \in {"failed_request_counter", "succeed_request_counter"},
          n \in {Nil, "ns1"}, s \in {Nil, "5xx"}}
  \cup {LabelRow("error", f, Nil, n, Nil, Nil, Nil) :
          f \in {"system_errors", "user_errors"}, n \in {Nil, "ns1"}}

-----------------------------------------------------------------------------
\* A cluster with three items, two of them of the same name, and one with a single item.
Item(k, n, i) == [cluster |-> k, namespace |-> 1, name |-> n, id |-> i]
StoredItems == {Item(1, 2, 1), Item(1, 1, 2), Item(1, 2, 3), Item(2, 2, 1)}
SortsAsked ==
  {[field |-> "name", descending |-> d] : d \in BOOLEAN}
    \cup {[field |-> "namespace", descending |-> FALSE]}

SizesAsked == {1, Unset}
FiltersAsked == [cluster : {Unset}, name : {2, Unset}]

-----------------------------------------------------------------------------
PartsInit ==
  /\ kind \in {"resources", "performance", "limiter", "backoff", "inventory"}
  /\ Init
  /\ PerformanceInit /\ (kind # "performance" => defaultVDC = Nil)
  /\ LimiterInit
  /\ InventoryInit
  /\ kind # "inventory" =>
       filter.name = Unset /\ size = Unset /\ sort = [field |-> "name", descending |-> FALSE]
  /\ BackoffInit
  /\ kind # "backoff" =>
       InitialBackoff = 1 /\ MaxBackoff = 1 /\ attempt = 1 /\ retryAfter = 0

PartsNext ==
  \/ /\ kind = "resources" /\ Next
     /\ UNCHANGED <<kind, performanceVars, limiterVars, backoffVars, inventoryVars>>
  \/ /\ kind = "performance" /\ PerformanceNext
     /\ UNCHANGED <<kind, vars, limiterVars, backoffVars, inventoryVars>>
  \/ /\ kind = "limiter" /\ LimiterNext
     /\ UNCHANGED <<kind, vars, performanceVars, backoffVars, inventoryVars>>
  \/ /\ kind = "backoff" /\ BackoffNext
     /\ UNCHANGED <<kind, vars, performanceVars, limiterVars, inventoryVars>>
  \/ /\ kind = "inventory" /\ InventoryNext
     /\ UNCHANGED <<kind, vars, performanceVars, limiterVars, backoffVars>>

PartsSpec ==
  /\ PartsInit
  /\ [][PartsNext]_<<kind, vars, performanceVars, limiterVars, backoffVars, inventoryVars>>

-----------------------------------------------------------------------------
\* The inductive invariants of the parts.
PartsInv == IInv /\ PerformanceInv /\ LimiterInv /\ BackoffInv /\ InventoryInv

============================================================================
