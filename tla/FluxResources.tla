--------------------------- MODULE FluxResources ---------------------------
(***************************************************************************)
(* One CollectNodeResources from its first Flux query to the values it     *)
(* writes into the node list: the queries of the enabled capabilities      *)
(* (internal/collector/runner.go), the rows of each response as            *)
(* ParseFluxNodeResourcesWithPolicy takes them in (internal/ecs/parser.go) *)
(* and the merge of the responses.                                         *)
(*                                                                         *)
(* A response is the set of the rows that count: the code keeps them in    *)
(* maps whose entries are set at most once.  The columns a row needs, its  *)
(* time and its range are abstracted to "malformed", the sums over the     *)
(* filesystems of a node to their terms.                                   *)
(***************************************************************************)
EXTENDS Naturals, Sequences, FiniteSets, Flux

CONSTANTS
  Nodes,                  \* the nodes of the cached list, which alone get values
  Interfaces,
  Rows,                   \* what ECS may answer with, malformed rows aside
  Enabled,                \* the capabilities that are enabled
  Filesystems,            \* config: nodeResources.filesystems
  NetworkInterfaces,      \* config: nodeResources.networkInterfaces
  MaxNetworkInterfaces,   \* config: nodeResources.maxNetworkInterfaces
  PreferBondInterfaces,   \* config: nodeResources.preferBondInterfaces
  Bonds, Members,         \* interfaces named like a bond, like a member of one
  MaxStray                \* bound: rows a query did not ask for

CPUMemory == "node_cpu_memory"
Disk == "node_disk_capacity"
Network == "node_network_counters"
ResourceCaps == {CPUMemory, Disk, Network}

Gauges == {"cpu", "memUsed", "memTotal"}
DiskFields == {"diskUsed", "diskTotal"}
NetFields == {"received", "sent"}
Fields == Gauges \cup DiskFields \cup NetFields

\* A row has a node, the field of a measurement, a value, and as "dim" its filesystem or
\* interface, or Nil.  Rows of other fields are ignored, which is no step.
ASSUME RowsAssumption ==
  \A r \in Rows :
    /\ r.node \in Nodes /\ r.field \in Fields /\ r.value \in Nat
    /\ r.field \in Gauges => r.dim = Nil
    /\ r.field \in NetFields => r.dim \in Interfaces
\* With nothing enabled there is no query: see Collector!CheckCapabilities.
ASSUME PolicyAssumption ==
  /\ Enabled \subseteq ResourceCaps /\ Enabled # {}
  /\ MaxNetworkInterfaces \in 1..128
  /\ PreferBondInterfaces \in BOOLEAN
  /\ Bonds \cap Members = {}
ASSUME NilAssumption ==
  Nil \notin Nat /\ Nil \notin (Nat \cup {Nil}) \X (Nat \cup {Nil})

VARIABLES
  pc,          \* where CollectNodeResources stands
  query,       \* the number of the query under way
  answers,     \* the rows of each response that count, by query
  resources,   \* CollectNodeResources: resources
  published    \* the values ReplaceNodeResources writes, by node

vars == <<pc, query, answers, resources, published>>

-----------------------------------------------------------------------------
\* nodeResourceFluxQueries: a query is the set of the fields its predicate selects.
Queries ==
  (IF CPUMemory \in Enabled THEN <<{"cpu"}, {"memUsed", "memTotal"}>> ELSE <<>>)
    \o (IF Disk \in Enabled THEN <<DiskFields>> ELSE <<>>)
    \o (IF Network \in Enabled THEN <<NetFields>> ELSE <<>>)

Value == Nat \cup {Nil}
\* Used and total of a filesystem, received and sent bytes of an interface.
Pair == Value \X Value
NodeResource ==
  [gauge : [Gauges -> Value], disk : [Filesystems -> Pair \cup {Nil}],
   network : [Interfaces -> Pair \cup {Nil}]]
NoResource ==
  [gauge |-> [g \in Gauges |-> Nil], disk |-> [f \in Filesystems |-> Nil],
   network |-> [i \in Interfaces |-> Nil]]

SameSeries(r, s) == r.node = s.node /\ r.field = s.field /\ r.dim = s.dim

\* The policy leaves such a row out; without filesystems there are no disk values.
Ignored(row) ==
  \/ row.field \in DiskFields /\ (Disk \notin Enabled \/ row.dim \notin Filesystems)
  \/ row.field \in NetFields /\ NetworkInterfaces # {} /\ row.dim \notin NetworkInterfaces

\* The interfaces of a node that a response has rows of.
Seen(rows, n) == {r.dim : r \in {s \in rows : s.node = n /\ s.field \in NetFields}}

\* Those that stay: with a bond the interfaces named like its members are dropped.
Kept(rows, n) ==
  IF PreferBondInterfaces /\ Seen(rows, n) \cap Bonds # {}
  THEN Seen(rows, n) \ Members
  ELSE Seen(rows, n)

\* The rows of a response without those of interfaces that are dropped.
Counted(rows) == {r \in rows : r.field \in NetFields => r.dim \in Kept(rows, r.node)}

Found(rows, n, field, dim) ==
  {r \in rows : r.node = n /\ r.field = field /\ r.dim = dim}

ValueOf(found) == IF found = {} THEN Nil ELSE (CHOOSE r \in found : TRUE).value

Reading(rows, n, field, dim) == ValueOf(Found(rows, n, field, dim))

Readings(rows, n, first, second, dim) ==
  IF Found(rows, n, first, dim) \cup Found(rows, n, second, dim) = {} THEN Nil
  ELSE <<Reading(rows, n, first, dim), Reading(rows, n, second, dim)>>

\* What rows say of a node.
Resource(rows, n) ==
  [gauge |-> [g \in Gauges |-> Reading(rows, n, g, Nil)],
   disk |-> [f \in Filesystems |-> Readings(rows, n, "diskUsed", "diskTotal", f)],
   network |-> [i \in Interfaces |-> Readings(rows, n, "received", "sent", i)]]

-----------------------------------------------------------------------------
Init ==
  /\ pc = "call"
  /\ query = 1
  /\ answers = [q \in 1..Len(Queries) |-> {}]
  /\ resources = [n \in Nodes |-> NoResource]
  /\ published = [n \in Nodes |-> NoResource]

Fail ==
  /\ pc' = "failed"
  /\ UNCHANGED <<query, answers, resources, published>>

\* PostBytes returns an error.
CallError == pc = "call" /\ Fail

\* It returns a response, which ParseFluxNodeResourcesWithPolicy goes through.
Respond ==
  /\ pc = "call"
  /\ pc' = "rows"
  /\ UNCHANGED <<query, answers, resources, published>>

\* A row that is malformed: wrong columns or times, a bad value, a CPU other than
\* cpu-total or above 100 percent, no filesystem or interface, too large a sum.
Malformed == pc = "rows" /\ Fail

Stray(row) == row.field \notin Queries[query]
Strays == {x \in (1..query) \X Rows :
             x[2] \in answers[x[1]] /\ x[2].field \notin Queries[x[1]]}

\* Deviation: the limit of interfaces is one too high.
RefusedOffByOne(rows, row) ==
  \/ \E r \in rows : SameSeries(r, row)
  \/ /\ row.field \in NetFields
     /\ row.dim \notin Seen(rows, row.node)
     /\ Cardinality(Seen(rows, row.node)) > MaxNetworkInterfaces

\* The value of the row cannot be taken in: its series has one, or its interface is one
\* too many for the node.
Refused(rows, row) ==
  \/ \E r \in rows : SameSeries(r, row)
  \/ /\ row.field \in NetFields
     /\ row.dim \notin Seen(rows, row.node)
     /\ Cardinality(Seen(rows, row.node)) >= MaxNetworkInterfaces

\* One row; ECS may answer with any row to any query, in any order.
ReadRow(row) ==
  /\ pc = "rows"
  /\ ~Ignored(row)
  /\ Stray(row) => Cardinality(Strays) < MaxStray
  /\ IF Refused(answers[query], row)
     THEN Fail
     ELSE /\ answers' = [answers EXCEPT ![query] = @ \cup {row}]
          /\ UNCHANGED <<pc, query, resources, published>>

\* Deviation: filesystems with one of the two values count with what they have.
ContradictsItself(rows) ==
  \E r, s \in rows :
    /\ r.node = s.node /\ r.dim = s.dim
    /\ <<r.field, s.field>> \in {<<"memUsed", "memTotal">>, <<"diskUsed", "diskTotal">>}
    /\ r.value > s.value

\* At the end of a response: more used than there is, in the memory or in a filesystem,
\* or a filesystem with one of the two values.
Contradicts(rows) ==
  \/ \E r, s \in rows :
       /\ r.node = s.node /\ r.dim = s.dim
       /\ <<r.field, s.field>> \in {<<"memUsed", "memTotal">>, <<"diskUsed", "diskTotal">>}
       /\ r.value > s.value
  \/ \E r \in rows :
       /\ r.field \in DiskFields
       /\ \A s \in rows : {r.field, s.field} = DiskFields => r.node # s.node \/ r.dim # s.dim

EndResponse ==
  /\ pc = "rows"
  /\ IF Contradicts(answers[query])
     THEN Fail
     ELSE pc' = "merge" /\ UNCHANGED <<query, answers, resources, published>>

HasDisk(v) == \E f \in Filesystems : v.disk[f] # Nil

\* mergeNodeResources refuses a value that an earlier response had.
Conflict(current, incoming) ==
  \/ \E g \in Gauges : current.gauge[g] # Nil /\ incoming.gauge[g] # Nil
  \/ HasDisk(current) /\ HasDisk(incoming)
  \/ \E i \in Interfaces : current.network[i] # Nil /\ incoming.network[i] # Nil

\* Deviation: the record of a node is taken from the last response that has one.
MergeWhole(current, incoming) == IF incoming = NoResource THEN current ELSE incoming

Merged(current, incoming) ==
  [gauge |-> [g \in Gauges |-> Or(incoming.gauge[g], current.gauge[g])],
   disk |-> IF HasDisk(incoming) THEN incoming.disk ELSE current.disk,
   network |-> [i \in Interfaces |-> Or(incoming.network[i], current.network[i])]]

\* The response goes into the resources of the run, and the next query follows.
Merge ==
  LET incoming == [n \in Nodes |-> Resource(Counted(answers[query]), n)]
  IN  /\ pc = "merge"
      /\ IF \E n \in Nodes : Conflict(resources[n], incoming[n])
         THEN Fail
         ELSE /\ resources' = [n \in Nodes |-> Merged(resources[n], incoming[n])]
              /\ IF query = Len(Queries)
                 THEN pc' = "publish" /\ UNCHANGED query
                 ELSE pc' = "call" /\ query' = query + 1
              /\ UNCHANGED <<answers, published>>

\* ApplyNodeResourcesForCapabilities: the values of what is enabled; the others, which
\* the node keeps, are Nil here.
Applied(v) ==
  [gauge |-> IF CPUMemory \in Enabled THEN v.gauge ELSE NoResource.gauge,
   disk |-> IF Disk \in Enabled THEN v.disk ELSE NoResource.disk,
   network |-> IF Network \in Enabled THEN v.network ELSE NoResource.network]

\* The node list of the cluster is empty.
CacheEmpty == pc = "publish" /\ Fail

ReplaceNodeResources ==
  /\ pc = "publish"
  /\ pc' = "published"
  /\ published' = [n \in Nodes |-> Applied(resources[n])]
  /\ UNCHANGED <<query, answers, resources>>

Next ==
  \/ CallError \/ Respond
  \/ Malformed \/ \E row \in Rows : ReadRow(row)
  \/ EndResponse \/ Merge
  \/ CacheEmpty \/ ReplaceNodeResources

Spec == Init /\ [][Next]_vars

-----------------------------------------------------------------------------
(* Properties *)

TypeOK ==
  /\ pc \in {"call", "rows", "merge", "publish", "published", "failed"}
  /\ query \in 1..Len(Queries)
  /\ answers \in [1..Len(Queries) -> SUBSET Rows]
  /\ resources \in [Nodes -> NodeResource]
  /\ published \in [Nodes -> NodeResource]

\* What the responses say all together.
AllRows == UNION {Counted(answers[q]) : q \in 1..Len(Queries)}

\* ECS has answered each query with the rows its predicate selects.
Filtered == \A q \in 1..Len(Queries) : \A r \in answers[q] : r.field \in Queries[q]

\* Nothing that ECS reported of an enabled capability is lost or mixed up on the way
\* through responses and merges, and nothing else is published: the values are those of
\* all rows together, however ECS spreads them over responses
\* (ParseFluxNodeResourcesWithPolicy, mergeNodeResources).
ValuesAreReported ==
  pc = "published" =>
    \A n \in Nodes : published[n] = Applied(Resource(AllRows, n))

\* /metrics never shows more used than there is: of a filesystem whatever ECS answers, of
\* the memory, whose two values are only compared inside one response, when ECS answers
\* what it is asked.
UsedWithinTotal ==
  \A n \in Nodes :
    /\ \A f \in Filesystems :
         LET d == published[n].disk[f]
         IN  d # Nil => d[1] # Nil /\ d[2] # Nil /\ d[1] <= d[2]
    /\ LET m == published[n].gauge
       IN  Filtered /\ m["memUsed"] # Nil /\ m["memTotal"] # Nil =>
             m["memUsed"] <= m["memTotal"]

\* The series of a node stay within the configured number of interfaces, which is
\* enforced response by response, and a bond is not counted twice with its members
\* (MaxNetworkInterfaces, PreferBondInterfaces).
InterfacesWithinPolicy ==
  \A n \in Nodes :
    LET shown == {i \in Interfaces : published[n].network[i] # Nil}
    IN  /\ NetworkInterfaces # {} => shown \subseteq NetworkInterfaces
        /\ Filtered => Cardinality(shown) <= MaxNetworkInterfaces
        /\ Filtered /\ PreferBondInterfaces /\ shown \cap Bonds # {} =>
             shown \cap Members = {}

-----------------------------------------------------------------------------
(* The inductive invariant *)

\* How many responses are in the resources, and their rows.
Done == IF pc \in {"publish", "published"} THEN query ELSE query - 1
RowsUpTo(m) == UNION {Counted(answers[q]) : q \in 1..m}

QueryInv ==
  /\ pc \in {"publish", "published"} => query = Len(Queries)
  /\ \A q \in 1..Len(Queries) :
       q > query \/ (q = query /\ pc = "call") => answers[q] = {}

\* What holds of a response while its rows are read, and once it has passed the checks.
ResponseInv ==
  \A q \in 1..Len(Queries) :
    /\ \A r \in answers[q] : ~Ignored(r)
    /\ \A n \in Nodes :
         /\ IsFiniteSet(Seen(answers[q], n))
         /\ Cardinality(Seen(answers[q], n)) <= MaxNetworkInterfaces
    /\ q <= Done \/ (q = query /\ pc = "merge") => ~Contradicts(answers[q])

HasDiskRow(rows, n) == \E r \in rows : r.node = n /\ r.field \in DiskFields

\* The filesystems of a node are those of one response.
DiskInv ==
  \A n \in Nodes : \A p, q \in 1..Done :
    HasDiskRow(answers[p], n) /\ HasDiskRow(answers[q], n) => p = q

ResourceInv ==
  pc # "failed" => \A n \in Nodes : resources[n] = Resource(RowsUpTo(Done), n)

PublishedInv ==
  \A n \in Nodes :
    published[n] = IF pc = "published" THEN Applied(resources[n]) ELSE NoResource

IInv == TypeOK /\ QueryInv /\ ResponseInv /\ DiskInv /\ ResourceInv /\ PublishedInv

=============================================================================
