------------------------ MODULE FluxResourcesProofs -------------------------
(***************************************************************************)
(* The published node resources are those reported, for any rows and any   *)
(* spread of them over the responses.                                      *)
(***************************************************************************)
EXTENDS FluxResources, FiniteSetTheorems, TLAPS

-----------------------------------------------------------------------------
(* The queries *)

\* What a query asks for; a sequence of queries of which no two share a field.
Blocks == {{"cpu"}, {"memUsed", "memTotal"}, DiskFields, NetFields}
Separate(s) == \A i, j \in DOMAIN s : s[i] \cap s[j] # {} => i = j

\* Two such sequences that share no field make one.
LEMMA ConcatSeparate ==
  ASSUME NEW s \in Seq(Blocks), NEW t \in Seq(Blocks),
         Separate(s), Separate(t),
         NEW A, NEW B, A \cap B = {},
         \A i \in DOMAIN s : s[i] \subseteq A, \A i \in DOMAIN t : t[i] \subseteq B
  PROVE  /\ s \o t \in Seq(Blocks)
         /\ Len(s \o t) = Len(s) + Len(t)
         /\ Separate(s \o t)
         /\ \A i \in DOMAIN (s \o t) : (s \o t)[i] \subseteq A \cup B
<1>1. /\ s \o t \in Seq(Blocks)
      /\ DOMAIN s = 1..Len(s) /\ DOMAIN t = 1..Len(t)
      /\ DOMAIN (s \o t) = 1..(Len(s) + Len(t)) /\ Len(s \o t) = Len(s) + Len(t)
      /\ Len(s) \in Nat /\ Len(t) \in Nat
      /\ \A i \in 1..Len(s) : (s \o t)[i] = s[i]
      /\ \A i \in 1..Len(t) : (s \o t)[Len(s) + i] = t[i]
  OBVIOUS
<1>2. \A i \in DOMAIN (s \o t) :
        \/ i \in DOMAIN s /\ (s \o t)[i] = s[i]
        \/ i - Len(s) \in DOMAIN t /\ (s \o t)[i] = t[i - Len(s)]
  <2> TAKE i \in DOMAIN (s \o t)
  <2>1. CASE i <= Len(s)
    BY <1>1, <2>1
  <2>2. CASE i > Len(s)
    <3> DEFINE j == i - Len(s)
    <3>1. j \in 1..Len(t) /\ i = Len(s) + j
      BY <1>1, <2>2
    <3>2. (s \o t)[Len(s) + j] = t[j]
      BY <1>1, <3>1
    <3> QED BY <1>1, <3>1, <3>2
  <2> QED BY <1>1, <2>1, <2>2
<1>3. \A i \in DOMAIN (s \o t) : (s \o t)[i] \subseteq A \cup B
  BY <1>2
<1>4. ASSUME NEW i \in DOMAIN (s \o t), NEW j \in DOMAIN (s \o t),
             (s \o t)[i] \cap (s \o t)[j] # {}
      PROVE  i = j
  <2>1. PICK f : f \in (s \o t)[i] /\ f \in (s \o t)[j]
    BY <1>4
  <2>2. CASE i \in DOMAIN s /\ (s \o t)[i] = s[i] /\ j \in DOMAIN s /\ (s \o t)[j] = s[j]
    BY <2>1, <2>2 DEF Separate
  <2>3. CASE /\ i - Len(s) \in DOMAIN t /\ (s \o t)[i] = t[i - Len(s)]
             /\ j - Len(s) \in DOMAIN t /\ (s \o t)[j] = t[j - Len(s)]
    <3>1. t[i - Len(s)] \cap t[j - Len(s)] # {}
      BY <2>1, <2>3
    <3>2. i - Len(s) = j - Len(s)
      BY <2>3, <3>1 DEF Separate
    <3> QED BY <1>1, <3>2
  <2>4. CASE i \in DOMAIN s /\ (s \o t)[i] = s[i]
             /\ j - Len(s) \in DOMAIN t /\ (s \o t)[j] = t[j - Len(s)]
    <3>1. f \in A /\ f \in B
      BY <2>1, <2>4
    <3> QED BY <3>1
  <2>5. CASE i - Len(s) \in DOMAIN t /\ (s \o t)[i] = t[i - Len(s)]
             /\ j \in DOMAIN s /\ (s \o t)[j] = s[j]
    <3>1. f \in A /\ f \in B
      BY <2>1, <2>5
    <3> QED BY <3>1
  <2> QED BY <1>2, <2>2, <2>3, <2>4, <2>5
<1>5. Separate(s \o t)
  BY <1>4 DEF Separate
<1> QED BY <1>1, <1>3, <1>5

\* There is at least one query, no field is asked for twice, and fields that belong
\* together are asked for together (nodeResourceFluxQueries).
LEMMA QueriesFact ==
  /\ Len(Queries) \in Nat /\ Len(Queries) >= 1
  /\ \A q \in 1..Len(Queries) : Queries[q] \in Blocks
  /\ \A p, q \in 1..Len(Queries) : Queries[p] \cap Queries[q] # {} => p = q
<1> DEFINE cpu == IF CPUMemory \in Enabled THEN <<{"cpu"}, {"memUsed", "memTotal"}>> ELSE <<>>
           disk == IF Disk \in Enabled THEN <<DiskFields>> ELSE <<>>
           net == IF Network \in Enabled THEN <<NetFields>> ELSE <<>>
<1>1. /\ cpu \in Seq(Blocks) /\ Separate(cpu)
      /\ \A i \in DOMAIN cpu : cpu[i] \subseteq Gauges
      /\ Len(cpu) \in Nat
      /\ CPUMemory \in Enabled => Len(cpu) = 2
  <2>1. CASE CPUMemory \in Enabled
    <3> DEFINE both == <<{"cpu"}, {"memUsed", "memTotal"}>>
    <3>1. cpu = both
      BY <2>1
    <3>2. both \in Seq(Blocks) /\ DOMAIN both = 1..2 /\ Len(both) = 2
      BY DEF Blocks
    <3>3. both[1] = {"cpu"} /\ both[2] = {"memUsed", "memTotal"}
      OBVIOUS
    <3> HIDE DEF both, cpu
    <3>4. Separate(both) /\ \A i \in DOMAIN both : both[i] \subseteq Gauges
      BY <3>2, <3>3 DEF Separate, Gauges
    <3> QED BY <2>1, <3>1, <3>2, <3>4
  <2>2. CASE CPUMemory \notin Enabled
    BY <2>2 DEF Separate
  <2> QED BY <2>1, <2>2
<1>2. /\ disk \in Seq(Blocks) /\ Separate(disk)
      /\ \A i \in DOMAIN disk : disk[i] \subseteq DiskFields
      /\ Len(disk) \in Nat
      /\ Disk \in Enabled => Len(disk) = 1
  <2>1. CASE Disk \in Enabled
    <3> DEFINE one == <<DiskFields>>
    <3>1. disk = one
      BY <2>1
    <3>2. one \in Seq(Blocks) /\ DOMAIN one = 1..1 /\ Len(one) = 1 /\ one[1] = DiskFields
      BY DEF Blocks
    <3> HIDE DEF one, disk
    <3>3. Separate(one) /\ \A i \in DOMAIN one : one[i] \subseteq DiskFields
      BY <3>2 DEF Separate
    <3> QED BY <2>1, <3>1, <3>2, <3>3
  <2>2. CASE Disk \notin Enabled
    BY <2>2 DEF Separate
  <2> QED BY <2>1, <2>2
<1>3. /\ net \in Seq(Blocks) /\ Separate(net)
      /\ \A i \in DOMAIN net : net[i] \subseteq NetFields
      /\ Len(net) \in Nat
      /\ Network \in Enabled => Len(net) = 1
  <2>1. CASE Network \in Enabled
    <3> DEFINE one == <<NetFields>>
    <3>1. net = one
      BY <2>1
    <3>2. one \in Seq(Blocks) /\ DOMAIN one = 1..1 /\ Len(one) = 1 /\ one[1] = NetFields
      BY DEF Blocks
    <3> HIDE DEF one, net
    <3>3. Separate(one) /\ \A i \in DOMAIN one : one[i] \subseteq NetFields
      BY <3>2 DEF Separate
    <3> QED BY <2>1, <3>1, <3>2, <3>3
  <2>2. CASE Network \notin Enabled
    BY <2>2 DEF Separate
  <2> QED BY <2>1, <2>2
<1>4. /\ Gauges \cap DiskFields = {} /\ (Gauges \cup DiskFields) \cap NetFields = {}
  BY DEF Gauges, DiskFields, NetFields
<1>5. Queries = cpu \o disk \o net
  BY DEF Queries
<1> HIDE DEF cpu, disk, net
<1>6. /\ cpu \o disk \in Seq(Blocks) /\ Separate(cpu \o disk)
      /\ Len(cpu \o disk) = Len(cpu) + Len(disk)
      /\ \A i \in DOMAIN (cpu \o disk) : (cpu \o disk)[i] \subseteq Gauges \cup DiskFields
  BY <1>1, <1>2, <1>4, ConcatSeparate
<1>7. /\ Queries \in Seq(Blocks) /\ Separate(Queries)
      /\ Len(Queries) = Len(cpu) + Len(disk) + Len(net)
  <2> DEFINE front == cpu \o disk
             whole == front \o net
             A == Gauges \cup DiskFields
  <2>1. /\ front \in Seq(Blocks) /\ Separate(front)
        /\ \A i \in DOMAIN front : front[i] \subseteq A
        /\ A \cap NetFields = {}
    BY <1>4, <1>6
  <2> HIDE DEF front, A
  <2>2. /\ whole \in Seq(Blocks) /\ Separate(whole)
        /\ Len(whole) = Len(front) + Len(net)
    BY <1>3, <2>1, ConcatSeparate
  <2>3. Queries = whole
    BY <1>5 DEF front
  <2> QED BY <1>6, <2>2, <2>3 DEF front
<1>8. CPUMemory \in Enabled \/ Disk \in Enabled \/ Network \in Enabled
  BY PolicyAssumption DEF ResourceCaps
<1>9. Len(Queries) \in Nat /\ Len(Queries) >= 1
  BY <1>1, <1>2, <1>3, <1>7, <1>8
<1> QED
  BY <1>7, <1>9 DEF Separate

-----------------------------------------------------------------------------
(* Readings *)

\* What Reading returns is a number, or Nil when there is no row.
LEMMA ReadingType ==
  ASSUME NEW rows \in SUBSET Rows, NEW n, NEW field, NEW dim
  PROVE  /\ Reading(rows, n, field, dim) \in Value
         /\ Reading(rows, n, field, dim) = Nil <=> Found(rows, n, field, dim) = {}
         /\ Reading(rows, n, field, dim) # Nil =>
              \E r \in rows : /\ r.node = n /\ r.field = field /\ r.dim = dim
                              /\ Reading(rows, n, field, dim) = r.value
<1> DEFINE found == Found(rows, n, field, dim)
<1>1. CASE found = {}
  BY <1>1, NilAssumption DEF Reading, ValueOf, Value
<1>2. CASE found # {}
  <2> DEFINE r == CHOOSE x \in found : TRUE
  <2>1. r \in found
    BY <1>2
  <2>2. r \in rows /\ r.node = n /\ r.field = field /\ r.dim = dim /\ r.value \in Nat
    BY <2>1, RowsAssumption DEF Found
  <2>3. Reading(rows, n, field, dim) = r.value
    BY <1>2 DEF Reading, ValueOf
  <2> HIDE DEF r, found
  <2> QED BY <1>2, <2>2, <2>3, NilAssumption DEF Value, found
<1> QED BY <1>1, <1>2

\* A pair of readings is a pair, or Nil when there is no row of either.
LEMMA ReadingsType ==
  ASSUME NEW rows \in SUBSET Rows, NEW n, NEW first, NEW second, NEW dim
  PROVE  /\ Readings(rows, n, first, second, dim) \in Pair \cup {Nil}
         /\ Readings(rows, n, first, second, dim) = Nil <=>
              Found(rows, n, first, dim) \cup Found(rows, n, second, dim) = {}
<1>1. /\ Reading(rows, n, first, dim) \in Value
      /\ Reading(rows, n, second, dim) \in Value
  BY ReadingType
<1>2. <<Reading(rows, n, first, dim), Reading(rows, n, second, dim)>> \in Pair
  BY <1>1 DEF Pair
<1>3. Nil \notin Pair
  BY NilAssumption DEF Pair, Value
<1> QED BY <1>2, <1>3 DEF Readings

\* What rows say of a node is a record of the parser's type.
LEMMA ResourceType ==
  ASSUME NEW rows \in SUBSET Rows, NEW n PROVE Resource(rows, n) \in NodeResource
<1>1. \A g \in Gauges : Reading(rows, n, g, Nil) \in Value
  BY ReadingType
<1>2. \A f \in Filesystems :
        Readings(rows, n, "diskUsed", "diskTotal", f) \in Pair \cup {Nil}
  BY ReadingsType
<1>3. \A i \in Interfaces : Readings(rows, n, "received", "sent", i) \in Pair \cup {Nil}
  BY ReadingsType
<1> QED BY <1>1, <1>2, <1>3 DEF Resource, NodeResource

\* No rows say nothing.
LEMMA ResourceOfNone == ASSUME NEW n PROVE Resource({}, n) = NoResource
<1>1. \A field, dim : Found({}, n, field, dim) = {}
  BY DEF Found
<1>2. \A field, dim : Reading({}, n, field, dim) = Nil
  BY <1>1 DEF Reading, ValueOf
<1>3. \A first, second, dim : Readings({}, n, first, second, dim) = Nil
  BY <1>1 DEF Readings
<1> QED BY <1>2, <1>3 DEF Resource, NoResource

\* The reading of two sets of rows of which one has none.
LEMMA ReadingUnion ==
  ASSUME NEW a \in SUBSET Rows, NEW b \in SUBSET Rows, NEW n, NEW field, NEW dim,
         Reading(a, n, field, dim) = Nil \/ Reading(b, n, field, dim) = Nil
  PROVE  Reading(a \cup b, n, field, dim) =
           Or(Reading(b, n, field, dim), Reading(a, n, field, dim))
<1>1. Found(a \cup b, n, field, dim) = Found(a, n, field, dim) \cup Found(b, n, field, dim)
  BY DEF Found
<1>2. /\ Reading(a, n, field, dim) = Nil <=> Found(a, n, field, dim) = {}
      /\ Reading(b, n, field, dim) = Nil <=> Found(b, n, field, dim) = {}
  BY ReadingType
<1>3. CASE Found(a, n, field, dim) = {}
  <2>1. Found(a \cup b, n, field, dim) = Found(b, n, field, dim)
    BY <1>1, <1>3
  <2>2. Reading(a \cup b, n, field, dim) = Reading(b, n, field, dim)
    BY <2>1 DEF Reading
  <2> QED BY <1>2, <1>3, <2>2 DEF Or
<1>4. CASE Found(b, n, field, dim) = {}
  <2>1. Found(a \cup b, n, field, dim) = Found(a, n, field, dim)
    BY <1>1, <1>4
  <2>2. Reading(a \cup b, n, field, dim) = Reading(a, n, field, dim)
    BY <2>1 DEF Reading
  <2> QED BY <1>2, <1>4, <2>2 DEF Or
<1> QED BY <1>2, <1>3, <1>4

\* The same of pairs of readings.
LEMMA ReadingsUnion ==
  ASSUME NEW a \in SUBSET Rows, NEW b \in SUBSET Rows, NEW n,
         NEW first, NEW second, NEW dim,
         Readings(a, n, first, second, dim) = Nil \/ Readings(b, n, first, second, dim) = Nil
  PROVE  Readings(a \cup b, n, first, second, dim) =
           Or(Readings(b, n, first, second, dim), Readings(a, n, first, second, dim))
<1>1. \A field : Found(a \cup b, n, field, dim) =
                   Found(a, n, field, dim) \cup Found(b, n, field, dim)
  BY DEF Found
<1>2. /\ Readings(a, n, first, second, dim) = Nil <=>
           Found(a, n, first, dim) \cup Found(a, n, second, dim) = {}
      /\ Readings(b, n, first, second, dim) = Nil <=>
           Found(b, n, first, dim) \cup Found(b, n, second, dim) = {}
  BY ReadingsType
<1>3. CASE Readings(a, n, first, second, dim) = Nil
  <2>1. \A field \in {first, second} :
          Found(a \cup b, n, field, dim) = Found(b, n, field, dim)
    BY <1>1, <1>2, <1>3
  <2>2. Readings(a \cup b, n, first, second, dim) = Readings(b, n, first, second, dim)
    BY <2>1 DEF Readings, Reading
  <2> QED BY <1>3, <2>2 DEF Or
<1>4. CASE Readings(b, n, first, second, dim) = Nil
  <2>1. \A field \in {first, second} :
          Found(a \cup b, n, field, dim) = Found(a, n, field, dim)
    BY <1>1, <1>2, <1>4
  <2>2. Readings(a \cup b, n, first, second, dim) = Readings(a, n, first, second, dim)
    BY <2>1 DEF Readings, Reading
  <2> QED BY <1>4, <2>2 DEF Or
<1> QED BY <1>3, <1>4

\* A response without conflict adds its rows to what is known (mergeNodeResources).
LEMMA MergeAdds ==
  ASSUME NEW a \in SUBSET Rows, NEW b \in SUBSET Rows, NEW n,
         ~Conflict(Resource(a, n), Resource(b, n))
  PROVE  Resource(a \cup b, n) = Merged(Resource(a, n), Resource(b, n))
<1> DEFINE A == Resource(a, n)
           B == Resource(b, n)
           U == Resource(a \cup b, n)
<1>1. \A g \in Gauges : U.gauge[g] = Or(B.gauge[g], A.gauge[g])
  <2> TAKE g \in Gauges
  <2>1. Reading(a, n, g, Nil) = Nil \/ Reading(b, n, g, Nil) = Nil
    BY DEF Conflict, Resource
  <2> QED BY <2>1, ReadingUnion DEF Resource
<1>2. \A i \in Interfaces : U.network[i] = Or(B.network[i], A.network[i])
  <2> TAKE i \in Interfaces
  <2>1. \/ Readings(a, n, "received", "sent", i) = Nil
        \/ Readings(b, n, "received", "sent", i) = Nil
    BY DEF Conflict, Resource
  <2> QED BY <2>1, ReadingsUnion DEF Resource
<1>3. \A f \in Filesystems :
        U.disk[f] = IF HasDisk(B) THEN B.disk[f] ELSE A.disk[f]
  <2> TAKE f \in Filesystems
  <2>1. ~HasDisk(A) \/ ~HasDisk(B)
    BY DEF Conflict
  <2>2. ~HasDisk(A) => Readings(a, n, "diskUsed", "diskTotal", f) = Nil
    BY DEF HasDisk, Resource
  <2>3. ~HasDisk(B) => Readings(b, n, "diskUsed", "diskTotal", f) = Nil
    BY DEF HasDisk, Resource
  <2>4. U.disk[f] = Or(Readings(b, n, "diskUsed", "diskTotal", f),
                       Readings(a, n, "diskUsed", "diskTotal", f))
    BY <2>1, <2>2, <2>3, ReadingsUnion DEF Resource
  <2>5. CASE HasDisk(B)
    BY <2>1, <2>2, <2>4, <2>5 DEF Or, Resource
  <2>6. CASE ~HasDisk(B)
    BY <2>3, <2>4, <2>6 DEF Or, Resource
  <2> QED BY <2>5, <2>6
<1>4. /\ U.gauge = [g \in Gauges |-> Or(B.gauge[g], A.gauge[g])]
      /\ U.network = [i \in Interfaces |-> Or(B.network[i], A.network[i])]
  BY <1>1, <1>2 DEF Resource
<1>5. U.disk = IF HasDisk(B) THEN B.disk ELSE A.disk
  BY <1>3 DEF Resource
<1>6. U = [gauge |-> U.gauge, disk |-> U.disk, network |-> U.network]
  BY DEF Resource
<1> HIDE DEF U, A, B
<1>7. U = Merged(A, B)
  BY <1>4, <1>5, <1>6 DEF Merged
<1> QED BY <1>7 DEF U, A, B

\* What is applied of the values of a node is again such values.
LEMMA AppliedType ==
  ASSUME NEW v \in NodeResource PROVE Applied(v) \in NodeResource
<1>1. NoResource \in NodeResource
  BY ResourceType, ResourceOfNone
<1> HIDE DEF NoResource
<1> QED BY <1>1 DEF Applied, NodeResource

\* A value that is applied is a reading of the rows (ApplyNodeResourcesForCapabilities).
LEMMA AppliedShows ==
  ASSUME NEW rows, NEW n, NEW v, v = Applied(Resource(rows, n))
  PROVE  /\ \A g \in Gauges : v.gauge[g] # Nil => v.gauge[g] = Reading(rows, n, g, Nil)
         /\ \A f \in Filesystems : v.disk[f] # Nil =>
              v.disk[f] = Readings(rows, n, "diskUsed", "diskTotal", f)
         /\ \A i \in Interfaces : v.network[i] # Nil =>
              v.network[i] = Readings(rows, n, "received", "sent", i)
<1> DEFINE x == Resource(rows, n)
<1>1. /\ \A g \in Gauges : x.gauge[g] = Reading(rows, n, g, Nil)
      /\ \A f \in Filesystems : x.disk[f] = Readings(rows, n, "diskUsed", "diskTotal", f)
      /\ \A i \in Interfaces : x.network[i] = Readings(rows, n, "received", "sent", i)
  BY DEF Resource
<1>2. /\ \A g \in Gauges : NoResource.gauge[g] = Nil
      /\ \A f \in Filesystems : NoResource.disk[f] = Nil
      /\ \A i \in Interfaces : NoResource.network[i] = Nil
  BY DEF NoResource
<1> HIDE DEF x
<1>3. /\ v.gauge \in {x.gauge, NoResource.gauge}
      /\ v.disk \in {x.disk, NoResource.disk}
      /\ v.network \in {x.network, NoResource.network}
  BY DEF Applied, x
<1> QED BY <1>1, <1>2, <1>3

-----------------------------------------------------------------------------
(* Rows of responses *)

\* The rows of one response more (CollectNodeResources).
LEMMA RowsStep ==
  ASSUME NEW q \in Nat, q >= 1
  PROVE  RowsUpTo(q) = RowsUpTo(q - 1) \cup Counted(answers[q])
<1>1. 1..q = 1..(q - 1) \cup {q}
  OBVIOUS
<1> QED BY <1>1 DEF RowsUpTo

\* A disk row of a response that is merged gives its node disk values.
LEMMA DiskRowCounts ==
  ASSUME NEW rows \in SUBSET Rows, NEW n, NEW r \in rows,
         r.node = n, r.field \in DiskFields, ~Ignored(r)
  PROVE  HasDisk(Resource(rows, n))
<1>1. r.dim \in Filesystems
  BY DEF Ignored
<1>2. r \in Found(rows, n, "diskUsed", r.dim) \cup Found(rows, n, "diskTotal", r.dim)
  BY DEF Found, DiskFields
<1>3. Readings(rows, n, "diskUsed", "diskTotal", r.dim) # Nil
  BY <1>2, ReadingsType
<1> QED BY <1>1, <1>3 DEF HasDisk, Resource

-----------------------------------------------------------------------------
(* The inductive invariant *)

\* It holds before the first query.
LEMMA InitInv == Init => IInv
<1> SUFFICES ASSUME Init PROVE IInv
  OBVIOUS
<1>1. NoResource \in NodeResource
  BY ResourceType, ResourceOfNone
<1> HIDE DEF NoResource
<1>2. TypeOK
  BY <1>1, QueriesFact DEF Init, TypeOK
<1>3. QueryInv
  BY DEF Init, QueryInv
<1>4. Done = 0
  BY DEF Init, Done
<1>5. ResponseInv
  <2>1. \A n : Seen({}, n) = {}
    BY DEF Seen
  <2>2. IsFiniteSet({}) /\ Cardinality({}) = 0
    BY FS_EmptySet
  <2>3. MaxNetworkInterfaces >= 0
    BY PolicyAssumption
  <2>4. ~Contradicts({})
    BY DEF Contradicts
  <2> QED BY <2>1, <2>2, <2>3, <2>4 DEF Init, ResponseInv
<1>6. DiskInv
  BY <1>4 DEF DiskInv
<1>7. ResourceInv
  <2>1. RowsUpTo(0) = {}
    BY DEF RowsUpTo
  <2> QED BY <1>4, <2>1, ResourceOfNone DEF Init, ResourceInv
<1>8. PublishedInv
  BY DEF Init, PublishedInv
<1> QED BY <1>2, <1>3, <1>5, <1>6, <1>7, <1>8 DEF IInv

\* A failed run leaves everything as it was (CollectNodeResources returns the error).
LEMMA FailInv ==
  ASSUME IInv, pc \in {"call", "rows", "merge", "publish"}, Fail PROVE IInv'
<1>1. TypeOK'
  BY DEF IInv, TypeOK, Fail
<1>2. QueryInv'
  BY DEF IInv, QueryInv, Fail
<1>3. query \in Nat /\ query' = query /\ Done \in Int /\ Done' <= Done /\ Done' \in Int
  BY DEF IInv, TypeOK, Fail, Done
<1>4. ResponseInv'
  <2> SUFFICES ASSUME NEW q \in 1..Len(Queries), q <= Done' PROVE q <= Done
    BY DEF IInv, ResponseInv, Fail
  <2> QED BY <1>3
<1>5. DiskInv'
  <2>1. 1..Done' \subseteq 1..Done
    BY <1>3
  <2> QED BY <2>1 DEF IInv, DiskInv, HasDiskRow, Fail
<1>6. ResourceInv'
  BY DEF ResourceInv, Fail
<1>7. PublishedInv'
  BY DEF IInv, PublishedInv, Fail
<1> QED BY <1>1, <1>2, <1>4, <1>5, <1>6, <1>7 DEF IInv

\* A response begins.
LEMMA RespondInv == ASSUME IInv, Respond PROVE IInv'
<1>1. TypeOK'
  BY DEF IInv, TypeOK, Respond
<1>2. QueryInv'
  BY DEF IInv, QueryInv, Respond
<1>3. Done' = Done
  BY DEF Respond, Done
<1>4. ResponseInv'
  BY <1>3 DEF IInv, ResponseInv, Respond
<1>5. DiskInv'
  BY <1>3 DEF IInv, DiskInv, Respond
<1>6. ResourceInv'
  BY <1>3 DEF IInv, ResourceInv, RowsUpTo, Respond
<1>7. PublishedInv'
  BY DEF IInv, PublishedInv, Respond
<1> QED BY <1>1, <1>2, <1>4, <1>5, <1>6, <1>7 DEF IInv

\* A row that is not refused keeps its node within the limit of interfaces.
LEMMA SeenStep ==
  ASSUME NEW rows \in SUBSET Rows, NEW row \in Rows, NEW n, ~Refused(rows, row),
         IsFiniteSet(Seen(rows, n)), Cardinality(Seen(rows, n)) <= MaxNetworkInterfaces
  PROVE  /\ IsFiniteSet(Seen(rows \cup {row}, n))
         /\ Cardinality(Seen(rows \cup {row}, n)) <= MaxNetworkInterfaces
<1> DEFINE old == Seen(rows, n)
           new == Seen(rows \cup {row}, n)
<1>1. CASE row.node = n /\ row.field \in NetFields
  <2>1. new = old \cup {row.dim}
    BY <1>1 DEF Seen
  <2>2. row.dim \notin old => Cardinality(old) < MaxNetworkInterfaces
    <3>1. Cardinality(old) \in Nat /\ MaxNetworkInterfaces \in Nat
      BY FS_CardinalityType, PolicyAssumption
    <3>2. row.dim \notin old => ~(Cardinality(old) >= MaxNetworkInterfaces)
      BY <1>1 DEF Refused
    <3> QED BY <3>1, <3>2
  <2>3. /\ IsFiniteSet(old \cup {row.dim})
        /\ Cardinality(old \cup {row.dim}) =
             IF row.dim \in old THEN Cardinality(old) ELSE Cardinality(old) + 1
    BY FS_AddElement
  <2>4. Cardinality(old) \in Nat /\ MaxNetworkInterfaces \in Nat
    BY FS_CardinalityType, PolicyAssumption
  <2> HIDE DEF old, new
  <2>5. Cardinality(old) <= MaxNetworkInterfaces
    BY DEF old
  <2> QED BY <2>1, <2>2, <2>3, <2>4, <2>5 DEF new
<1>2. CASE ~(row.node = n /\ row.field \in NetFields)
  <2>1. new = old
    BY <1>2 DEF Seen
  <2> QED BY <2>1
<1> QED BY <1>1, <1>2

\* A row is taken in (ParseFluxNodeResourcesWithPolicy).
LEMMA ReadRowInv ==
  ASSUME IInv, NEW row \in Rows, ReadRow(row) PROVE IInv'
<1>1. CASE Refused(answers[query], row)
  BY <1>1, FailInv DEF ReadRow
<1>2. CASE ~Refused(answers[query], row)
  <2> USE <1>2
  <2>1. /\ pc = "rows" /\ pc' = "rows" /\ ~Ignored(row)
        /\ answers' = [answers EXCEPT ![query] = @ \cup {row}]
        /\ query' = query /\ resources' = resources /\ published' = published
    BY DEF ReadRow
  <2>2. /\ query \in 1..Len(Queries) /\ answers \in [1..Len(Queries) -> SUBSET Rows]
        /\ Len(Queries) \in Nat
    BY QueriesFact DEF IInv, TypeOK
  <2>3. /\ answers'[query] = answers[query] \cup {row}
        /\ \A q \in 1..Len(Queries) : q # query => answers'[q] = answers[q]
    BY <2>1, <2>2
  <2>4. Done = query - 1 /\ Done' = query - 1
    BY <2>1 DEF Done
  <2>5. TypeOK'
    BY <2>1 DEF IInv, TypeOK
  <2>6. QueryInv'
    BY <2>1, <2>2, <2>3 DEF IInv, QueryInv
  <2>7. ResponseInv'
    <3> SUFFICES ASSUME NEW q \in 1..Len(Queries)
                 PROVE  /\ \A r \in answers'[q] : ~Ignored(r)
                        /\ \A n \in Nodes :
                             /\ IsFiniteSet(Seen(answers'[q], n))
                             /\ Cardinality(Seen(answers'[q], n)) <= MaxNetworkInterfaces
                        /\ q <= Done' => ~Contradicts(answers'[q])
      BY <2>1 DEF ResponseInv
    <3>1. CASE q = query
      <4>1. \A r \in answers'[q] : ~Ignored(r)
        BY <2>1, <2>3, <3>1 DEF IInv, ResponseInv
      <4>2. ASSUME NEW n \in Nodes
            PROVE  /\ IsFiniteSet(Seen(answers'[q], n))
                   /\ Cardinality(Seen(answers'[q], n)) <= MaxNetworkInterfaces
        <5>1. /\ IsFiniteSet(Seen(answers[q], n))
              /\ Cardinality(Seen(answers[q], n)) <= MaxNetworkInterfaces
          BY DEF IInv, ResponseInv
        <5>2. answers[q] \in SUBSET Rows
          BY <2>2
        <5> QED BY <2>3, <3>1, <5>1, <5>2, SeenStep
      <4>3. ~(q <= Done')
        BY <2>2, <2>4, <3>1
      <4> QED BY <4>1, <4>2, <4>3
    <3>2. CASE q # query
      BY <2>3, <2>4, <3>2 DEF IInv, ResponseInv
    <3> QED BY <3>1, <3>2
  <2>8. \A q \in 1..(query - 1) : answers'[q] = answers[q]
    BY <2>2, <2>3
  <2>9. DiskInv'
    BY <2>4, <2>8 DEF IInv, DiskInv
  <2>10. ResourceInv'
    <3>1. RowsUpTo(query - 1)' = RowsUpTo(query - 1)
      BY <2>1, <2>8 DEF RowsUpTo
    <3> QED BY <2>1, <2>4, <3>1 DEF IInv, ResourceInv
  <2>11. PublishedInv'
    BY <2>1 DEF IInv, PublishedInv
  <2> QED BY <2>5, <2>6, <2>7, <2>9, <2>10, <2>11 DEF IInv
<1> QED BY <1>1, <1>2

\* The checks at the end of a response.
LEMMA EndResponseInv == ASSUME IInv, EndResponse PROVE IInv'
<1>1. CASE Contradicts(answers[query])
  BY <1>1, FailInv DEF EndResponse
<1>2. CASE ~Contradicts(answers[query])
  <2>1. /\ pc = "rows" /\ pc' = "merge"
        /\ UNCHANGED <<query, answers, resources, published>>
    BY <1>2 DEF EndResponse
  <2>2. Done' = Done
    BY <2>1 DEF Done
  <2>3. TypeOK'
    BY <2>1 DEF IInv, TypeOK
  <2>4. QueryInv'
    BY <2>1 DEF IInv, QueryInv
  <2>5. ResponseInv'
    BY <1>2, <2>1, <2>2 DEF IInv, ResponseInv
  <2>6. DiskInv'
    BY <2>1, <2>2 DEF IInv, DiskInv
  <2>7. ResourceInv'
    BY <2>1, <2>2 DEF IInv, ResourceInv, RowsUpTo
  <2>8. PublishedInv'
    BY <2>1 DEF IInv, PublishedInv
  <2> QED BY <2>3, <2>4, <2>5, <2>6, <2>7, <2>8 DEF IInv
<1> QED BY <1>1, <1>2

\* The response goes into the resources (mergeNodeResources).
LEMMA MergeInv == ASSUME IInv, Merge PROVE IInv'
<1> DEFINE rows == Counted(answers[query])
           incoming == [n \in Nodes |-> Resource(rows, n)]
<1>1. CASE \E n \in Nodes : Conflict(resources[n], incoming[n])
  BY <1>1, FailInv DEF Merge
<1>2. CASE \A n \in Nodes : ~Conflict(resources[n], incoming[n])
  <2>1. /\ pc = "merge"
        /\ resources' = [n \in Nodes |-> Merged(resources[n], incoming[n])]
        /\ \/ query = Len(Queries) /\ pc' = "publish" /\ query' = query
           \/ query # Len(Queries) /\ pc' = "call" /\ query' = query + 1
        /\ answers' = answers /\ published' = published
    BY <1>2 DEF Merge
  <2>2. /\ query \in 1..Len(Queries) /\ answers \in [1..Len(Queries) -> SUBSET Rows]
        /\ Len(Queries) \in Nat /\ query \in Nat /\ query >= 1
    BY QueriesFact DEF IInv, TypeOK
  <2>3. Done = query - 1 /\ Done' = query
    BY <2>1, <2>2 DEF Done
  <2>4. /\ RowsUpTo(query - 1) \in SUBSET Rows /\ rows \in SUBSET Rows
        /\ RowsUpTo(query) \in SUBSET Rows
    <3>1. \A q \in 1..query : answers[q] \in SUBSET Rows
      BY <2>2
    <3>2. \A q \in 1..query : Counted(answers[q]) \in SUBSET Rows
      BY <3>1 DEF Counted
    <3> QED BY <2>2, <3>2 DEF RowsUpTo
  <2>5. \A n \in Nodes : resources[n] = Resource(RowsUpTo(query - 1), n)
    BY <2>1, <2>3 DEF IInv, ResourceInv
  <2>6. \A n \in Nodes : resources'[n] = Resource(RowsUpTo(query), n)
    <3> TAKE n \in Nodes
    <3>1. ~Conflict(Resource(RowsUpTo(query - 1), n), Resource(rows, n))
      BY <1>2, <2>5
    <3>2. resources'[n] = Merged(Resource(RowsUpTo(query - 1), n), Resource(rows, n))
      BY <2>1, <2>5
    <3>3. Resource(RowsUpTo(query - 1) \cup rows, n) = resources'[n]
      BY <2>4, <3>1, <3>2, MergeAdds
    <3>4. RowsUpTo(query) = RowsUpTo(query - 1) \cup rows
      BY <2>2, RowsStep
    <3> QED BY <3>3, <3>4
  <2>7. TypeOK'
    <3>1. \A n \in Nodes : resources'[n] \in NodeResource
      BY <2>4, <2>6, ResourceType
    <3>2. resources' \in [Nodes -> NodeResource]
      BY <2>1, <3>1
    <3>3. query' \in 1..Len(Queries)
      BY <2>1, <2>2
    <3> QED BY <2>1, <3>2, <3>3 DEF IInv, TypeOK
  <2>8. QueryInv'
    BY <2>1, <2>2 DEF IInv, QueryInv
  <2>9. ResponseInv'
    <3>1. \A q \in 1..Len(Queries) :
            q <= Done' \/ (q = query' /\ pc' = "merge") => ~Contradicts(answers[q])
      BY <2>1, <2>2, <2>3 DEF IInv, ResponseInv
    <3> QED BY <2>1, <3>1 DEF IInv, ResponseInv
  <2>10. DiskInv'
    <3>1. ASSUME NEW n \in Nodes, NEW p \in 1..(query - 1),
                 HasDiskRow(answers[p], n), HasDiskRow(answers[query], n)
          PROVE  FALSE
      <4>1. PICK r \in answers[p] : r.node = n /\ r.field \in DiskFields
        BY <3>1 DEF HasDiskRow
      <4>2. PICK s \in answers[query] : s.node = n /\ s.field \in DiskFields
        BY <3>1 DEF HasDiskRow
      <4>3. ~Ignored(r) /\ ~Ignored(s)
        BY <2>2, <4>1, <4>2 DEF IInv, ResponseInv
      <4>4. r \in Counted(answers[p]) /\ s \in rows
        BY <4>1, <4>2 DEF Counted, DiskFields, NetFields
      <4>5. r \in RowsUpTo(query - 1)
        BY <4>4 DEF RowsUpTo
      <4>6. HasDisk(Resource(RowsUpTo(query - 1), n))
        BY <2>4, <4>1, <4>3, <4>5, DiskRowCounts
      <4>7. HasDisk(Resource(rows, n))
        BY <2>4, <4>2, <4>3, <4>4, DiskRowCounts
      <4> QED BY <1>2, <2>5, <4>6, <4>7 DEF Conflict
    <3>2. ASSUME NEW n \in Nodes, NEW p \in 1..query, NEW q \in 1..query,
                 HasDiskRow(answers[p], n), HasDiskRow(answers[q], n)
          PROVE  p = q
      <4>1. CASE p \in 1..(query - 1) /\ q \in 1..(query - 1)
        BY <2>3, <3>2, <4>1 DEF IInv, DiskInv
      <4>2. CASE p = query /\ q # query
        <5>1. q \in 1..(query - 1)
          BY <2>2, <4>2
        <5> QED BY <3>1, <3>2, <4>2, <5>1
      <4>3. CASE q = query /\ p # query
        <5>1. p \in 1..(query - 1)
          BY <2>2, <4>3
        <5> QED BY <3>1, <3>2, <4>3, <5>1
      <4> QED BY <2>2, <4>1, <4>2, <4>3
    <3> QED BY <2>1, <2>3, <3>2 DEF DiskInv
  <2>11. ResourceInv'
    BY <2>1, <2>3, <2>6 DEF ResourceInv, RowsUpTo
  <2>12. PublishedInv'
    BY <2>1 DEF IInv, PublishedInv
  <2> QED BY <2>7, <2>8, <2>9, <2>10, <2>11, <2>12 DEF IInv
<1> QED BY <1>1, <1>2

\* The resources are written into the node list (ReplaceNodeResources).
LEMMA ReplaceInv == ASSUME IInv, ReplaceNodeResources PROVE IInv'
<1>1. /\ pc = "publish" /\ pc' = "published"
      /\ published' = [n \in Nodes |-> Applied(resources[n])]
      /\ UNCHANGED <<query, answers, resources>>
  BY DEF ReplaceNodeResources
<1>2. Done' = Done
  BY <1>1 DEF Done
<1>3. TypeOK'
  <2>1. \A n \in Nodes : Applied(resources[n]) \in NodeResource
    BY AppliedType DEF IInv, TypeOK
  <2> QED BY <1>1, <2>1 DEF IInv, TypeOK
<1>4. QueryInv'
  BY <1>1 DEF IInv, QueryInv
<1>5. ResponseInv'
  BY <1>1, <1>2 DEF IInv, ResponseInv
<1>6. DiskInv'
  BY <1>1, <1>2 DEF IInv, DiskInv
<1>7. ResourceInv'
  BY <1>1, <1>2 DEF IInv, ResourceInv, RowsUpTo
<1>8. PublishedInv'
  BY <1>1 DEF PublishedInv
<1> QED BY <1>3, <1>4, <1>5, <1>6, <1>7, <1>8 DEF IInv

\* The inductive invariant holds in every state: what the run has is what the responses
\* that passed the checks say together (CollectNodeResources).
THEOREM Invariance == Spec => []IInv
<1>1. Init => IInv
  BY InitInv
<1>2. IInv /\ [Next]_vars => IInv'
  <2> SUFFICES ASSUME IInv, [Next]_vars PROVE IInv'
    OBVIOUS
  <2>1. CASE CallError
    BY <2>1, FailInv DEF CallError
  <2>2. CASE Respond
    BY <2>2, RespondInv
  <2>3. CASE Malformed \/ CacheEmpty
    BY <2>3, FailInv DEF Malformed, CacheEmpty
  <2>4. ASSUME NEW row \in Rows, ReadRow(row) PROVE IInv'
    BY <2>4, ReadRowInv
  <2>5. CASE EndResponse
    BY <2>5, EndResponseInv
  <2>6. CASE Merge
    BY <2>6, MergeInv
  <2>7. CASE ReplaceNodeResources
    BY <2>7, ReplaceInv
  <2>8. CASE UNCHANGED vars
    BY <2>8 DEF vars, IInv, TypeOK, QueryInv, ResponseInv, DiskInv, ResourceInv,
                PublishedInv, Done, RowsUpTo
  <2> QED BY <2>1, <2>2, <2>3, <2>4, <2>5, <2>6, <2>7, <2>8 DEF Next
<1> QED BY <1>1, <1>2, PTL DEF Spec

-----------------------------------------------------------------------------
(* What it is for *)

\* Published values are those of all rows together, however ECS spreads them over the
\* responses (ParseFluxNodeResourcesWithPolicy, mergeNodeResources).
THEOREM ValuesCorrect == Spec => []ValuesAreReported
<1>1. IInv => ValuesAreReported
  <2> SUFFICES ASSUME IInv, pc = "published", NEW n \in Nodes
               PROVE  published[n] = Applied(Resource(AllRows, n))
    BY DEF ValuesAreReported
  <2>1. Done = Len(Queries)
    BY DEF IInv, QueryInv, Done
  <2>2. RowsUpTo(Done) = AllRows
    BY <2>1 DEF RowsUpTo, AllRows
  <2>3. published[n] = Applied(resources[n])
    BY DEF IInv, PublishedInv
  <2> QED BY <2>2, <2>3 DEF IInv, ResourceInv
<1> QED BY <1>1, Invariance, PTL

\* A published value comes from rows of a response that passed its checks.
LEMMA ValueHasRow ==
  ASSUME IInv, pc = "published", NEW r \in AllRows
  PROVE  \E q \in 1..Len(Queries) :
           /\ r \in answers[q] /\ r \in Counted(answers[q])
           /\ answers[q] \in SUBSET Rows
           /\ ~Contradicts(answers[q])
           /\ \A n \in Nodes : HasDiskRow(answers[q], n) =>
                \A p \in 1..Len(Queries) : HasDiskRow(answers[p], n) => p = q
<1>1. PICK q \in 1..Len(Queries) : r \in Counted(answers[q])
  BY DEF AllRows
<1>2. Done = Len(Queries) /\ Len(Queries) \in Nat
  BY QueriesFact DEF IInv, QueryInv, Done
<1>3. ~Contradicts(answers[q])
  BY <1>1, <1>2 DEF IInv, ResponseInv
<1>4. r \in answers[q]
  BY <1>1 DEF Counted
<1>5. answers[q] \in SUBSET Rows
  BY DEF IInv, TypeOK
<1> QED BY <1>1, <1>2, <1>3, <1>4, <1>5 DEF IInv, DiskInv

\* Of a filesystem both values are known and in order, of the memory when ECS answers
\* what it is asked (ParseFluxNodeResourcesWithPolicy).
THEOREM UsedCorrect == Spec => []UsedWithinTotal
<1>1. ASSUME IInv, pc # "published" PROVE UsedWithinTotal
  <2>1. \A n \in Nodes : published[n] = NoResource
    BY <1>1 DEF IInv, PublishedInv
  <2> QED BY <2>1 DEF UsedWithinTotal, NoResource, Gauges
<1>2. ASSUME IInv, pc = "published" PROVE UsedWithinTotal
  <2>1. \A n \in Nodes : published[n] = Applied(Resource(AllRows, n))
    <3>1. Done = Len(Queries) /\ RowsUpTo(Done) = AllRows
      BY <1>2 DEF IInv, QueryInv, Done, RowsUpTo, AllRows
    <3> QED BY <1>2, <3>1 DEF IInv, ResourceInv, PublishedInv
  <2>2. AllRows \in SUBSET Rows
    BY <1>2 DEF IInv, TypeOK, AllRows, Counted
  <2>3. \A n, field, dim : Reading(AllRows, n, field, dim) # Nil =>
          \E r \in AllRows : /\ r.node = n /\ r.field = field /\ r.dim = dim
                             /\ Reading(AllRows, n, field, dim) = r.value
    BY <2>2, ReadingType
  <2>4. ASSUME NEW n \in Nodes, NEW f \in Filesystems, published[n].disk[f] # Nil
        PROVE  LET d == published[n].disk[f]
               IN  d[1] # Nil /\ d[2] # Nil /\ d[1] <= d[2]
    <3> DEFINE d == Readings(AllRows, n, "diskUsed", "diskTotal", f)
    <3>1. published[n].disk[f] = d
      BY <2>1, <2>4, AppliedShows
    <3>2. PICK r \in AllRows : r.node = n /\ r.field \in DiskFields /\ r.dim = f
      BY <2>2, <2>4, <3>1, ReadingsType DEF Found, DiskFields
    <3>3. PICK q \in 1..Len(Queries) :
            /\ r \in answers[q] /\ ~Contradicts(answers[q]) /\ answers[q] \in SUBSET Rows
            /\ HasDiskRow(answers[q], n) =>
                 \A p \in 1..Len(Queries) : HasDiskRow(answers[p], n) => p = q
      BY <1>2, ValueHasRow
    <3>4. PICK s \in answers[q] :
            {r.field, s.field} = DiskFields /\ s.node = n /\ s.dim = f
      BY <3>2, <3>3 DEF Contradicts
    <3>5. r \in Counted(answers[q]) /\ s \in Counted(answers[q]) /\ s.field \in DiskFields
      BY <3>2, <3>3, <3>4 DEF Counted, DiskFields, NetFields
    <3>6. r \in AllRows /\ s \in AllRows
      BY <3>5 DEF AllRows
    <3>7. /\ Found(AllRows, n, "diskUsed", f) # {}
          /\ Found(AllRows, n, "diskTotal", f) # {}
      BY <3>2, <3>4, <3>5, <3>6 DEF Found, DiskFields
    <3>8. /\ Reading(AllRows, n, "diskUsed", f) # Nil
          /\ Reading(AllRows, n, "diskTotal", f) # Nil
      BY <2>2, <3>7, ReadingType
    <3>9. PICK u \in AllRows :
            /\ u.node = n /\ u.field = "diskUsed" /\ u.dim = f
            /\ Reading(AllRows, n, "diskUsed", f) = u.value
      BY <2>3, <3>8
    <3>10. PICK t \in AllRows :
             /\ t.node = n /\ t.field = "diskTotal" /\ t.dim = f
             /\ Reading(AllRows, n, "diskTotal", f) = t.value
      BY <2>3, <3>8
    <3>11. HasDiskRow(answers[q], n)
      BY <3>2, <3>3 DEF HasDiskRow
    <3>12. u \in answers[q] /\ t \in answers[q]
      <4>1. PICK p \in 1..Len(Queries) : u \in answers[p]
        BY <1>2, ValueHasRow
      <4>2. PICK o \in 1..Len(Queries) : t \in answers[o]
        BY <1>2, ValueHasRow
      <4>3. HasDiskRow(answers[p], n) /\ HasDiskRow(answers[o], n)
        BY <3>9, <3>10, <4>1, <4>2 DEF HasDiskRow, DiskFields
      <4> QED BY <3>3, <3>11, <4>1, <4>2, <4>3
    <3>13. ~(u.value > t.value)
      BY <3>3, <3>9, <3>10, <3>12 DEF Contradicts
    <3>14. u.value \in Nat /\ t.value \in Nat
      BY <2>2, <3>9, <3>10, RowsAssumption
    <3>15. d = <<u.value, t.value>>
      BY <3>7, <3>9, <3>10 DEF Readings
    <3> HIDE DEF d
    <3>16. d[1] = u.value /\ d[2] = t.value
      BY <3>15
    <3>17. u.value # Nil /\ t.value # Nil /\ u.value <= t.value
      BY <3>13, <3>14, NilAssumption
    <3> QED BY <3>1, <3>16, <3>17
  <2>5. ASSUME NEW n \in Nodes, Filtered,
               published[n].gauge["memUsed"] # Nil, published[n].gauge["memTotal"] # Nil
        PROVE  published[n].gauge["memUsed"] <= published[n].gauge["memTotal"]
    <3>1. \A g \in Gauges : published[n].gauge[g] # Nil =>
                              published[n].gauge[g] = Reading(AllRows, n, g, Nil)
      BY <2>1, AppliedShows
    <3>2. /\ Reading(AllRows, n, "memUsed", Nil) # Nil
          /\ Reading(AllRows, n, "memTotal", Nil) # Nil
      BY <2>5, <3>1 DEF Gauges
    <3>3. PICK u \in AllRows :
            /\ u.node = n /\ u.field = "memUsed" /\ u.dim = Nil
            /\ Reading(AllRows, n, "memUsed", Nil) = u.value
      BY <2>3, <3>2
    <3>4. PICK t \in AllRows :
            /\ t.node = n /\ t.field = "memTotal" /\ t.dim = Nil
            /\ Reading(AllRows, n, "memTotal", Nil) = t.value
      BY <2>3, <3>2
    <3>5. PICK q \in 1..Len(Queries) : u \in answers[q] /\ ~Contradicts(answers[q])
      BY <1>2, ValueHasRow
    <3>6. PICK p \in 1..Len(Queries) : t \in answers[p]
      BY <1>2, ValueHasRow
    <3>7. u.field \in Queries[q] /\ t.field \in Queries[p]
      BY <2>5, <3>5, <3>6 DEF Filtered
    <3>8. Queries[q] \in Blocks /\ Queries[p] \in Blocks
      BY QueriesFact
    <3>9. "memTotal" \in Queries[q]
      BY <3>3, <3>7, <3>8 DEF Blocks, DiskFields, NetFields
    <3>10. Queries[p] \cap Queries[q] # {}
      BY <3>4, <3>7, <3>9
    <3>11. p = q
      BY <3>10, QueriesFact
    <3>12. ~(u.value > t.value)
      BY <3>3, <3>4, <3>5, <3>6, <3>11 DEF Contradicts
    <3>13. u.value \in Nat /\ t.value \in Nat
      BY <2>2, RowsAssumption
    <3> QED BY <2>5, <3>1, <3>3, <3>4, <3>12, <3>13 DEF Gauges
  <2> QED BY <2>4, <2>5 DEF UsedWithinTotal
<1>3. IInv => UsedWithinTotal
  BY <1>1, <1>2
<1> QED BY <1>3, Invariance, PTL

\* A node has at most the configured number of interfaces, and no member beside its bond
\* (MaxNetworkInterfaces, PreferBondInterfaces).
THEOREM InterfacesCorrect == Spec => []InterfacesWithinPolicy
<1> DEFINE shown(n) == {i \in Interfaces : published[n].network[i] # Nil}
           Statement(n) ==
             /\ NetworkInterfaces # {} => shown(n) \subseteq NetworkInterfaces
             /\ Filtered => Cardinality(shown(n)) <= MaxNetworkInterfaces
             /\ Filtered /\ PreferBondInterfaces /\ shown(n) \cap Bonds # {} =>
                  shown(n) \cap Members = {}
<1>1. ASSUME NEW n \in Nodes, shown(n) = {} PROVE Statement(n)
  BY <1>1, FS_EmptySet, PolicyAssumption
<1>2. ASSUME IInv, NEW n \in Nodes, shown(n) # {} PROVE Statement(n)
  <2>1. pc = "published"
    BY <1>2 DEF IInv, PublishedInv, NoResource
  <2>2. published[n] = Applied(Resource(AllRows, n))
    <3>1. Done = Len(Queries) /\ RowsUpTo(Done) = AllRows
      BY <1>2, <2>1 DEF IInv, QueryInv, Done, RowsUpTo, AllRows
    <3> QED BY <1>2, <2>1, <3>1 DEF IInv, ResourceInv, PublishedInv
  <2>3. AllRows \in SUBSET Rows
    BY <1>2 DEF IInv, TypeOK, AllRows, Counted
  <2>4. ASSUME NEW i \in shown(n)
        PROVE  \E q \in 1..Len(Queries) : \E r \in answers[q] :
                 /\ r.node = n /\ r.field \in NetFields /\ r.dim = i
                 /\ ~Ignored(r) /\ i \in Kept(answers[q], n)
    <3>1. published[n].network[i] = Readings(AllRows, n, "received", "sent", i)
      BY <2>2, AppliedShows
    <3>2. PICK r \in AllRows : r.node = n /\ r.field \in NetFields /\ r.dim = i
      BY <2>3, <3>1, ReadingsType DEF Found, NetFields
    <3>3. PICK q \in 1..Len(Queries) : r \in answers[q] /\ r \in Counted(answers[q])
      BY <1>2, <2>1, ValueHasRow
    <3>4. ~Ignored(r)
      BY <1>2, <3>3 DEF IInv, ResponseInv
    <3>5. i \in Kept(answers[q], n)
      BY <3>2, <3>3 DEF Counted
    <3> QED BY <3>2, <3>3, <3>4, <3>5
  <2>5. NetworkInterfaces # {} => shown(n) \subseteq NetworkInterfaces
    BY <2>4 DEF Ignored
  <2>6. ASSUME Filtered
        PROVE  \E q \in 1..Len(Queries) : shown(n) \subseteq Kept(answers[q], n)
    <3>1. PICK i : i \in shown(n)
      BY <1>2
    <3>2. PICK q \in 1..Len(Queries) : \E r \in answers[q] : r.field \in NetFields
      BY <2>4, <3>1
    <3>3. ASSUME NEW p \in 1..Len(Queries), NEW r \in answers[p], r.field \in NetFields
          PROVE  Queries[p] = NetFields
      <4>1. r.field \in Queries[p] /\ Queries[p] \in Blocks
        BY <2>6, QueriesFact DEF Filtered
      <4> QED BY <3>3, <4>1 DEF Blocks, DiskFields, NetFields
    <3>4. Queries[q] = NetFields
      BY <3>2, <3>3
    <3>5. \A p \in 1..Len(Queries) : Queries[p] = NetFields => p = q
      BY <3>4, QueriesFact DEF NetFields
    <3>6. shown(n) \subseteq Kept(answers[q], n)
      BY <2>4, <3>3, <3>5
    <3> QED BY <3>6
  <2>7. ASSUME Filtered
        PROVE  /\ Cardinality(shown(n)) <= MaxNetworkInterfaces
               /\ PreferBondInterfaces /\ shown(n) \cap Bonds # {} =>
                    shown(n) \cap Members = {}
    <3>1. PICK q \in 1..Len(Queries) : shown(n) \subseteq Kept(answers[q], n)
      BY <2>6, <2>7
    <3> DEFINE seen == Seen(answers[q], n)
               nics == shown(n)
    <3> HIDE DEF seen, nics
    <3>2. /\ IsFiniteSet(seen)
          /\ Cardinality(seen) <= MaxNetworkInterfaces
      BY <1>2 DEF IInv, ResponseInv, seen
    <3>3. nics \subseteq seen
      BY <3>1 DEF Kept, seen, nics
    <3>4. /\ Cardinality(nics) <= Cardinality(seen)
          /\ Cardinality(nics) \in Nat /\ Cardinality(seen) \in Nat
      BY <3>2, <3>3, FS_Subset, FS_CardinalityType
    <3>5. Cardinality(nics) <= MaxNetworkInterfaces
      BY <3>2, <3>4, PolicyAssumption
    <3>6. PreferBondInterfaces /\ nics \cap Bonds # {} => nics \cap Members = {}
      BY <3>1, <3>3 DEF Kept, seen, nics
    <3> QED BY <3>5, <3>6 DEF nics
  <2> QED BY <2>5, <2>7
<1>3. IInv => \A n \in Nodes : Statement(n)
  BY <1>1, <1>2
<1>4. IInv => InterfacesWithinPolicy
  BY <1>3 DEF InterfacesWithinPolicy
<1> QED BY <1>4, Invariance, PTL
=============================================================================
