--------------------------- MODULE BucketsProofs ----------------------------
(***************************************************************************)
(* Theorems about Buckets, for every page size, every number of workers    *)
(* and every list of namespaces and buckets.                               *)
(***************************************************************************)
EXTENDS Buckets, FiniteSetTheorems, SequenceTheorems, TLAPS

\* What is known of a page that collectBucketPages takes.
LEMMA PageType ==
  ASSUME NEW page \in Pages
  PROVE  page \in Seq(Bucket)
<1>1. PICK n \in 0 .. PageSize + 1 : page \in [1 .. n -> Bucket]
  BY DEF Pages
<1>2. n \in Nat
  BY <1>1, PageAssumption
<1>3. QED
  BY <1>1, <1>2, SeqDef

\* The namespaces that ParseNamespaces returns.
LEMMA NamespaceListType ==
  ASSUME NEW s \in NamespaceLists
  PROVE  s \in Seq(Namespaces) /\ IsInjective(s)
<1>1. PICK n \in 0 .. Cardinality(Namespaces) : s \in [1 .. n -> Namespaces]
  BY DEF NamespaceLists
<1>2. n \in Nat
  BY <1>1, NamespacesAssumption, FS_CardinalityType
<1>3. QED
  BY <1>1, <1>2, SeqDef DEF NamespaceLists

\* A page is added at the end of the list: the indexes in use keep their buckets.
LEMMA AddedPage ==
  ASSUME NEW list \in Seq(Bucket), NEW page \in Seq(Bucket)
  PROVE  /\ list \o page \in Seq(Bucket)
         /\ DOMAIN list = 1 .. Len(list) /\ Len(list) \in Nat
         /\ DOMAIN page = 1 .. Len(page) /\ Len(page) \in Nat
         /\ DOMAIN (list \o page) = 1 .. Len(list) + Len(page)
         /\ Len(list \o page) = Len(list) + Len(page)
         /\ \A i \in 1 .. Len(list) : (list \o page)[i] = list[i]
         /\ \A i \in Len(list) + 1 .. Len(list) + Len(page) :
              i - Len(list) \in 1 .. Len(page) /\ (list \o page)[i] = page[i - Len(list)]
<1>1. /\ list \o page \in Seq(Bucket)
      /\ Len(list \o page) = Len(list) + Len(page)
      /\ \A i \in 1 .. Len(list) + Len(page) :
           (list \o page)[i] = IF i <= Len(list) THEN list[i] ELSE page[i - Len(list)]
  BY ConcatProperties
<1>2. /\ Len(list) \in Nat /\ DOMAIN list = 1 .. Len(list)
      /\ Len(page) \in Nat /\ DOMAIN page = 1 .. Len(page)
  BY LenProperties
<1>3. DOMAIN (list \o page) = 1 .. Len(list) + Len(page)
  BY <1>1, LenProperties
<1>4. \A i \in 1 .. Len(list) : i \in 1 .. Len(list) + Len(page) /\ i <= Len(list)
  BY <1>2
<1>5. \A i \in Len(list) + 1 .. Len(list) + Len(page) :
        /\ i \in 1 .. Len(list) + Len(page)
        /\ ~(i <= Len(list))
        /\ i - Len(list) \in 1 .. Len(page)
  BY <1>2
<1>6. QED
  BY <1>1, <1>2, <1>3, <1>4, <1>5

\* An accepted page leaves the list without duplicates, and what it adds is of the
\* current namespace.
LEMMA AcceptedKeepsList ==
  ASSUME TypeOK, ListInv, pending # <<>>, NEW page \in Pages, Accepted(page)
  PROVE  /\ buckets \o page \in Seq(Bucket)
         /\ Len(buckets) \in Nat
         /\ Len(buckets) <= Len(buckets \o page)
         /\ Len(buckets \o page) \in Nat
         /\ DOMAIN buckets \subseteq DOMAIN (buckets \o page)
         /\ IsInjective(buckets \o page)
         /\ \A i \in DOMAIN (buckets \o page) :
              \/ i \in DOMAIN buckets /\ (buckets \o page)[i] = buckets[i]
              \/ /\ (buckets \o page)[i] \in Range(page)
                 /\ (buckets \o page)[i].namespace = Head(pending)
<1> DEFINE list == buckets \o page
<1>1. page \in Seq(Bucket) /\ buckets \in Seq(Bucket)
  BY PageType DEF TypeOK
<1>2. /\ list \in Seq(Bucket)
      /\ DOMAIN buckets = 1 .. Len(buckets) /\ Len(buckets) \in Nat
      /\ DOMAIN page = 1 .. Len(page) /\ Len(page) \in Nat
      /\ DOMAIN list = 1 .. Len(buckets) + Len(page)
      /\ Len(list) = Len(buckets) + Len(page)
      /\ \A i \in 1 .. Len(buckets) : list[i] = buckets[i]
      /\ \A i \in Len(buckets) + 1 .. Len(buckets) + Len(page) :
           i - Len(buckets) \in 1 .. Len(page) /\ list[i] = page[i - Len(buckets)]
  BY <1>1, AddedPage
<1> HIDE DEF list
<1>3. ASSUME NEW i \in DOMAIN list
      PROVE  \/ i \in DOMAIN buckets /\ list[i] = buckets[i]
             \/ /\ i \in Len(buckets) + 1 .. Len(buckets) + Len(page)
                /\ list[i] \in Range(page) /\ list[i].namespace = Head(pending)
                /\ list[i] \notin seenBuckets
  <2>1. CASE i \in 1 .. Len(buckets)
    BY <2>1, <1>2
  <2>2. CASE i \in Len(buckets) + 1 .. Len(buckets) + Len(page)
    BY <2>2, <1>2 DEF Range, Accepted
  <2>3. QED
    BY <2>1, <2>2, <1>2
<1>4. ASSUME NEW i \in DOMAIN list, NEW j \in DOMAIN list, list[i] = list[j]
      PROVE  i = j
  <2>1. CASE i \in DOMAIN buckets /\ j \in DOMAIN buckets
    BY <2>1, <1>2, <1>4 DEF ListInv, IsInjective
  <2>2. CASE i \notin DOMAIN buckets /\ j \notin DOMAIN buckets
    <3>1. /\ i \in Len(buckets) + 1 .. Len(buckets) + Len(page)
          /\ j \in Len(buckets) + 1 .. Len(buckets) + Len(page)
      BY <2>2, <1>2
    <3>2. page[i - Len(buckets)] = page[j - Len(buckets)]
      BY <3>1, <1>2, <1>4
    <3>3. i - Len(buckets) \in DOMAIN page /\ j - Len(buckets) \in DOMAIN page
      BY <3>1, <1>2
    <3>4. i - Len(buckets) = j - Len(buckets)
      BY <3>2, <3>3 DEF Accepted, IsInjective
    <3>5. QED
      BY <3>1, <3>4, <1>2
  <2>3. ASSUME NEW a \in DOMAIN list, NEW b \in DOMAIN list,
               a \in DOMAIN buckets, b \notin DOMAIN buckets, list[a] = list[b]
        PROVE  FALSE
    <3>1. list[b].namespace = Head(pending) /\ list[b] \notin seenBuckets
      BY <2>3, <1>3
    <3>2. list[a] = buckets[a]
      BY <2>3, <1>2
    <3>3. 1 \in DOMAIN pending /\ Head(pending) = pending[1]
      BY HeadTailProperties, LenProperties, EmptySeq DEF TypeOK
    <3>4. QED
      BY <2>3, <3>1, <3>2, <3>3 DEF ListInv
  <2>4. QED
    BY <2>1, <2>2, <2>3, <1>4
<1>5. IsInjective(list)
  BY <1>4 DEF IsInjective
<1>6. Len(buckets) <= Len(list) /\ DOMAIN buckets \subseteq DOMAIN list /\ Len(list) \in Nat
  BY <1>2
<1>7. QED
  BY <1>2, <1>3, <1>5, <1>6 DEF list

\* The rest of a list of namespaces.
LEMMA RestOfPending ==
  ASSUME pending \in Seq(Namespaces), pending # <<>>, IsInjective(pending)
  PROVE  /\ Tail(pending) \in Seq(Namespaces)
         /\ IsInjective(Tail(pending))
         /\ 1 \in DOMAIN pending /\ Head(pending) = pending[1]
         /\ \A n \in DOMAIN Tail(pending) :
              n + 1 \in DOMAIN pending /\ n + 1 # 1 /\ Tail(pending)[n] = pending[n + 1]
<1>1. /\ Tail(pending) \in Seq(Namespaces)
      /\ Len(Tail(pending)) = Len(pending) - 1
      /\ \A n \in 1 .. Len(Tail(pending)) : Tail(pending)[n] = pending[n + 1]
  BY HeadTailProperties
<1>2. /\ Len(pending) \in Nat \ {0}
      /\ DOMAIN pending = 1 .. Len(pending)
      /\ DOMAIN Tail(pending) = 1 .. Len(pending) - 1
  BY <1>1, LenProperties, EmptySeq
<1>3. \A n \in DOMAIN Tail(pending) :
        n \in Nat /\ n + 1 \in DOMAIN pending /\ n + 1 # 1 /\ Tail(pending)[n] = pending[n + 1]
  BY <1>1, <1>2
<1>4. IsInjective(Tail(pending))
  <2>1. SUFFICES ASSUME NEW a \in DOMAIN Tail(pending), NEW b \in DOMAIN Tail(pending),
                        Tail(pending)[a] = Tail(pending)[b]
                 PROVE  a = b
    BY DEF IsInjective
  <2>2. a + 1 = b + 1
    BY <2>1, <1>3 DEF IsInjective
  <2>3. QED
    BY <2>2, <1>3
<1>5. QED
  BY <1>1, <1>2, <1>3, <1>4

\* Every step keeps the types.
LEMMA TypeStep == IInv /\ Next => TypeOK'
<1> SUFFICES ASSUME IInv, Next
             PROVE  TypeOK'
  OBVIOUS
<1> USE DEF IInv, Workers
<1>0. /\ buckets \in Seq(Bucket) /\ Len(buckets) \in Nat /\ DOMAIN buckets = 1 .. Len(buckets)
      /\ pending \in Seq(Namespaces)
  BY LenProperties DEF TypeOK
<1>1. CASE Cancel
  BY <1>1 DEF Cancel, TypeOK, paging, pool, billing
<1>2. CASE CallError
  BY <1>2 DEF CallError, TypeOK, paging, pool, billing
<1>3. CASE ListNamespaces
  BY <1>3, NamespaceListType DEF ListNamespaces, TypeOK, pool, billing
<1>4. CASE LastPage
  <2>1. PICK page \in Pages : Accepted(page) /\ buckets' = buckets \o page
    BY <1>4 DEF LastPage
  <2>2. /\ buckets' \in Seq(Bucket) /\ Len(buckets) <= Len(buckets') /\ Len(buckets') \in Nat
        /\ DOMAIN buckets \subseteq DOMAIN buckets'
    BY <2>1, <1>4, AcceptedKeepsList DEF LastPage
  <2>3. pending' \in Seq(Namespaces)
    BY <1>4, RestOfPending DEF LastPage, ListInv, TypeOK
  <2>4. next' \in 1 .. Len(buckets') + 1 /\ job' \in [Workers -> 0 .. Len(buckets')]
    BY <2>2, <1>0, <1>4 DEF LastPage, TypeOK, pool
  <2>5. pageNumber' \in 0 .. MaxPages - 1 /\ seenBuckets' \subseteq Bucket
    BY <1>4, PageAssumption DEF LastPage
  <2>6. QED
    BY <2>2, <2>3, <2>4, <2>5, <1>4 DEF LastPage, TypeOK, pool, billing
<1>5. CASE NextPage
  <2>1. PICK page \in Pages :
          /\ Accepted(page) /\ buckets' = buckets \o page
          /\ seenBuckets' = seenBuckets \cup Range(page)
    BY <1>5 DEF NextPage
  <2>2. /\ buckets' \in Seq(Bucket) /\ Len(buckets) <= Len(buckets') /\ Len(buckets') \in Nat
        /\ DOMAIN buckets \subseteq DOMAIN buckets'
    BY <2>1, <1>5, AcceptedKeepsList DEF NextPage
  <2>3. seenBuckets' \subseteq Bucket
    <3>1. page \in Seq(Bucket)
      BY PageType
    <3>2. \A i \in DOMAIN page : page[i] \in Bucket
      BY <3>1, LenProperties
    <3>3. QED
      BY <2>1, <3>2 DEF Range, TypeOK
  <2>4. next' \in 1 .. Len(buckets') + 1 /\ job' \in [Workers -> 0 .. Len(buckets')]
    BY <2>2, <1>0, <1>5 DEF NextPage, TypeOK, pool
  <2>5. pageNumber' \in 0 .. MaxPages - 1
    BY <1>5, PageAssumption DEF NextPage, TypeOK
  <2>6. QED
    BY <2>2, <2>3, <2>4, <2>5, <1>5 DEF NextPage, TypeOK, pool, billing
<1>6. CASE StartWorkers
  BY <1>6 DEF StartWorkers, TypeOK, paging, billing
<1>7. CASE CloseJobs
  BY <1>7 DEF CloseJobs, TypeOK, paging, pool, billing
<1>8. CASE Wait
  BY <1>8 DEF Wait, TypeOK, paging, pool, billing
<1>9. CASE BillBatch
  BY <1>9, <1>0 DEF BillBatch, Billings, IndexesOf, TypeOK, paging, pool
<1>10. CASE BillSingle
  BY <1>10 DEF BillSingle, TypeOK, paging, pool
<1>11. CASE BillingDone
  BY <1>11 DEF BillingDone, TypeOK, paging, pool, billing
<1>12. CASE ReplaceBuckets
  BY <1>12 DEF ReplaceBuckets, TypeOK, paging, pool, billing
<1>13. CASE Returned
  BY <1>13 DEF Returned, TypeOK, vars, paging, pool, billing
<1>14. ASSUME NEW w \in Workers, Work(w)
       PROVE  TypeOK'
  <2>1. CASE Send(w)
    BY <2>1, <1>0 DEF Send, TypeOK, paging, billing
  <2>2. CASE Quota(w)
    BY <2>2, <1>0 DEF Quota, TypeOK, PoolInv, paging, billing
  <2>3. CASE QuotaError(w)
    BY <2>3, <1>0 DEF QuotaError, TypeOK, paging, billing
  <2>4. CASE StopOthers(w)
    BY <2>4 DEF StopOthers, TypeOK, paging, billing
  <2>5. CASE WorkerEnds(w)
    BY <2>5 DEF WorkerEnds, TypeOK, paging, billing
  <2>6. QED
    BY <1>14, <2>1, <2>2, <2>3, <2>4, <2>5 DEF Work
<1>15. QED
  BY <1>1, <1>2, <1>3, <1>4, <1>5, <1>6, <1>7, <1>8, <1>9, <1>10, <1>11, <1>12, <1>13,
     <1>14 DEF Next, Collect

\* Every step keeps the list free of duplicates.
LEMMA ListStep == IInv /\ Next => ListInv'
<1> SUFFICES ASSUME IInv, Next
             PROVE  ListInv'
  OBVIOUS
<1> USE DEF IInv
<1>1. CASE UNCHANGED <<buckets, pending, seenBuckets>>
  BY <1>1 DEF ListInv
<1>2. CASE ListNamespaces
  <2>1. pending' \in Seq(Namespaces) /\ IsInjective(pending')
    BY <1>2, NamespaceListType DEF ListNamespaces
  <2>2. buckets' = <<>>
    BY <1>2 DEF ListNamespaces, BeginInv
  <2>3. DOMAIN buckets' = {} /\ IsInjective(buckets')
    BY <2>2 DEF IsInjective
  <2>4. QED
    BY <2>1, <2>3 DEF ListInv
<1>3. CASE LastPage
  <2>1. PICK page \in Pages : Accepted(page) /\ buckets' = buckets \o page
    BY <1>3 DEF LastPage
  <2>2. /\ IsInjective(buckets')
        /\ \A i \in DOMAIN buckets' :
             \/ i \in DOMAIN buckets /\ buckets'[i] = buckets[i]
             \/ buckets'[i].namespace = Head(pending)
    BY <2>1, <1>3, AcceptedKeepsList DEF LastPage
  <2>3. /\ IsInjective(pending') /\ IsInjective(pending)
        /\ 1 \in DOMAIN pending /\ Head(pending) = pending[1]
        /\ \A n \in DOMAIN pending' :
             n + 1 \in DOMAIN pending /\ n + 1 # 1 /\ pending'[n] = pending[n + 1]
    BY <1>3, RestOfPending DEF LastPage, ListInv, TypeOK
  <2>4. ASSUME NEW i \in DOMAIN buckets', NEW n \in DOMAIN pending',
               buckets'[i].namespace = pending'[n]
        PROVE  FALSE
    <3>1. CASE i \in DOMAIN buckets /\ buckets'[i] = buckets[i]
      BY <3>1, <2>3, <2>4 DEF ListInv
    <3>2. CASE buckets'[i].namespace = Head(pending)
      BY <3>2, <2>3, <2>4 DEF IsInjective
    <3>3. QED
      BY <2>2, <3>1, <3>2
  <2>5. QED
    BY <2>2, <2>3, <2>4 DEF ListInv
<1>4. CASE NextPage
  <2>1. PICK page \in Pages :
          /\ Accepted(page) /\ buckets' = buckets \o page
          /\ seenBuckets' = seenBuckets \cup Range(page)
    BY <1>4 DEF NextPage
  <2>2. /\ IsInjective(buckets')
        /\ \A i \in DOMAIN buckets' :
             \/ i \in DOMAIN buckets /\ buckets'[i] = buckets[i]
             \/ buckets'[i] \in Range(page) /\ buckets'[i].namespace = Head(pending)
    BY <2>1, <1>4, AcceptedKeepsList DEF NextPage
  <2>3. pending' = pending /\ IsInjective(pending)
        /\ 1 \in DOMAIN pending /\ Head(pending) = pending[1]
    BY <1>4, RestOfPending DEF NextPage, ListInv, TypeOK
  <2>4. ASSUME NEW i \in DOMAIN buckets', NEW n \in DOMAIN pending',
               buckets'[i].namespace = pending'[n]
        PROVE  n = 1 /\ buckets'[i] \in seenBuckets'
    <3>1. CASE i \in DOMAIN buckets /\ buckets'[i] = buckets[i]
      BY <3>1, <2>1, <2>3, <2>4 DEF ListInv
    <3>2. CASE buckets'[i] \in Range(page) /\ buckets'[i].namespace = Head(pending)
      BY <3>2, <2>1, <2>3, <2>4 DEF IsInjective
    <3>3. QED
      BY <2>2, <3>1, <3>2
  <2>5. QED
    BY <2>2, <2>3, <2>4 DEF ListInv
<1>5. QED
  BY <1>1, <1>2, <1>3, <1>4
     DEF Next, Collect, Work, Cancel, CallError, StartWorkers, CloseJobs, Wait, BillBatch,
         BillSingle, BillingDone, ReplaceBuckets, Returned, Send, Quota, QuotaError,
         StopOthers, WorkerEnds, vars, paging

\* Every step keeps track of the indexes that are with the workers.
LEMMA PoolStep == IInv /\ Next => PoolInv' /\ BeginInv'
<1> SUFFICES ASSUME IInv, Next
             PROVE  PoolInv' /\ BeginInv'
  OBVIOUS
<1> USE DEF IInv, Workers
<1>0. /\ Len(buckets) \in Nat /\ DOMAIN buckets = 1 .. Len(buckets)
      /\ next \in 1 .. Len(buckets) + 1
      /\ \A i \in 1 .. next - 1 : i \in Nat
  BY LenProperties DEF TypeOK
<1>1. CASE Cancel
  BY <1>1 DEF Cancel, PoolInv, BeginInv, pool
<1>2. CASE CallError
  BY <1>2 DEF CallError, PoolInv, BeginInv, pool
<1>3. CASE ListNamespaces
  BY <1>3 DEF ListNamespaces, PoolInv, BeginInv, pool
<1>4. CASE LastPage
  BY <1>4 DEF LastPage, PoolInv, BeginInv, pool
<1>5. CASE NextPage
  BY <1>5 DEF NextPage, PoolInv, BeginInv, pool
<1>6. CASE StartWorkers
  <2>1. next = 1 /\ ~errs /\ ~stopped /\ quota = {}
    BY <1>6 DEF StartWorkers, PoolInv
  <2>2. 1 .. next - 1 = {}
    BY <2>1
  <2>3. \A w \in Workers : worker'[w] \in {"ready", "done"}
    BY <1>6 DEF StartWorkers, PoolInv
  <2>4. pc' \in {"publish", "send"}
    BY <1>6 DEF StartWorkers
  <2>5. QED
    BY <1>6, <2>1, <2>2, <2>3, <2>4 DEF StartWorkers, PoolInv, BeginInv
<1>7. CASE CloseJobs
  <2>1. next = Len(buckets) + 1 \/ cancelled \/ errs
    BY <1>7, <1>0 DEF CloseJobs, ContextDone, PoolInv
  <2>2. QED
    BY <1>7, <2>1 DEF CloseJobs, PoolInv, BeginInv, pool
<1>8. CASE Wait
  <2>1. pc' = "billing" => buckets # <<>>
    BY <1>8 DEF Wait, PoolInv
  <2>2. QED
    BY <1>8, <2>1 DEF Wait, PoolInv, BeginInv, pool
<1>9. CASE BillBatch
  BY <1>9 DEF BillBatch, Billings, PoolInv, BeginInv, pool
<1>10. CASE BillSingle
  BY <1>10 DEF BillSingle, PoolInv, BeginInv, pool
<1>11. CASE BillingDone
  BY <1>11 DEF BillingDone, PoolInv, BeginInv, pool
<1>12. CASE ReplaceBuckets
  BY <1>12 DEF ReplaceBuckets, PoolInv, BeginInv, pool
<1>13. CASE Returned
  BY <1>13 DEF Returned, PoolInv, BeginInv, vars, pool
<1>14. ASSUME NEW w \in Workers, Work(w)
       PROVE  PoolInv' /\ BeginInv'
  <2>1. CASE Send(w)
    <3>1. \A i \in 1 .. next' - 1 : i \in 1 .. next - 1 \/ i = next
      BY <2>1, <1>0 DEF Send
    <3>2. pc = "send" /\ pc' = "send" /\ next # 0
      BY <2>1, <1>0 DEF Send
    <3>3. ~errs => \A i \in 1 .. next' - 1 :
            i \in quota' \/ \E v \in Workers : worker'[v] = "busy" /\ job'[v] = i
      <4>1. SUFFICES ASSUME ~errs, NEW i \in 1 .. next' - 1, i \notin quota'
                     PROVE  \E v \in Workers : worker'[v] = "busy" /\ job'[v] = i
        OBVIOUS
      <4>2. CASE i = next
        BY <4>2, <2>1 DEF Send, TypeOK
      <4>3. CASE i \in 1 .. next - 1
        <5>1. PICK v \in Workers : worker[v] = "busy" /\ job[v] = i
          BY <4>1, <4>3, <2>1, <3>2 DEF Send, PoolInv
        <5>2. v # w
          BY <5>1, <2>1 DEF Send
        <5>3. QED
          BY <5>1, <5>2, <2>1 DEF Send, TypeOK
      <4>4. QED
        BY <4>2, <4>3, <3>1
    <3>4. \A v \in Workers : worker'[v] = "busy" => job'[v] # 0
      BY <2>1, <3>2 DEF Send, PoolInv, TypeOK
    <3>5. \A v \in Workers : worker'[v] = "failing" => worker[v] = "failing"
      BY <2>1 DEF Send, TypeOK
    <3>6. QED
      BY <2>1, <3>2, <3>3, <3>4, <3>5 DEF Send, PoolInv, BeginInv
  <2>2. CASE Quota(w)
    <3>1. pc \in {"send", "wait"}
      BY <2>2 DEF Quota, PoolInv, TypeOK
    <3>2. ~errs => \A i \in 1 .. next - 1 :
            i \in quota' \/ \E v \in Workers : worker'[v] = "busy" /\ job'[v] = i
      BY <2>2, <3>1 DEF Quota, PoolInv, TypeOK
    <3>3. QED
      BY <2>2, <3>1, <3>2 DEF Quota, PoolInv, BeginInv, TypeOK
  <2>3. CASE QuotaError(w)
    <3>1. pc \in {"send", "wait"}
      BY <2>3 DEF QuotaError, PoolInv, TypeOK
    <3>2. QED
      BY <2>3, <3>1 DEF QuotaError, PoolInv, BeginInv, TypeOK
  <2>4. CASE StopOthers(w)
    <3>1. errs
      BY <2>4 DEF StopOthers, PoolInv
    <3>2. QED
      BY <2>4, <3>1 DEF StopOthers, PoolInv, BeginInv, TypeOK
  <2>5. CASE WorkerEnds(w)
    <3>1. ~errs => \A i \in 1 .. next - 1 :
            i \in quota' \/ \E v \in Workers : worker'[v] = "busy" /\ job'[v] = i
      BY <2>5 DEF WorkerEnds, PoolInv, TypeOK
    <3>2. QED
      BY <2>5, <3>1 DEF WorkerEnds, PoolInv, BeginInv, TypeOK
  <2>6. QED
    BY <1>14, <2>1, <2>2, <2>3, <2>4, <2>5 DEF Work
<1>15. QED
  BY <1>1, <1>2, <1>3, <1>4, <1>5, <1>6, <1>7, <1>8, <1>9, <1>10, <1>11, <1>12, <1>13,
     <1>14 DEF Next, Collect

\* Every step keeps what is known of the billing.
LEMMA BillingStep == IInv /\ Next => BillingInv'
<1> SUFFICES ASSUME IInv, Next
             PROVE  BillingInv'
  OBVIOUS
<1> USE DEF IInv
<1>0. /\ Len(buckets) \in Nat /\ DOMAIN buckets = 1 .. Len(buckets)
      /\ buckets # <<>> => DOMAIN buckets # {}
  <2>1. Len(buckets) \in Nat /\ DOMAIN buckets = 1 .. Len(buckets)
    BY LenProperties DEF TypeOK
  <2>2. buckets # <<>> => Len(buckets) \in Nat \ {0}
    BY EmptySeq DEF TypeOK
  <2>3. buckets # <<>> => 1 \in DOMAIN buckets
    BY <2>1, <2>2
  <2>4. QED
    BY <2>1, <2>3
<1>1. CASE UNCHANGED <<pc, buckets, quota, billing>>
  BY <1>1 DEF Next, Collect, Cancel, CallError, ListNamespaces, LastPage, NextPage,
              StartWorkers, CloseJobs, Wait, BillBatch, BillSingle, BillingDone,
              ReplaceBuckets, Returned, Work, Send, Quota, QuotaError, StopOthers,
              WorkerEnds, BillingInv, billing, vars
<1>2. CASE CallError
  BY <1>2 DEF CallError, BillingInv, billing
<1>3. CASE ListNamespaces \/ LastPage \/ NextPage \/ CloseJobs
  BY <1>3 DEF ListNamespaces, LastPage, NextPage, CloseJobs, BillingInv, billing
<1>4. CASE StartWorkers
  <2>1. CASE buckets = <<>>
    <3>1. DOMAIN buckets = {}
      BY <2>1
    <3>2. quota = {} /\ quota' = {} /\ billed' = {} /\ buckets' = buckets /\ pc' = "publish"
      BY <1>4, <2>1 DEF StartWorkers, PoolInv, BillingInv, billing
    <3>3. QED
      BY <3>1, <3>2 DEF BillingInv
  <2>2. CASE buckets # <<>>
    BY <1>4, <2>2 DEF StartWorkers, BillingInv, billing
  <2>3. QED
    BY <2>1, <2>2
<1>5. CASE Wait
  <2>1. CASE errs
    BY <1>5, <2>1 DEF Wait, BillingInv, billing
  <2>2. CASE ~errs
    <3>1. \A i \in 1 .. next - 1 : i \in quota
      BY <1>5, <2>2 DEF Wait, PoolInv
    <3>2. next = Len(buckets) + 1 => quota = DOMAIN buckets
      <4>1. next = Len(buckets) + 1 => next - 1 = Len(buckets)
        BY <1>0
      <4>2. quota \subseteq DOMAIN buckets
        BY DEF TypeOK
      <4>3. QED
        BY <3>1, <4>1, <4>2, <1>0, Zenon
    <3>3. pc' = "billing" /\ billed' = {} /\ unbilled' = {}
      BY <1>5, <2>2 DEF Wait, BillingInv, billing
    <3>4. next = Len(buckets) + 1 \/ cancelled
      BY <1>5, <2>2 DEF Wait, PoolInv
    <3>5. QED
      BY <1>5, <3>2, <3>3, <3>4 DEF Wait, BillingInv, pool
  <2>3. QED
    BY <2>1, <2>2
<1>6. CASE BillBatch
  BY <1>6 DEF BillBatch, Billings, ContextDone, BillingInv, pool
<1>7. CASE BillSingle
  BY <1>7 DEF BillSingle, ContextDone, BillingInv, pool
<1>8. CASE BillingDone
  <2>1. DOMAIN buckets # {}
    BY <1>8, <1>0 DEF BillingDone, PoolInv
  <2>2. quota = DOMAIN buckets
    BY <1>8, <2>1 DEF BillingDone, BillingInv
  <2>3. QED
    BY <1>8, <2>2 DEF BillingDone, pool, billing, BillingInv
<1>9. CASE ReplaceBuckets
  BY <1>9 DEF ReplaceBuckets, BillingInv, billing
<1>10. CASE Cancel
  BY <1>10 DEF Cancel, BillingInv, pool, billing
<1>11. ASSUME NEW w \in Workers, Work(w)
       PROVE  BillingInv'
  <2>1. CASE Quota(w)
    <3>1. pc \notin {"billing", "publish", "returned"}
      BY <2>1, <1>11 DEF Quota, PoolInv
    <3>2. QED
      BY <2>1, <3>1 DEF Quota, BillingInv, billing
  <2>2. CASE Send(w) \/ QuotaError(w) \/ StopOthers(w) \/ WorkerEnds(w)
    BY <2>2 DEF Send, QuotaError, StopOthers, WorkerEnds, BillingInv, billing
  <2>3. QED
    BY <1>11, <2>1, <2>2 DEF Work
<1>12. CASE Returned
  BY <1>12, <1>1 DEF Returned, vars, pool
<1>13. QED
  BY <1>2, <1>3, <1>4, <1>5, <1>6, <1>7, <1>8, <1>9, <1>10, <1>11, <1>12 DEF Next, Collect

\* A publication is whole and without duplicates; nothing else touches the store.
LEMMA PublishedStep == IInv /\ Next => PublishedIsWhole' /\ PublishedOnce'
<1> SUFFICES ASSUME IInv, Next
             PROVE  PublishedIsWhole' /\ PublishedOnce'
  OBVIOUS
<1> USE DEF IInv
<1>1. CASE UNCHANGED published
  BY <1>1 DEF PublishedIsWhole, PublishedOnce
<1>2. CASE ReplaceBuckets
  <2>1. quota = DOMAIN buckets /\ billed = DOMAIN buckets
    BY <1>2 DEF ReplaceBuckets, BillingInv
  <2>2. /\ DOMAIN published' = DOMAIN buckets
        /\ \A i \in DOMAIN buckets :
             published'[i] = [bucket |-> buckets[i], quota |-> i \in quota,
                              billing |-> i \in billed]
    BY <1>2 DEF ReplaceBuckets
  <2>3. \A i \in DOMAIN buckets :
          /\ published'[i].bucket = buckets[i]
          /\ published'[i].quota = (i \in quota)
          /\ published'[i].billing = (i \in billed)
    BY <2>2
  <2>4. PublishedIsWhole'
    BY <2>1, <2>2, <2>3, Zenon DEF PublishedIsWhole
  <2>5. PublishedOnce'
    BY <2>2, <2>3 DEF PublishedOnce, ListInv, IsInjective
  <2>6. QED
    BY <2>4, <2>5
<1>3. QED
  BY <1>1, <1>2
     DEF Next, Collect, Work, Cancel, CallError, ListNamespaces, LastPage, NextPage,
         StartWorkers, CloseJobs, Wait, BillBatch, BillSingle, BillingDone, Returned, Send,
         Quota, QuotaError, StopOthers, WorkerEnds, vars

\* IInv holds in every reachable state.
THEOREM Invariance == Spec => []IInv
<1>1. Init => IInv
  <2> SUFFICES ASSUME Init
               PROVE  IInv
    OBVIOUS
  <2>2. pending = <<>> /\ buckets = <<>> /\ published = <<>>
    BY DEF Init
  <2>3. /\ <<>> \in Seq(Namespaces) /\ <<>> \in Seq(Bucket) /\ Len(<<>>) = 0
        /\ DOMAIN <<>> = {}
    BY EmptySeq
  <2>4. TypeOK
    <3>1. /\ pc = "namespaces" /\ cancelled = FALSE /\ stopped = FALSE /\ errs = FALSE
          /\ seenMarkers = {} /\ seenBuckets = {} /\ quota = {} /\ billed = {} /\ unbilled = {}
          /\ worker = [w \in Workers |-> "done"]
      BY DEF Init
    <3>2. pageNumber = 0 /\ 0 \in 0 .. MaxPages - 1
      BY PageAssumption DEF Init
    <3>3. next = 1 /\ Len(buckets) = 0 /\ 1 \in 1 .. 0 + 1 /\ 0 \in 0 .. 0
      BY <2>2, <2>3 DEF Init
    <3>4. job \in [Workers -> 0 .. Len(buckets)]
      BY <3>3 DEF Init
    <3>5. QED
      BY <2>2, <2>3, <3>1, <3>2, <3>3, <3>4 DEF TypeOK
  <2>5. ListInv
    BY <2>2, <2>3 DEF ListInv, IsInjective
  <2>6. PublishedIsWhole /\ PublishedOnce
    BY <2>2, <2>3 DEF PublishedIsWhole, PublishedOnce
  <2>7. BeginInv /\ PoolInv /\ BillingInv
    BY <2>2 DEF Init, BeginInv, PoolInv, BillingInv
  <2>8. QED
    BY <2>4, <2>5, <2>6, <2>7 DEF IInv
<1>2. IInv /\ [Next]_vars => IInv'
  <2>1. ASSUME IInv, Next
        PROVE  IInv'
    BY <2>1, TypeStep, ListStep, PoolStep, BillingStep, PublishedStep DEF IInv
  <2>2. ASSUME IInv, UNCHANGED vars
        PROVE  IInv'
    BY <2>2 DEF vars, paging, pool, billing, IInv, TypeOK, BeginInv, ListInv, PoolInv,
                BillingInv, PublishedIsWhole, PublishedOnce
  <2>3. QED
    BY <2>1, <2>2
<1>3. QED
  BY <1>1, <1>2, PTL DEF Spec

\* A published bucket list has the quota and the billing of every bucket.
THEOREM WholeCorrect == Spec => []PublishedIsWhole
<1>1. IInv => PublishedIsWhole
  BY DEF IInv
<1>2. QED
  BY <1>1, Invariance, PTL

\* A published bucket list has no bucket twice.
THEOREM OnceCorrect == Spec => []PublishedOnce
<1>1. IInv => PublishedOnce
  BY DEF IInv
<1>2. QED
  BY <1>1, Invariance, PTL

=============================================================================
