------------------------------ MODULE Buckets -------------------------------
(***************************************************************************)
(* One CollectBuckets of a Runner (internal/collector/runner.go): the      *)
(* bucket inventory page by page, the worker pool that asks for the quota  *)
(* of each bucket, and the billing in batches with single calls for what a *)
(* batch leaves out.  ensureBootstrap is in Collector.                     *)
(*                                                                         *)
(* ECS may answer anything.  A bucket is its namespace and name; a bucket  *)
(* in the list is referred to by its index, as the workers do.             *)
(***************************************************************************)
EXTENDS Naturals, Sequences, FiniteSets, Functions

CONSTANTS
  Namespaces, Names,   \* what ECS may list
  Markers,             \* what next_marker may be
  PageSize,            \* config: concurrency.bucketPageSize
  MaxPages,            \* maxPages (1000 in the code)
  MaxConcurrent        \* config: concurrency.maxConcurrentRequestsPerCluster

ASSUME NamespacesAssumption == IsFiniteSet(Namespaces)
ASSUME PageAssumption == PageSize \in Nat \ {0} /\ MaxPages \in Nat \ {0}
\* Config.Validate.
ASSUME ConcurrencyAssumption == MaxConcurrent \in Nat \ {0}

VARIABLES
  pc,            \* where CollectBuckets stands
  cancelled,     \* the context of the run is done
  stopped,       \* cancel() of enrichBuckets has been called
  pending,       \* the namespaces not yet listed, the current one first
  pageNumber, seenMarkers, seenBuckets,   \* collectBucketPages
  buckets,       \* the list under construction
  next,          \* index the sender offers
  worker,        \* state of each worker
  job,           \* index a worker is busy with
  errs,          \* the errs channel holds an error
  quota,         \* indexes whose quota is applied
  billed,        \* indexes whose billing is applied
  unbilled,      \* indexes of a namespace that its batch left out
  published      \* clusterData.buckets

paging == <<pending, pageNumber, seenMarkers, seenBuckets>>
pool == <<next, worker, job, errs, stopped, quota>>
billing == <<billed, unbilled>>
vars == <<pc, cancelled, paging, buckets, pool, billing, published>>

-----------------------------------------------------------------------------
Workers == 1 .. MaxConcurrent
Bucket == [namespace: Namespaces, name: Names]

\* A response of up to one bucket more than the page size.
Pages == UNION {[1 .. n -> Bucket] : n \in 0 .. PageSize + 1}
\* ParseNamespaces refuses a list with a namespace twice.
NamespaceLists ==
  {s \in UNION {[1 .. n -> Namespaces] : n \in 0 .. Cardinality(Namespaces)} : IsInjective(s)}

\* The context that the calls of enrichBuckets are made under; a call under a done
\* context fails.
ContextDone == cancelled \/ stopped

Init ==
  /\ pc = "namespaces"
  /\ cancelled = FALSE
  /\ stopped = FALSE
  /\ pending = <<>>
  /\ pageNumber = 0
  /\ seenMarkers = {}
  /\ seenBuckets = {}
  /\ buckets = <<>>
  /\ next = 1
  /\ worker = [w \in Workers |-> "done"]
  /\ job = [w \in Workers |-> 0]
  /\ errs = FALSE
  /\ quota = {}
  /\ billed = {}
  /\ unbilled = {}
  /\ published = <<>>

Cancel ==
  /\ ~cancelled
  /\ cancelled' = TRUE
  /\ UNCHANGED <<pc, paging, buckets, pool, billing, published>>

\* An API call or a parse fails outside the pool: the error is returned.
CallError ==
  /\ \/ pc = "namespaces"
     \/ pc = "pages" /\ pending # <<>>
     \/ pc = "billing" /\ billed # DOMAIN buckets
  /\ pc' = "returned"
  /\ UNCHANGED <<cancelled, paging, buckets, pool, billing, published>>

-----------------------------------------------------------------------------
(* The inventory *)

ListNamespaces ==
  /\ pc = "namespaces"
  /\ ~ContextDone
  /\ pending' \in NamespaceLists
  /\ pc' = "pages"
  /\ UNCHANGED <<cancelled, pageNumber, seenMarkers, seenBuckets, buckets, pool, billing,
                 published>>

\* Deviation: a bucket that an earlier page had is taken again.
AcceptedPage(page) ==
  /\ Len(page) <= PageSize
  /\ IsInjective(page)
  /\ \A i \in DOMAIN page : page[i].namespace = Head(pending)

\* ParseBucketPage and the checks of collectBucketPages.
Accepted(page) ==
  /\ Len(page) <= PageSize
  /\ IsInjective(page)
  /\ \A i \in DOMAIN page :
       page[i].namespace = Head(pending) /\ page[i] \notin seenBuckets

\* One page of collectBucketPages that is not an error: the last one of a namespace,
\* or one with a marker not seen before (the marker of the request is among those).
LastPage ==
  /\ pc = "pages" /\ pending # <<>>
  /\ ~ContextDone
  /\ \E page \in Pages : Accepted(page) /\ buckets' = buckets \o page
  /\ pending' = Tail(pending)
  /\ pageNumber' = 0
  /\ seenMarkers' = {}
  /\ seenBuckets' = {}
  /\ UNCHANGED <<pc, cancelled, pool, billing, published>>

NextPage ==
  /\ pc = "pages" /\ pending # <<>>
  /\ ~ContextDone
  /\ pageNumber + 1 < MaxPages
  /\ pageNumber' = pageNumber + 1
  /\ \E page \in Pages :
       /\ Accepted(page)
       /\ buckets' = buckets \o page
       /\ seenBuckets' = seenBuckets \cup Range(page)
  /\ \E marker \in Markers \ seenMarkers : seenMarkers' = seenMarkers \cup {marker}
  /\ UNCHANGED <<pc, cancelled, pending, pool, billing, published>>

-----------------------------------------------------------------------------
(* enrichBuckets *)

\* No more workers than buckets; without buckets nothing is asked.
StartWorkers ==
  /\ pc = "pages" /\ pending = <<>>
  /\ IF buckets = <<>>
     THEN pc' = "publish" /\ UNCHANGED worker
     ELSE /\ pc' = "send"
          /\ worker' = [w \in Workers |-> IF w <= Len(buckets) THEN "ready" ELSE "done"]
  /\ UNCHANGED <<cancelled, paging, buckets, next, job, errs, stopped, quota, billing,
                 published>>

\* An index passes the unbuffered channel jobs.
Send(w) ==
  /\ pc = "send"
  /\ next <= Len(buckets)
  /\ worker[w] = "ready"
  /\ worker' = [worker EXCEPT ![w] = "busy"]
  /\ job' = [job EXCEPT ![w] = next]
  /\ next' = next + 1
  /\ UNCHANGED <<pc, cancelled, paging, buckets, errs, stopped, quota, billing, published>>

\* The sender is through, or finds the context done, and closes jobs.
CloseJobs ==
  /\ pc = "send"
  /\ next > Len(buckets) \/ ContextDone
  /\ pc' = "wait"
  /\ UNCHANGED <<cancelled, paging, buckets, pool, billing, published>>

\* enrichBucketQuota.
Quota(w) ==
  /\ worker[w] = "busy"
  /\ ~ContextDone
  /\ quota' = quota \cup {job[w]}
  /\ worker' = [worker EXCEPT ![w] = "ready"]
  /\ job' = [job EXCEPT ![w] = 0]
  /\ UNCHANGED <<pc, cancelled, paging, buckets, next, errs, stopped, billing, published>>

\* Deviation: the error is dropped and the worker takes the next index.
QuotaErrorIgnored(w) ==
  /\ worker[w] = "busy"
  /\ worker' = [worker EXCEPT ![w] = "ready"]
  /\ job' = [job EXCEPT ![w] = 0]
  /\ UNCHANGED <<pc, cancelled, paging, buckets, next, errs, stopped, quota, billing,
                 published>>

\* Deviation: the first error does not stop the others.
QuotaErrorAlone(w) ==
  /\ worker[w] = "busy"
  /\ worker' = [worker EXCEPT ![w] = "done"]
  /\ errs' = TRUE
  /\ job' = [job EXCEPT ![w] = 0]
  /\ UNCHANGED <<pc, cancelled, paging, buckets, next, stopped, quota, billing, published>>

\* The first error is kept, and its worker goes on to cancel(); the others end.
QuotaError(w) ==
  /\ worker[w] = "busy"
  /\ worker' = [worker EXCEPT ![w] = IF errs THEN "done" ELSE "failing"]
  /\ errs' = TRUE
  /\ job' = [job EXCEPT ![w] = 0]
  /\ UNCHANGED <<pc, cancelled, paging, buckets, next, stopped, quota, billing, published>>

StopOthers(w) ==
  /\ worker[w] = "failing"
  /\ worker' = [worker EXCEPT ![w] = "done"]
  /\ stopped' = TRUE
  /\ UNCHANGED <<pc, cancelled, paging, buckets, next, job, errs, quota, billing, published>>

\* A worker finds jobs closed.
WorkerEnds(w) ==
  /\ pc = "wait"
  /\ worker[w] = "ready"
  /\ worker' = [worker EXCEPT ![w] = "done"]
  /\ UNCHANGED <<pc, cancelled, paging, buckets, next, job, errs, stopped, quota, billing,
                 published>>

Wait ==
  /\ pc = "wait"
  /\ \A w \in Workers : worker[w] = "done"
  /\ pc' = IF errs THEN "returned" ELSE "billing"
  /\ UNCHANGED <<cancelled, paging, buckets, pool, billing, published>>

-----------------------------------------------------------------------------
(* enrichBucketBillings *)

IndexesOf(namespace) == {i \in DOMAIN buckets : buckets[i].namespace = namespace}

\* ParseBucketBillings and the check that follows: buckets that were asked for, each once.
Billings(namespace) == SUBSET IndexesOf(namespace)

\* The batch call of a namespace; where the batch is not supported it returns nothing.
BillBatch ==
  /\ pc = "billing" /\ unbilled = {}
  /\ ~ContextDone
  /\ \E namespace \in Namespaces : \E returned \in Billings(namespace) :
       /\ IndexesOf(namespace) # {}
       /\ IndexesOf(namespace) \cap billed = {}
       /\ billed' = billed \cup returned
       /\ unbilled' = IndexesOf(namespace) \ returned
  /\ UNCHANGED <<pc, cancelled, paging, buckets, pool, published>>

\* collectSingleBucketBilling, in the order of the list.
BillSingle ==
  /\ pc = "billing"
  /\ ~ContextDone
  /\ \E i \in unbilled :
       /\ \A j \in unbilled : i <= j
       /\ billed' = billed \cup {i}
       /\ unbilled' = unbilled \ {i}
  /\ UNCHANGED <<pc, cancelled, paging, buckets, pool, published>>

BillingDone ==
  /\ pc = "billing"
  /\ billed = DOMAIN buckets
  /\ pc' = "publish"
  /\ UNCHANGED <<cancelled, paging, buckets, pool, billing, published>>

\* Store.ReplaceBuckets.
ReplaceBuckets ==
  /\ pc = "publish"
  /\ published' = [i \in DOMAIN buckets |->
                     [bucket |-> buckets[i], quota |-> i \in quota, billing |-> i \in billed]]
  /\ pc' = "returned"
  /\ UNCHANGED <<cancelled, paging, buckets, pool, billing>>

-----------------------------------------------------------------------------
Collect ==
  \/ CallError \/ ListNamespaces \/ LastPage \/ NextPage
  \/ StartWorkers \/ CloseJobs \/ Wait
  \/ BillBatch \/ BillSingle \/ BillingDone \/ ReplaceBuckets

Work(w) == Send(w) \/ Quota(w) \/ QuotaError(w) \/ StopOthers(w) \/ WorkerEnds(w)

Returned == pc = "returned" /\ UNCHANGED vars

Next == Cancel \/ Collect \/ Returned \/ \E w \in Workers : Work(w)

Spec == Init /\ [][Next]_vars

\* A goroutine that can run runs; every API call returns (EcsClient!CallsReturn).
Fairness == WF_vars(Collect) /\ \A w \in Workers : WF_vars(Work(w))

FairSpec == Spec /\ Fairness

-----------------------------------------------------------------------------
(* Properties *)

TypeOK ==
  /\ pc \in {"namespaces", "pages", "send", "wait", "billing", "publish", "returned"}
  /\ cancelled \in BOOLEAN
  /\ stopped \in BOOLEAN
  /\ pending \in Seq(Namespaces)
  /\ pageNumber \in 0 .. MaxPages - 1
  /\ seenMarkers \subseteq Markers
  /\ seenBuckets \subseteq Bucket
  /\ buckets \in Seq(Bucket)
  /\ next \in 1 .. Len(buckets) + 1
  /\ worker \in [Workers -> {"ready", "busy", "failing", "done"}]
  /\ job \in [Workers -> 0 .. Len(buckets)]
  /\ errs \in BOOLEAN
  /\ quota \subseteq DOMAIN buckets
  /\ billed \subseteq DOMAIN buckets
  /\ unbilled \subseteq DOMAIN buckets

\* Every bucket of a published list has its quota and its billing, although the sender
\* stops early when the context is done and enrichBuckets then goes on to the billing
\* unless a worker has reported an error.
PublishedIsWhole ==
  \A i \in DOMAIN published : published[i].quota /\ published[i].billing

\* A published list has no bucket twice, whatever pages and markers ECS answers with:
\* of twice the same series a scrape would show one, with an error (ParseNamespaces,
\* ParseBucketPage, collectBucketPages).
PublishedOnce ==
  \A i, j \in DOMAIN published : published[i].bucket = published[j].bucket => i = j

\* CollectBuckets returns: ECS cannot page for ever, and the sender is never left
\* without a worker to receive.
CollectReturns == <>(pc = "returned")

-----------------------------------------------------------------------------
(* The inductive invariant *)

\* Before the first response there is nothing.
BeginInv == pc = "namespaces" => buckets = <<>>

\* The list so far has no bucket twice and none of a namespace that is still to come;
\* those of the current namespace are in seenBuckets.
ListInv ==
  /\ IsInjective(buckets)
  /\ IsInjective(pending)
  /\ \A i \in DOMAIN buckets, n \in DOMAIN pending :
       buckets[i].namespace = pending[n] => n = 1 /\ buckets[i] \in seenBuckets

\* Where the indexes are that the sender has passed on, and who still writes.
PoolInv ==
  /\ pc \in {"namespaces", "pages"} =>
       /\ next = 1 /\ ~errs /\ quota = {}
       /\ \A w \in Workers : worker[w] = "done"
  /\ pc \in {"billing", "publish", "returned"} => \A w \in Workers : worker[w] # "busy"
  /\ \A w \in Workers : worker[w] = "busy" => job[w] # 0
  /\ ~errs => ~stopped /\ \A w \in Workers : worker[w] # "failing"
  /\ pc \in {"send", "wait"} /\ ~errs =>
       \A i \in 1 .. next - 1 : i \in quota \/ \E w \in Workers : worker[w] = "busy" /\ job[w] = i
  /\ pc = "wait" => next = Len(buckets) + 1 \/ cancelled \/ errs
  /\ pc \in {"send", "wait", "billing"} => buckets # <<>>
  /\ pc = "billing" => ~errs

\* Billing that began under a done context has not got anywhere.
BillingInv ==
  /\ pc \notin {"billing", "publish", "returned"} => billed = {} /\ unbilled = {}
  /\ pc = "billing" => quota = DOMAIN buckets \/ (cancelled /\ billed = {})
  /\ pc = "publish" => quota = DOMAIN buckets /\ billed = DOMAIN buckets

IInv ==
  /\ TypeOK
  /\ BeginInv
  /\ ListInv
  /\ PoolInv
  /\ BillingInv
  /\ PublishedIsWhole
  /\ PublishedOnce

=============================================================================
