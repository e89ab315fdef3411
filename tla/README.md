# A verification of the Dell ECS Metrics Exporter

This directory holds TLA+ specifications of the exporter, the configurations that
check them with TLC on small instances, and theorems about them whose proofs TLAPS
checks. `PROJECT.json` maps each definition to the lines it stands for.

| module | what it specifies | runs | proofs |
|---|---|---|---|
| `Cache` | what the cache of a cluster promises to its readers; `Collector` implements it | `MCCollector*.cfg` | `CollectorProofs` |
| `Collector` | Runner, Scheduler and Store of one cluster | `MCCollector*.cfg` | `CollectorProofs` |
| `Exposition` | what `/metrics` and readiness make of the cache of several clusters | `MCExposition*.cfg` | `ExpositionProofs` |
| `EcsClient` | `ecs.Client` and `AuthManager` of one cluster, shared by its collectors | `MCEcsClient*.cfg` | `EcsClientProofs` |
| `Buckets` | `Runner.CollectBuckets` with its worker pool | `MCBuckets.cfg` | `BucketsProofs` |
| `Profiles` | catalog of profiles and the Runner's resolution over changes of version | `MCProfiles*.cfg` | `ProfilesProofs` |
| `FluxResources` | the inside of `CollectNodeResources`: queries, rows, merge | `MCParts.cfg` | `FluxResourcesProofs` |
| `FluxPerformance` | the inside of `CollectPerformance`: rows, labels, series | `MCParts.cfg` | `FluxPerformanceProofs` |
| `Limiter` | `requestLimiter`, shared by the calls of a client | `MCParts.cfg` | `PartsProofs` |
| `Backoff` | the arithmetic of `waitBackoff` | `MCParts.cfg` | `PartsProofs` |
| `Inventory` | the lists of the inventory API, page by page | `MCParts.cfg` | `PartsProofs` |
| `Flux`, `MachineInt` | what the two Flux modules share, and the two with machine integers | | |

## 1. The system

The exporter polls the management API of one or more Dell ECS clusters and keeps the
last result of each kind in memory; Prometheus, the inventory API and the readiness
endpoint read that cache only. A process has, per cluster, one `ecs.Client`, one
`Runner` and eight collector goroutines, and one `Store` for all of them.

```
 Scheduler --timer--> Runner.Run(name) --> Collect*  --> ecs.Client --> ECS
                          |                   |  \__ ensureBootstrap --> Catalog.Resolve
                          v                   v
                       Store.Start/Finish   Store.Replace*/Merge
                                   \         /
                                    Store --Snapshot--> metrics.Collect, health.Evaluate,
                                                        inventory API, Collect* themselves
```

| component | state | operations | what is hard | what makes it correct |
|---|---|---|---|---|
| Scheduler (`collector/scheduler.go`) | one goroutine per collector, wait group | `Start`, `runScheduled`, `Wait` | the timer races the cancellation | it ends after a cancellation |
| Runner (`collector/runner.go`) | `resolution` (RW lock), `bootstrapMu`, `nodeMu` | `Bootstrap`, `Run`, eight `Collect*` | eight goroutines, two mutexes held over API calls, Snapshots that are written back later, skip detection by generations | no lost update, one bootstrap, success times that are those of the data |
| bucket pool (`enrichBuckets`) | jobs and errs channels, derived context | sender, workers, billing | early stop, a sender without a receiver, partial results | only whole lists are published, it returns |
| Store (`cache/store.go`) | data, generations and collector states per cluster | `Replace*`, `MergeRecovery`, `Start`, `Finish`, `FinishSkipped`, `Snapshot` | several writers of one list | every value is of the run it claims to be of |
| ECS client (`ecs/client.go`) | token, semaphore, breaker, limiter | `DoJSON`, `Token`, `Invalidate`, `Logout`, `Wait` | late 401s, re-login, retries against timeouts, a login that holds a mutex, tokens taken by others while one sleeps | bounded requests, logins and rate, slots come back, every call returns |
| parsers (`ecs/parser.go`) | none | `Parse*` | duplicates, incomplete answers, Flux rows in any order and of another query | refuse what would break the cache, lose and mix up nothing |
| profiles (`profile/*.go`) | catalog | `LoadDir`, `Match`, `Resolve` | overlap found between neighbours only, mixed versions in an upgrade | one profile per version, nothing enabled that a node lacks |
| metrics (`metrics/metrics.go`) | none | `Collect` | values carried over from run to run | nothing expired is shown |
| readiness (`health/health.go`) | none | `Evaluate` | oldest and newest success, unknown clusters | agrees with `/metrics`, reports an outage |
| HTTP API (`httpapi/server.go`) | none | handlers over one Snapshot | paging arithmetic, pages cut from different Snapshots | the pages together are the list |
| config, Flux probe, release and check tools, mock server, charts, scripts | none that lives on | | | not modelled |

## 2. The modules and the code

### Cache

The abstract specification of one cluster's cache: `Begin`, `Publish`, `Succeed` and
`GiveUp` of a run, and `Forget`, the publication of `Bootstrap`. It keeps the number of
each collector's run, of the run whose result is in the cache, of the run its success
time is of, and the node runs the cached statuses are of. It says that a result is
published at most once per run and only by that run, that a success is recorded exactly
after a publication, and that the statuses of the nodes are never of two runs. It has no
locks, no resolution, no generations, no drafts: those are how the code gets there.
`Collector!ImplementsCache` is the refinement mapping (`Store!Spec`); the phase of a run
is a function of its position and of what it has published. `Forget` is allowed at any
time, which is disagreement 1 below.

### Collector

`pc[c]` is the position of the goroutine of collector `c`: `wait` in
`waitForSchedule`, `nodeLock` and `bootLock` in front of the two mutexes, `bootFetch`
and `bootPublish` inside `Bootstrap`, `caps`, `caps2`, `fetch`, `publish` inside a
`Collect*` function, `finish` after it in `Run`, `exited`. A step is what happens
between two points where another goroutine can be seen: a lock, an API call, a store
operation (each atomic under `Store.mu`), a read of the resolution.

- `nodes` is the cached node list. A status is the number of the node run it came
  from, a resource value that of the node-resources run; 0 is "no value". So "older"
  is `<` and a lost update is a number that falls.
- `draft[c]` is the list a Collect function builds. `FetchNodes` does
  `ParseNodes`, `preserveNodeResources` and `ApplyNodeStatuses`,
  `FetchNodeResources` does `ApplyNodeResources` on the Snapshot it read; the
  publication follows as a step of its own. Every enabled capability of a node that the
  run reports gets the run's value; the code leaves nil what Flux did not report of that
  node, which is "no value" and lowers nothing that is compared.
- `counted`, `tally` are the lists a cluster or namespace run has counted from a
  Snapshot (`Counts` says which lists), `replications` the records with the run of
  each half (a record is kept under its configured id; the code uses the id of the
  response).
- `published[k]` and `generations[k]` are kept per key of the store; `Run` compares
  generations to recognise a skipped run (`FinishRun`).

An API call that fails or is refused is `FetchError` and `BootstrapError`.
`MaxRuns` bounds the runs of a collector in TLC; the proofs do not use it.

### Exposition

Both readers compute from one Snapshot, so they are operators of the state
(`Exposed`, `evaluateCluster`, `Evaluate`) and the properties hold for a reader at any
moment. A time is an age in ticks. Ages beyond `MaxStale` are one age (expired), and
"never" is its own, so the state space is finite without a bound on time. No tick
falls between a publication and the end of its run, nor between the statements of
`Bootstrap` after the resolution: those are adjacent statements without I/O.
`Collect` reads the clock just before the Snapshot and readiness just after it; both
are one tick here. The runs are those of `Collector` without the inner steps: the
capability check, the calls and the publication of a run are one moment, so `Publish`
asks for the capability and for an API that answers then. Only the first `Store.Start`
changes something a reader sees. The performance values behave like those of buckets and
are left out.

A value is cached per kind (`Kinds`): the resource values by the capability they come
from, status and lag of replication apart from recovery progress. `Renews` says which
kinds a publication renews. It depends on the state: a node-resources run sets the values
of the enabled capabilities and carries the others over, a node run carries all resource
values over, a replication run brings recovery values along, and a recovery run renews
the recovery part of the links in the list and appends the whole record of those that are
not, which is every link until a replication run has published. `enabled` is what the
resolution of the cluster enables, any member of `Resolutions` at `Bootstrap` and at each
node run; `AlwaysRenews` are the kinds a collector renews whatever that is.

### EcsClient

A caller is a goroutine inside `DoJSON`; `pc` is its position (`select` in front of
the semaphore, `token`, `login`, `send`, `invalidate`, `backoff`). ECS is a set of
valid sessions: it answers 401 exactly to a token it does not know (`Revoke` ends a
session at any time). A response is one of success, 401, retryable, final. `late` is
the request deadline, `life` the shutdown sequence (cancel, then `Logout`). A login
whose answer is lost is not counted as issued. A call that the breaker refuses changes
nothing and is no step. `MaxTokens` bounds the logins.

### Buckets

One `CollectBuckets` from the call to its return (its state is local). ECS answers any
page of up to one bucket more than the page size, any marker, and any batch of
billings; `Accepted` and the guards of `NextPage` are the checks of
`ParseBucketPage` and `collectBucketPages`. Sending over the unbuffered channel is one
step of the sender and a ready worker. `errs` is the channel with room for one,
`stopped` the call of `cancel()` that follows it as a separate step. A call under a
done context fails. The order of the namespaces in the billing map is free, as in Go.

### FluxResources and FluxPerformance

One run of a Collect function from its first query on; its state is local, so other
goroutines do not appear. `Respond`, then one `ReadRow` per row in any order, then the
checks at the end of the response and the merge. ECS may answer with rows the query did
not ask for: in `FluxResources` up to `MaxStray` of them, in `FluxPerformance` any.

- `FluxResources`: a response is the set of its rows that count, since every entry of
  the parser's maps is set at most once; `Resource` is the record a set of rows makes of
  a node. The CPU ratio, times and ranges are abstracted to `Malformed`; the sums over
  filesystems to their terms. `CollectNodeResources` writes the values into the cached
  list (`ReplaceNodeResources`) and fails when that is empty; how this interleaves with
  `CollectNodes` is `Collector`'s matter.
- `FluxPerformance`: a value is its labels. `Performance` fills in and drops labels as
  the four branches of the parser do; `Series` is what `/metrics` makes of a value.

### Limiter and Backoff

`Limiter`: time in ticks, tokens in units of which a request costs `Unit`, so that a
rate of a fraction of a request per tick stays an integer. What `Wait` does under its
mutex is one step (`Admit` or `Sleep`); the timer may fire late. `before` remembers how
many requests had been let through when the clock came to a time. Neither module says
when a call is made: `EcsClient` leaves room for both waits in `Proceed` and `late`.

`Backoff`: the statements of `waitBackoff` with durations that wrap around at
`MaxInt`, for any settings `NewClient` accepts. `Doubled` is the pause without a limit,
`Asked` the one an attempt is to have.

### Inventory

One client and one query; `Get` answers a page from a Snapshot of its own, `Replace`
publishes a list. The lists of the store are sets, because a Go map gives them no order:
`Snapshots` are all sequences that `sortSnapshot` may leave, and `Listings` all that the
filter and the stable sort of `sortBy` make of one. That there is exactly one of each is
a property (`OrderIsDetermined`), not a part of the model. `got` holds the answers since
a list was last replaced. `Start` and `End` wrap around as an `int` does.

### Profiles

A version is its place in the order of four-part versions. `LoadDir` sorts by the
lower bound with a sort that is not stable, hence a set of orders, and compares
neighbours. `ReadInventory`, `ResolveError`, `CallError` and `SetResolution` are the
steps of a node run as far as the resolution goes, `Collect` any other collector that
asks `ensureBootstrap` and the capabilities. `Bootstrap` writes the resolution only
while there is none, so one resolver is enough. A node comes to any other version, newer
or older, at any time (`ChangeVersion`). A directory that `LoadDir` refuses has no
behaviour: the process does not start.

## 3. What is checked

Sizes are distinct states.

| run | instance | states | shows |
|---|---|---|---|
| `collector_nodes` | cluster, node, node-resources, or cluster, bucket, performance, or node, recovery (disabled); 2 node ids, 2 runs each | 1.04 M | `NoLostNodeUpdate`, `BootstrapRunsOnce`, `SuccessIsPublication`, `ImplementsCache` with skipped runs, the inductive invariant, no deadlock |
| `collector_lists` | replication, recovery or node, node-resources, recovery; two profiles; a node, a group and a link; two replication runs | 17.4 k | `ReplicationProvenance`, `ImplementsCache`, `RunsEnd`, `ShutdownCompletes` |
| `collector_bootstrap` | as `collector_nodes` with one node | | `CompleteNodesKept` is violated |
| `exposition` | one cluster; the four required collectors, or node, node-resources, replication and recovery under three resolutions | 379 k | `ReadyIsCurrent`, `OutageIsReported`, `ExposedIsCurrent`, the inductive invariant |
| `exposition_expired` | one cluster, replication and recovery, without failures | | `NothingExpiredIsExposed` is violated |
| `exposition_initialized` | two clusters, without failures | | `UpMeansInitialized` is violated |
| `client_safe` | three callers, two slots, two attempts, five tokens | 1.1 M | `SlotsAreReturned`, `RequestsAreBounded`, `LoginsAreBounded`, `BreakerAgrees`, the inductive invariant |
| `client_live` | three callers, two slots, one token | 57 k | `CallsReturn` |
| `buckets` | two namespaces, two names, pages of two, three workers | 61 k | `PublishedIsWhole`, `PublishedOnce`, `CollectReturns`, the inductive invariant |
| `profiles` | two nodes, four versions, 25 directories of which 14 are accepted | 107 k | `MatchIsUnique`, `OnlySharedEnabled`, `ResolutionIsMeet`, `ResolutionFollows`, the inductive invariant |
| `profiles_unsupported` | the repository's four profiles | | `UnsupportedStops` is violated |
| `parts` | Flux resources: two nodes, two filesystems, four interfaces against a limit of two, one stray row; Flux performance: three rows out of all measurements; limiter: three callers, six ticks; backoff: durations of five bits; inventory: two clusters, four items | 768 k | `ValuesAreReported`, `UsedWithinTotal`, `InterfacesWithinPolicy`, `SeriesAreUnique`, `RowsAreReported`, `RateIsBounded`, `NobodySleepsForNothing`, `PauseIsRight`, `PagesAreComplete`, `OrderIsDetermined`, `SlicesAreInBounds`, the inductive invariants (`PartsInv`) |

`MCParts` extends its five modules and runs one of them per behaviour: they share no
state, so nothing is lost by not interleaving them (`PartsCompose`).

Why the bounds are enough: two runs of each collector let a run that began before
another's publication write after it, and let a second run see what the first left; a
third run only repeats a pair. Which collectors are scheduled together follows the state
they share (`Schedules`; the others are as if they had ended): the writers of the node
list with the cluster collector as a third user of `bootstrapMu`; bucket and performance
with the cluster collector, which counts their lists; a recovery collector that has to
skip its runs next to one that publishes; the writers of the replication list; both
users of `nodeMu` next to one that asks for `bootstrapMu` alone. Likewise in
`exposition` (`OneGroup`): readiness relates the four required collectors, and only
there errors, outages and the health of the cluster matter (it asks whether there is an
error, not whose, so the collectors fail in one order, up to all of them); expiry
relates the two pairs of collectors that write one list. Two node ids let a list lose
one node and keep one. Three callers for two slots make one wait while two share a
token, lose it and log in; two attempts give a retry and a re-authentication in one
call. Three workers for up to six buckets have one fail, one busy and one waiting. Two
nodes mix at most two profiles, so no run folds a third in `SupportAfter`; that any
number of profiles comes to the same in any order is `MeetCorrect`. `MaxStale` above
`StaleTolerance` by one separates UP, DEGRADED and DOWN. In `parts`, one stray row is
enough to bring a field or an interface into the wrong response, three rows to have two
that collide and one that does not; a rate of two fifths of a request per tick gives
waits of one and of two ticks, and six ticks let the full bucket be emptied and
refilled; four bits and a sign with five attempts run the pause from 1 past every
`MaxBackoff`; the page numbers are the first four, which are all pages of four items,
one whose product with the page size wraps around, and one beyond `MaxPage`. Node ids,
callers and clusters are interchangeable, which the runs of safety properties use as
symmetry; the runs of liveness properties do not.

### Fairness

- `Collector`: a goroutine that can run runs, and an API call returns within its
  timeout (weak fairness of `Step`; `EcsClient!CallsReturn` is that promise). A Go
  mutex is starvation-free (strong fairness of `Lock`). A `select` whose `ctx.Done`
  case is ready again and again is not decided for the timer for ever (strong fairness
  of `ExitTask`). `RunsEnd` and `ShutdownCompletes` are checked where two collectors
  contend for `nodeMu` and hold it while they contend with a third for `bootstrapMu`, and
  where bootstraps and calls fail at any point. No fairness on `Cancel` or on the start
  of a run.
- `Exposition`: time passes (`Tick`), and a goroutine that has only store operations
  left comes to its end. No run is ever obliged to start or to succeed.
- `EcsClient`: connect, read and request timeouts bound every wait (`Proceed`);
  waiters of a mutex or channel are served in turn (`Lock`).
- `Buckets`: a goroutine that can run runs; a call returns.
- `Profiles`: the scheduler repeats the node collector (weak fairness of its reading
  and of its error), and of calls made again and again some succeed (strong fairness of
  `SetResolution`), which is an assumption about the environment.

### Disagreements between code and documents

1. `collector_bootstrap`: `Bootstrap` sets the resolution before it publishes its bare
   node list (`runner.go:97-100`) and does not hold `nodeMu`. A node run that is let
   through in between publishes a complete list, which `Bootstrap` then replaces. The
   README promises that complete results stay.
2. `exposition_initialized`: readiness knows only clusters that are in the store
   (`health.go:33`), so it can be UP before another configured cluster has begun; the
   runbook says UP follows the initialization of all required collectors.
3. `profiles_unsupported`: after an upgrade to an unsupported version the node run
   fails but the old resolution stays (`runner.go:182`, `526`), and the other collectors
   go on; the README says the cluster stops collecting.
4. `exposition_expired`: `MergeRecovery` appends whole records (`store.go:102`), and
   `domainFresh` takes a collector that has not begun for fresh (`metrics.go:347`). So the
   replication status that a first recovery run brings is shown, and no later recovery
   run renews it, for as long as the replication collector has not begun. The start jitter
   is up to half an interval and no check relates intervals to `maxStale`, so that may be
   past `maxStale`. The README says that only what has not expired is shown.
   `ExposedIsCurrent` is the promise the code keeps: it leaves out this status, and the
   resource values of the last of the smaller ones below, by name (`Unattended`).

Four smaller ones have no run: the cluster's bucket count is 0, not unknown, before the
first bucket run (`runner.go:128`, README.md:67-69); recovery values that a replication
run brings along are shown until the recovery collector's first start when recovery
progress is disabled (`metrics.go:347`); `Invalidate` throws away whatever token is
cached (`client.go:497`), so that one lost session can cost a login per caller, which
is the bound `LoginsAreBounded` states; and the resource values of a capability that a
change of profiles disables stay in the cache and are shown while those of the others
are renewed (`runner.go:257`), which no two of the repository's own profiles bring about.

## 4. What is proved

The theorems hold for every value of the constants under the modules' named
assumptions: finite sets of callers and namespaces, at least one slot, attempt, page
and worker, tolerances in order, model values that are not members of the sets they
stand beside, directories of well-formed profiles, rows of known measurements, positive
rates and bursts, machine integers of any width, items whose cluster and id are unique.
TLC evaluates each of these assumptions in the runs.

Each module has an inductive invariant (`IInv`; `PerformanceInv`, `LimiterInv`,
`BackoffInv` and `InventoryInv` in modules that `MCParts` combines), checked by TLC as an
invariant of a run and proved by a theorem of its own (`Invariance`,
`LimiterInvariance`, ...); the other theorems follow from it. Every invariant and every
action property of a passing run is stated by a theorem.

- **Collector.** Types alone do not carry anything. `MutexInv` ties each mutex to the
  labels inside it. `ResolutionInv` says that inside `Bootstrap`'s call there is no
  resolution and past `ensureBootstrap` there is one. `RunInv` relates generation,
  publication and recorded success of a run at each label; without it the comparison of
  generations could mistake Bootstrap's bump for the run's own. `DraftInv` says of a
  list on its way to the store what it may still lower, relative to the *current*
  cache; it survives other goroutines' steps only because `nodeMu` excludes the other
  writer and Bootstrap's list has no values (0 lowers no resource of a list that
  `preserveNodeResources` is applied to). From it: `TypeCorrect`, `SuccessCorrect`,
  `ProvenanceCorrect`, the action properties `NoLostUpdate` and `BootstrapOnce`, and
  `Implementation`: `Spec => ImplementsCache`, step by step. The refinement needs one
  more conjunct, `StatusInv`: the statuses in the cache are of one run, and those in
  the draft of a node-resources run are of the last node run that published.
- **Exposition.** `CollectedInv`: a cached value is no older than the last success of
  *any* collector all of whose publications renew it; `PublishedInv` covers the moment
  between a publication and its `Finish`. `SourceInv`: one of the collectors that may
  have brought a cached value has a state, so that a recovery value without a recovery run
  is vouched for by the replication collector. From these `ExposedCurrent`, which is about
  the values somebody is bound to renew, and `ReadyCurrent`.
- **EcsClient.** `CallInv` relates the requests of a call to its attempts and its one
  re-authentication at each label, `AuthInv` the mutex to the login. From it
  `SlotsCorrect` (cardinality of the calls inside), `RequestsBounded`, `BreakerCorrect`.
  `LoginsBounded` needs more than its bound, which is not inductive: a late 401 for one
  lost token throws a newer one away. `LoginBudget` counts, next to the logins so far,
  the *pending* ones: a caller and a lost token that it may still answer with
  `Invalidate`, which is every caller while that token is cached and afterwards those
  that have sent it. A session that ends adds one login per caller to both sides, an
  `Invalidate` uses up a pending pair and makes room for one login, and `Login` fills it.
  `LoginInv` has what this rests on: nobody logs in over a cached token, and a call that
  comes to `Invalidate` holds a token that ECS no longer knows.
- **Buckets.** `ListInv`: the list has no duplicates and nothing of a namespace still
  to come. `PoolInv`: each index below the sender's has its quota or is with a busy
  worker unless an error is recorded. `BillingInv`: billing that began under a done
  context has got nowhere. From it `WholeCorrect` and `OnceCorrect`.
- **Profiles.** `RangesInOrder`: from neighbours that do not overlap and ranges that are
  not empty, all pairs are in order: the end of a range is at most the next start, and
  the starts are sorted. From it `MatchCorrect`. `ResolutionInv`: what readers see is
  `Resolve` of *one* inventory. `SupportAfter` folds the sorted profiles into a result; it
  comes to `CommonSupport`, a definition without an order, by an induction over their
  number in the form of a set of numbers (`SetInduction`, from the least element of a set
  of numbers). From that `MeetCorrect` and `SharedCorrect`.
- **FluxResources.** `ResourceInv`: the resources of the run are the record that the rows
  of all merged responses make of a node; the lemmas about `Merged` and `Resource` say
  that merging two records is the record of both sets of rows unless `Conflict`.
  `ResponseInv` carries the checks of a response until it is merged. `DiskInv`: the
  filesystems of a node are those of one response. From it `ValuesCorrect`,
  `UsedCorrect`, `InterfacesCorrect`.
- **FluxPerformance.** The lists have no label twice and their elements are the labels
  of the rows of the responses read so far. `SeriesDetermines`: a series determines the
  labels. From both `SeriesCorrect` and `RowsCorrect`: what is published has the labels
  of all rows that were read, and no series twice.
- **Limiter.** `RateInv`: requests since a time plus the tokens there are stay within
  the burst and what the rate has added up to the last look. `SleepInv`: one tick before
  a timer fires there are too few tokens; it survives the looks of others because a look
  adds what the time since the last one is worth and no more. From it `RateCorrect` and
  `SleepCorrect`.
- **Backoff.** While the loop runs the pause is exactly `Doubled(current)`, because it is
  cut before it could pass `MaxBackoff`; so it never wraps around. A power of two is taken
  as the number of subsets of an interval (`PowerCounts`), which gives `PowerDoubles` and
  `PowerGrows` without an induction over exponents. From it `PauseCorrect`.
- **Inventory.** `InventoryInv`: every answer is one that the lists give as they are.
  `CanSort`: an order of a finite set has a sorted sequence, each element at the place
  after those below it. `SortedOnce`: it has no second one, by the least place where two
  would differ. `PrecedesFacts` and `BeforeFacts` show that the comparisons are such
  orders, the latter up to equal keys, which the stable sort leaves in the order of the
  Snapshot. From them `OrderCorrect`, and with it, the answers (`AnswerFacts`) and the
  division of a list into pages (`Quotient`, `PageOf`), `PagesCorrect`. `SlicesCorrect`
  rests on `OffsetFits`: an accepted page number times the size fits a machine integer.
- **The composition in `MCParts`.** `PartsCompose`: a behaviour of it is one of each part,
  so the theorems above hold of the run; `PartsCorrect` is the conjunction.

What TLC alone checks:

- the liveness properties (`RunsEnd`, `ShutdownCompletes`, `OutageIsReported`,
  `CallsReturn`, `CollectReturns`, `ResolutionFollows`) and the absence of deadlock:
  fairness and ENABLED are out of the prover's reach;
- the four violations, which are counterexamples.

## 5. Deviations

Definitions whose comment begins with "Deviation" are plausible mistakes in the code
(a lock that is not taken, a slot not given back). They are used by no specification.
With one of them in the place of the definition it deviates from, TLC finds the property
named in `PROJECT.json` violated, which shows that the property can fail.

## 6. Not modelled

- Conversion of numbers, units, times and ranges, capacity and quota in the parsers:
  pure functions of one field whose failure is an error of the run (`FetchError`,
  `Malformed`).
- Authentication, routing and problem bodies of the HTTP API: checks of one request
  without state.
- The configuration loader; its limits appear as assumptions on constants.
- TLS and request building, logging and the exporter's self-metrics.
- The Flux probe, a sequential report over functions that are modelled.
- What is not part of the running exporter: release and check tools, mock server,
  charts, scripts.

## 7. Plan

1. `Collector` as an implementation of the runs in `Exposition`.
2. Replication records under the id of the response rather than the configured one, so
   that responses with the same id or the same labels can be followed into `/metrics`.
3. Cluster counts before the first bucket run as a disagreement with a run of its own.
4. Proofs: that a goroutine which waits in `Collector` or `Buckets` waits for one that can
   go on, as a predicate on positions and mutexes instead of ENABLED.
