----------------------------- MODULE Inventory ------------------------------
(***************************************************************************)
(* One client of the inventory API (internal/httpapi/server.go) that goes  *)
(* through a list page by page, while collectors replace the lists it is   *)
(* made of.  Every request takes a Snapshot of its own and filters, sorts  *)
(* and cuts it anew.                                                       *)
(*                                                                         *)
(* An item stands for a node, namespace, bucket or replication.  Names are *)
(* numbers, ordered like the strings they stand for; "id" is what          *)
(* sortSnapshot orders the items of a cluster by.  The lists of the store  *)
(* are sets: a Go map has no order, and slices.SortFunc may return any     *)
(* sorted sequence.                                                        *)
(***************************************************************************)
EXTENDS Integers, Sequences, FiniteSets, Functions, SequencesExt, MachineInt

CONSTANTS
  Items,         \* records with cluster, namespace, name and id
  MaxPageSize,   \* config: security.inventory.maxPageSize
  DefaultSize,   \* 100 in the code
  MaxPage,       \* 1000000 in the code
  Filters, Sorts, Sizes, Pages,   \* what a client may ask for
  Unset            \* a parameter that is not given

\* No two items of a cluster have the same id, which the parsers see to for nodes,
\* namespaces and buckets, and ECS for replications.
ASSUME ItemsAssumption ==
  /\ Items \subseteq [cluster : Nat, namespace : Nat, name : Nat, id : Nat]
  /\ IsFiniteSet(Items)
  /\ \A a, b \in Items : a.cluster = b.cluster /\ a.id = b.id => a = b

\* validateQuery and pagination refuse other queries; config refuses a limit below one.
ASSUME QueryAssumption ==
  /\ Sorts \subseteq [field : {"name", "cluster", "namespace"}, descending : BOOLEAN]
  /\ MaxPageSize \in Nat \ {0} /\ DefaultSize \in Nat \ {0} /\ MaxPage \in Nat
  /\ Unset \notin Nat
  /\ Sizes \subseteq 1..MaxPageSize \cup {Unset}
  /\ Pages \subseteq Nat

VARIABLES
  lists,         \* what the store has of each cluster
  filter, sort, size,   \* the query
  got            \* the answers since a list was last replaced, with their pages

inventoryVars == <<lists, filter, sort, size, got>>

-----------------------------------------------------------------------------
Clusters == {i.cluster : i \in Items}
Lists(k) == SUBSET {i \in Items : i.cluster = k}
Stored == UNION {lists[k] : k \in Clusters}

\* cmp.Compare of one pair of keys after the other.
Lexically(a, b) ==
  \E i \in DOMAIN a : a[i] < b[i] /\ \A j \in 1..(i - 1) : a[j] = b[j]

\* Deviation: only by cluster.
PrecedesByCluster(a, b) == Lexically(<<a.cluster>>, <<b.cluster>>)

\* sortSnapshot: by cluster and id.
Precedes(a, b) == Lexically(<<a.cluster, a.id>>, <<b.cluster, b.id>>)

\* What Store.Snapshot may return, which is sorted.
Snapshots ==
  {s \in SetToSeqs(Stored) : \A i, j \in DOMAIN s : i < j => ~Precedes(s[j], s[i])}

matches(item) ==
  /\ filter.cluster \in {Unset, item.cluster}
  /\ filter.name \in {Unset, item.name}

Selected == {i \in Stored : matches(i)}

Keys(item) == <<item.cluster, item.namespace, item.name>>

\* sortBy: the field first, then the keys of the item.
Before(a, b) ==
  LET x == <<a[sort.field]>> \o Keys(a)
      y == <<b[sort.field]>> \o Keys(b)
  IN  IF sort.descending THEN Lexically(y, x) ELSE Lexically(x, y)

\* What the pages are cut from: the items of a Snapshot that match, sorted; the sort is
\* stable, those that are equal to it stay in the order they had.
InOrder(s, a, b) ==
  \/ Before(a, b)
  \/ ~Before(b, a) /\ \E i, j \in DOMAIN s : s[i] = a /\ s[j] = b /\ i < j
Listings(s) ==
  {l \in SetToSeqs(Selected) : \A i, j \in DOMAIN l : i < j => InOrder(s, l[i], l[j])}

PageSize == IF size = Unset THEN Least(DefaultSize, MaxPageSize) ELSE size

\* Deviation: only the number of the page is limited.
AcceptedByNumber(page) == page <= MaxPage

\* pagination.
Accepted(page) == page <= MaxPage /\ page <= MaxInt \div PageSize

\* Deviation: a last page that is not full is not counted.
TotalPagesFull(total) == total \div PageSize

TotalPages(total) == (total + PageSize - 1) \div PageSize

Start(page, total) == Least(Wrapped(page * PageSize), total)
End(page, total) == Least(Start(page, total) + PageSize, total)

\* writePage.
Answer(page, listing) ==
  LET total == Len(listing)
  IN  CASE ~Accepted(page) -> [status |-> "bad request"]
        [] Accepted(page) /\ Start(page, total) \notin 0..End(page, total) -> [status |-> "panic"]
        [] OTHER -> [status |-> "ok", totalPages |-> TotalPages(total),
                     items |-> SubSeq(listing, Start(page, total) + 1, End(page, total))]

-----------------------------------------------------------------------------
InventoryInit ==
  /\ lists = [k \in Clusters |-> {}]
  /\ filter \in Filters /\ sort \in Sorts /\ size \in Sizes
  /\ got = {}

\* A collector publishes.
Replace(k) ==
  /\ \E list \in Lists(k) : lists' = [lists EXCEPT ![k] = list]
  /\ got' = {}
  /\ UNCHANGED <<filter, sort, size>>

\* A request for a page.
Get(page) ==
  /\ \E snapshot \in Snapshots : \E listing \in Listings(snapshot) :
       got' = got \cup {<<page, Answer(page, listing)>>}
  /\ UNCHANGED <<lists, filter, sort, size>>

InventoryNext == (\E k \in Clusters : Replace(k)) \/ \E page \in Pages : Get(page)

InventorySpec == InventoryInit /\ [][InventoryNext]_inventoryVars

-----------------------------------------------------------------------------
(* Properties *)

Answers == {g \in got : g[2].status = "ok"}
Places(g) == DOMAIN g[2].items

\* While no list is replaced, a client that goes through the pages in any order, each cut
\* from a Snapshot of its own that a Go map gives no order, gets one answer to each page,
\* only items that match, none of them twice and in the order it asked for, and has all
\* of them when it has as many pages as there are (writePage, sortBy, sortSnapshot).
PagesAreComplete ==
  /\ \A a, b \in Answers :
       /\ a[1] = b[1] => a = b
       /\ \A i \in Places(a), j \in Places(b) :
            LET x == a[2].items[i]
                y == b[2].items[j]
            IN  /\ x \in Selected
                /\ x = y => a[1] = b[1] /\ i = j
                /\ a[1] < b[1] \/ (a[1] = b[1] /\ i < j) => ~Before(y, x)
  /\ \A g \in Answers :
       (\A p \in 0..(g[2].totalPages - 1) : \E a \in Answers : a[1] = p) =>
         Selected \subseteq UNION {Range(a[2].items) : a \in Answers}

\* Whatever order the maps of the store have, a Snapshot has one order, and what is selected
\* from it another that depends on nothing else (sortSnapshot, sortBy).
OrderIsDetermined ==
  /\ Cardinality(Snapshots) = 1
  /\ \A s \in Snapshots : Cardinality(Listings(s)) = 1

\* No page number makes the handler slice out of bounds, also where page times size is
\* more than an int holds (pagination, writePage).
SlicesAreInBounds == \A g \in got : g[2].status # "panic"

-----------------------------------------------------------------------------
(* The inductive invariant *)

InventoryTypeOK ==
  /\ lists \in [Clusters -> SUBSET Items]
  /\ sort \in Sorts /\ size \in Sizes

\* Every answer is one that the lists, as they are, give.
InventoryInv ==
  /\ InventoryTypeOK
  /\ \A g \in got : \E snapshot \in Snapshots : \E listing \in Listings(snapshot) :
       g[1] \in Pages /\ g = <<g[1], Answer(g[1], listing)>>

=============================================================================
