--------------------------- MODULE ProfilesProofs ---------------------------
(***************************************************************************)
(* Theorems about Profiles, for every directory of well-formed profiles,   *)
(* every set of nodes and every history of upgrades.                       *)
(***************************************************************************)
EXTENDS Profiles, FiniteSetTheorems, SequenceTheorems, TLAPS

-----------------------------------------------------------------------------
(* Induction, as facts about sets of natural numbers *)

\* A set of natural numbers has a least element.
LEMMA LeastNatural ==
  ASSUME NEW T \in SUBSET Nat, T # {}
  PROVE  \E m \in T : \A n \in T : m <= n
<1>1. PICK m \in T : \A n \in T : <<n, m>> \notin OpToRel(<, Nat)
  BY NatLessThanWellFounded, WFMin
<1>2. ASSUME NEW n \in T, n < m PROVE FALSE
  <2>1. <<n, m>> \in Nat \X Nat /\ <<n, m>>[1] < <<n, m>>[2]
    BY <1>2
  <2>2. <<n, m>> \in OpToRel(<, Nat)
    BY <2>1 DEF OpToRel
  <2> QED
    BY <1>1, <2>2
<1>3. \A n \in T : m <= n
  BY <1>2
<1> QED
  BY <1>3

\* A set with 0 and the successor of every member has all natural numbers.
LEMMA SetInduction ==
  ASSUME NEW T, 0 \in T, \A n \in Nat : n \in T => n + 1 \in T
  PROVE  Nat \subseteq T
<1> DEFINE Outside == {n \in Nat : n \notin T}
<1> SUFFICES ASSUME Outside # {} PROVE FALSE
  OBVIOUS
<1>1. PICK m \in Outside : \A n \in Outside : m <= n
  <2>1. Outside \in SUBSET Nat
    OBVIOUS
  <2> HIDE DEF Outside
  <2> QED
    BY <2>1, LeastNatural
<1>2. m # 0 /\ m - 1 \in Nat /\ (m - 1) + 1 = m
  OBVIOUS
<1>3. m - 1 \in T
  BY <1>1, <1>2
<1> QED
  BY <1>2, <1>3

-----------------------------------------------------------------------------
(* The catalog *)

\* What LoadDir lets through is in order as a whole, not only neighbour by neighbour: the
\* end of a range is at most the start of the next one, and the starts are sorted.
LEMMA LoadedInOrder ==
  ASSUME NEW files \in Directories, NEW s \in LoadDir(files)
  PROVE  \A i, j \in DOMAIN s :
           /\ i \in Nat /\ IsProfile(s[i])
           /\ i < j => s[i].max <= s[j].min
<1>1. files # {} /\ IsFiniteSet(files) /\ \A p \in files : IsProfile(p)
  BY DirectoriesAssumption
<1>2. Cardinality(files) \in Nat
  BY <1>1, FS_CardinalityType
<1>3. /\ s \in [1 .. Cardinality(files) -> files]
      /\ \A i, j \in DOMAIN s : i < j => s[i].min <= s[j].min
      /\ \A i \in DOMAIN s : i > 1 => s[i].min >= s[i - 1].max
  BY DEF LoadDir, Sorted, Disjoint
<1>4. TAKE i, j \in DOMAIN s
<1>5. /\ i \in Nat /\ j \in Nat
      /\ IsProfile(s[i]) /\ IsProfile(s[j])
  BY <1>1, <1>2, <1>3
<1>6. ASSUME i < j PROVE s[i].max <= s[j].min
  <2>1. /\ i + 1 \in DOMAIN s /\ i + 1 > 1 /\ (i + 1) - 1 = i
        /\ i + 1 = j \/ i + 1 < j
    BY <1>2, <1>3, <1>5, <1>6
  <2>2. IsProfile(s[i + 1])
    BY <1>1, <1>3, <2>1
  <2>3. s[i + 1].min >= s[i].max
    BY <1>3, <2>1
  <2>4. s[i + 1].min <= s[j].min
    BY <1>3, <1>5, <2>1 DEF IsProfile
  <2> QED
    BY <1>5, <2>2, <2>3, <2>4 DEF IsProfile
<1> QED
  BY <1>5, <1>6

-----------------------------------------------------------------------------
(* The selected profiles *)

\* A finite set of profiles can be sorted.
LEMMA SortedExists ==
  ASSUME NEW profiles, IsFiniteSet(profiles), \A p \in profiles : p.min \in Nat
  PROVE  \E s : s \in Sorted(profiles)
<1> DEFINE Sortable == {n \in Nat : \A S \in SUBSET profiles :
                                      Cardinality(S) = n => \E s : s \in Sorted(S)}
<1>1. 0 \in Sortable
  <2> SUFFICES ASSUME NEW S \in SUBSET profiles, Cardinality(S) = 0
               PROVE  \E s : s \in Sorted(S)
    OBVIOUS
  <2>1. S = {}
    BY FS_Subset, FS_EmptySet
  <2> DEFINE none == [i \in 1 .. 0 |-> i]
  <2>2. none \in Sorted(S)
    BY <2>1 DEF Sorted, IsInjective
  <2> QED
    BY <2>2
<1>2. ASSUME NEW n \in Nat, n \in Sortable
      PROVE  n + 1 \in Sortable
  <2> SUFFICES ASSUME NEW S \in SUBSET profiles, Cardinality(S) = n + 1
               PROVE  \E s : s \in Sorted(S)
    OBVIOUS
  <2>1. IsFiniteSet(S) /\ S # {}
    BY FS_Subset, FS_EmptySet
  <2>2. PICK p \in S : \A q \in S : p.min <= q.min
    <3> DEFINE starts == {q.min : q \in S}
    <3>1. starts \in SUBSET Nat /\ starts # {}
      BY <2>1
    <3>2. PICK m \in starts : \A k \in starts : m <= k
      <4> HIDE DEF starts
      <4> QED
        BY <3>1, LeastNatural
    <3> QED
      BY <3>2
  <2>3. Cardinality(S \ {p}) = n /\ S \ {p} \in SUBSET profiles
    <3>1. Cardinality(S \ {p}) = Cardinality(S) - 1
      BY <2>1, FS_RemoveElement
    <3> QED
      BY <3>1
  <2>4. PICK s : s \in Sorted(S \ {p})
    BY <1>2, <2>3
  <2>5. /\ s \in [1 .. n -> S \ {p}]
        /\ \A i, j \in 1 .. n : s[i] = s[j] => i = j
        /\ \A i, j \in 1 .. n : i < j => s[i].min <= s[j].min
    BY <2>3, <2>4 DEF Sorted, IsInjective
  <2> DEFINE t == [i \in 1 .. n + 1 |-> IF i = 1 THEN p ELSE s[i - 1]]
  <2>6. t \in [1 .. n + 1 -> S]
    BY <2>5
  <2>7. ASSUME NEW i \in 1 .. n + 1, NEW j \in 1 .. n + 1
        PROVE  /\ t[i] = t[j] => i = j
               /\ i < j => t[i].min <= t[j].min
    <3>1. CASE i = 1 /\ j = 1
      BY <3>1
    <3>2. CASE i = 1 /\ j # 1
      BY <2>2, <2>5, <3>2
    <3>3. CASE i # 1 /\ j = 1
      BY <2>5, <3>3
    <3>4. CASE i # 1 /\ j # 1
      <4>1. i - 1 \in 1 .. n /\ j - 1 \in 1 .. n /\ t[i] = s[i - 1] /\ t[j] = s[j - 1]
        BY <3>4
      <4> HIDE DEF t
      <4> QED
        BY <2>5, <4>1
    <3> QED
      BY <3>1, <3>2, <3>3, <3>4
  <2>8. t \in Sorted(S)
    <3> HIDE DEF t
    <3> QED
      BY <2>6, <2>7 DEF Sorted, IsInjective
  <2> QED
    BY <2>8
<1>3. Cardinality(profiles) \in Sortable
  <2> HIDE DEF Sortable
  <2> QED
    BY <1>1, <1>2, SetInduction, FS_CardinalityType
<1> QED
  BY <1>3

\* Sorting keeps all profiles.
LEMMA SortedRange ==
  ASSUME NEW profiles, IsFiniteSet(profiles), NEW s \in Sorted(profiles)
  PROVE  /\ Cardinality(profiles) \in Nat
         /\ s \in [1 .. Cardinality(profiles) -> profiles]
         /\ Len(s) = Cardinality(profiles)
         /\ Range(s) = profiles
<1> DEFINE n == Cardinality(profiles)
<1>1. n \in Nat
  BY FS_CardinalityType
<1>2. /\ s \in [1 .. n -> profiles]
      /\ \A i, j \in 1 .. n : s[i] = s[j] => i = j
  BY DEF Sorted, IsInjective
<1>3. s \in Injection(1 .. n, profiles)
  BY <1>2 DEF Injection, IsInjective
<1>4. Cardinality(1 .. n) = n
  BY <1>1, FS_Interval
<1>5. s \in Surjection(1 .. n, profiles)
  BY <1>3, <1>4, FS_Injection
<1>6. Range(s) = profiles
  BY <1>2, <1>5 DEF Surjection, Range
<1>7. Len(s) = n
  BY <1>1, <1>2
<1> QED
  BY <1>1, <1>2, <1>6, <1>7

-----------------------------------------------------------------------------
(* The support of a capability *)

\* One step of SupportAfter, for the function it computes.
SupportStep(selected, name, after) ==
  [n \in DOMAIN selected |->
     IF n = 1 THEN selected[1].capabilities[name]
     ELSE IF name \notin DOMAIN selected[n].capabilities THEN "unavailable"
     ELSE intersectSupport(after[n - 1], selected[n].capabilities[name])]

\* There is a function as SupportAfter defines it, by induction over the profiles.
LEMMA SupportExists ==
  ASSUME NEW k \in Nat, NEW selected, DOMAIN selected = 1 .. k, NEW name
  PROVE  \E after : after = SupportStep(selected, name, after)
<1> DEFINE Upto(m, after) ==
             after = [n \in 1 .. m |->
               IF n = 1 THEN selected[1].capabilities[name]
               ELSE IF name \notin DOMAIN selected[n].capabilities THEN "unavailable"
               ELSE intersectSupport(after[n - 1], selected[n].capabilities[name])]
           Defined == {m \in Nat : \E after : Upto(m, after)}
<1>1. 0 \in Defined
  <2>1. Upto(0, [n \in 1 .. 0 |-> n])
    OBVIOUS
  <2> QED
    BY <2>1
<1>2. ASSUME NEW m \in Nat, m \in Defined
      PROVE  m + 1 \in Defined
  <2>1. PICK after : Upto(m, after)
    BY <1>2
  <2> DEFINE next ==
               IF m + 1 = 1 THEN selected[1].capabilities[name]
               ELSE IF name \notin DOMAIN selected[m + 1].capabilities THEN "unavailable"
               ELSE intersectSupport(after[m], selected[m + 1].capabilities[name])
             longer == [n \in 1 .. (m + 1) |-> IF n = m + 1 THEN next ELSE after[n]]
  <2>2. Upto(m + 1, longer)
    <3>1. ASSUME NEW n \in 1 .. (m + 1)
          PROVE  longer[n] =
                   IF n = 1 THEN selected[1].capabilities[name]
                   ELSE IF name \notin DOMAIN selected[n].capabilities THEN "unavailable"
                   ELSE intersectSupport(longer[n - 1], selected[n].capabilities[name])
      <4>1. CASE n = m + 1
        <5>1. n = 1 \/ longer[n - 1] = after[m]
          BY <4>1
        <5> QED
          BY <4>1, <5>1
      <4>2. CASE n # m + 1
        <5>1. /\ n \in 1 .. m /\ longer[n] = after[n]
              /\ n = 1 \/ longer[n - 1] = after[n - 1]
          BY <4>2
        <5> HIDE DEF longer
        <5> QED
          BY <2>1, <5>1
      <4> QED
        BY <4>1, <4>2
    <3> QED
      BY <3>1
  <2> HIDE DEF longer, Upto
  <2> QED
    BY <2>2
<1>3. k \in Defined
  <2> HIDE DEF Defined
  <2> QED
    BY <1>1, <1>2, SetInduction
<1>4. PICK after : Upto(k, after)
  BY <1>3
<1>5. after = SupportStep(selected, name, after)
  BY <1>4 DEF SupportStep
<1> QED
  BY <1>5

\* SupportAfter is the last value of that function.
LEMMA SupportUnfolds ==
  ASSUME NEW k \in Nat, NEW selected, DOMAIN selected = 1 .. k, NEW name
  PROVE  \E after : /\ after = SupportStep(selected, name, after)
                    /\ SupportAfter(selected, name) = after[Len(selected)]
<1> DEFINE after == CHOOSE g : g = SupportStep(selected, name, g)
<1>1. after = SupportStep(selected, name, after)
  BY SupportExists
<1>2. SupportAfter(selected, name) = after[Len(selected)]
  BY Zenon DEF SupportAfter, SupportStep
<1> QED
  BY <1>1, <1>2

\* Pair by pair, the selected profiles come to what all of them have in common.
LEMMA SupportIsCommon ==
  ASSUME NEW k \in Nat \ {0}, NEW selected, DOMAIN selected = 1 .. k, Len(selected) = k,
         NEW name \in DOMAIN selected[1].capabilities,
         ~(name = "flux_interval_rates" /\ \E p, q \in Range(selected) : p # q)
  PROVE  SupportAfter(selected, name) = CommonSupport(Range(selected), name)
<1> DEFINE Lacks(i) == name \notin DOMAIN selected[i].capabilities
           support(i) == selected[i].capabilities[name]
           Common(n) ==
             IF \E i \in 1 .. n : Lacks(i) THEN "unavailable"
             ELSE IF \A i \in 1 .. n : support(i) = support(1) THEN support(1)
             ELSE IF \E i \in 1 .. n : support(i) = "unavailable" THEN "unavailable"
             ELSE "conditional"
<1>1. PICK after : /\ after = SupportStep(selected, name, after)
                   /\ SupportAfter(selected, name) = after[k]
  BY SupportUnfolds
<1>2. after[1] = support(1)
  BY <1>1 DEF SupportStep
<1>3. ASSUME NEW n \in 1 .. k, n # 1
      PROVE  after[n] = IF Lacks(n) THEN "unavailable"
                        ELSE intersectSupport(after[n - 1], support(n))
  BY <1>1, <1>3 DEF SupportStep
<1> DEFINE Right == {n \in Nat : n + 1 \in 1 .. k => after[n + 1] = Common(n + 1)}
<1>4. 0 \in Right
  <2>1. ~Lacks(1) /\ 1 .. 1 = {1}
    OBVIOUS
  <2>2. Common(1) = support(1)
    BY <2>1
  <2> HIDE DEF Common, support
  <2> QED
    BY <1>2, <2>2
<1>5. ASSUME NEW n \in Nat, n \in Right
      PROVE  n + 1 \in Right
  <2> SUFFICES ASSUME n + 2 \in 1 .. k
               PROVE  after[n + 2] = Common(n + 2)
    OBVIOUS
  <2>1. /\ n + 1 \in 1 .. k /\ n + 2 # 1 /\ (n + 2) - 1 = n + 1
        /\ 1 .. (n + 2) = 1 .. (n + 1) \cup {n + 2}
        /\ 1 \in 1 .. (n + 1)
    OBVIOUS
  <2>2. after[n + 1] = Common(n + 1)
    BY <1>5, <2>1
  <2>3. after[n + 2] = IF Lacks(n + 2) THEN "unavailable"
                       ELSE intersectSupport(Common(n + 1), support(n + 2))
    <3> HIDE DEF Common, support, Lacks
    <3> QED
      BY <1>3, <2>1, <2>2
  <2>4. /\ (\E i \in 1 .. (n + 2) : Lacks(i)) <=>
             (\E i \in 1 .. (n + 1) : Lacks(i)) \/ Lacks(n + 2)
        /\ (\A i \in 1 .. (n + 2) : support(i) = support(1)) <=>
             (\A i \in 1 .. (n + 1) : support(i) = support(1)) /\ support(n + 2) = support(1)
        /\ (\E i \in 1 .. (n + 2) : support(i) = "unavailable") <=>
             (\E i \in 1 .. (n + 1) : support(i) = "unavailable")
               \/ support(n + 2) = "unavailable"
    <3> HIDE DEF support, Lacks
    <3> QED
      BY <2>1
  <2>5. (\A i \in 1 .. (n + 1) : support(i) = support(1)) /\ support(1) = "unavailable" =>
          \E i \in 1 .. (n + 1) : support(i) = "unavailable"
    <3> HIDE DEF support
    <3> QED
      BY <2>1
  <2> HIDE DEF support, Lacks
  <2> QED
    BY <2>3, <2>4, <2>5 DEF intersectSupport
<1>6. SupportAfter(selected, name) = Common(k)
  <2>1. k - 1 \in Right
    <3> HIDE DEF Right
    <3> QED
      BY <1>4, <1>5, SetInduction
  <2> HIDE DEF Common
  <2> QED
    BY <1>1, <2>1
<1>7. Common(k) = CommonSupport(Range(selected), name)
  <2> DEFINE supports == {p.capabilities[name] : p \in Range(selected)}
  <2>1. (\E p \in Range(selected) : name \notin DOMAIN p.capabilities) <=>
          \E i \in 1 .. k : Lacks(i)
    BY DEF Range
  <2>2. supports = {support(i) : i \in 1 .. k}
    BY DEF Range
  <2>3. 1 \in 1 .. k
    OBVIOUS
  <2> HIDE DEF support, Lacks
  <2>4. /\ (\A s, t \in supports : s = t) <=> \A i \in 1 .. k : support(i) = support(1)
        /\ "unavailable" \in supports <=> \E i \in 1 .. k : support(i) = "unavailable"
    BY <2>2, <2>3
  <2>5. (\A s, t \in supports : s = t) => (CHOOSE s \in supports : TRUE) = support(1)
    BY <2>2, <2>3
  <2> HIDE DEF supports
  <2>6. CommonSupport(Range(selected), name) =
          IF \E i \in 1 .. k : Lacks(i) THEN "unavailable"
          ELSE IF \A s, t \in supports : s = t THEN CHOOSE s \in supports : TRUE
          ELSE IF "unavailable" \in supports THEN "unavailable"
          ELSE "conditional"
    BY <2>1 DEF CommonSupport, supports
  <2> QED
    BY <2>4, <2>5, <2>6
<1> QED
  BY <1>6, <1>7

-----------------------------------------------------------------------------
(* The resolution *)

\* A supported version has a well-formed profile.
LEMMA MatchIsProfile ==
  ASSUME RangesInOrder, NEW v, Matching(v) # {}
  PROVE  IsProfile(Match(v))
<1>1. Matching(v) \in SUBSET Nat /\ Matching(v) \subseteq DOMAIN catalog
  BY DEF RangesInOrder, Matching
<1>2. \E i \in Matching(v) : \A j \in Matching(v) : i <= j
  BY <1>1, LeastNatural
<1> DEFINE first == CHOOSE i \in Matching(v) : \A j \in Matching(v) : i <= j
<1>3. first \in Matching(v)
  BY <1>2
<1> HIDE DEF first
<1>4. IsProfile(catalog[first])
  BY <1>1, <1>3 DEF RangesInOrder
<1> QED
  BY <1>4 DEF Match, first

\* Resolve, of any inventory of supported versions.
LEMMA ResolveIsCommon ==
  ASSUME RangesInOrder, NEW versions \in [Nodes -> Versions], Supported(versions)
  PROVE  LET profiles == {Match(versions[n]) : n \in Nodes}
         IN  /\ Resolve(versions).ids = {p.id : p \in profiles}
             /\ \A name \in DOMAIN Resolve(versions).capabilities :
                  Resolve(versions).capabilities[name] = CommonSupport(profiles, name)
<1> DEFINE profiles == {Match(versions[n]) : n \in Nodes}
           selected == CHOOSE s \in Sorted(profiles) : TRUE
           k == Cardinality(profiles)
<1>1. /\ profiles = {Match(v) : v \in Range(versions)}
      /\ profiles # {}
      /\ \A p \in profiles : IsProfile(p)
  <2>1. \A n \in Nodes : versions[n] \in Range(versions) /\ Matching(versions[n]) # {}
    BY DEF Range, Supported
  <2>2. \A n \in Nodes : IsProfile(Match(versions[n]))
    BY <2>1, MatchIsProfile
  <2>3. profiles = {Match(v) : v \in Range(versions)}
    BY DEF Range
  <2> QED
    BY <2>2, <2>3, NodesAssumption
<1>2. IsFiniteSet(profiles)
  <2>1. IsFiniteSet(Range(versions))
    <3>1. Range(versions) \subseteq 0 .. MaxVersion
      BY DEF Range, Versions
    <3>2. IsFiniteSet(0 .. MaxVersion)
      <4>1. 0 \in Int /\ MaxVersion \in Int
        BY NodesAssumption
      <4> QED
        BY <4>1, FS_Interval
    <3> QED
      BY <3>1, <3>2, FS_Subset
  <2> DEFINE match == [v \in Range(versions) |-> Match(v)]
  <2>2. match \in Surjection(Range(versions), profiles)
    BY <1>1 DEF Surjection, Range
  <2> QED
    BY <2>1, <2>2, FS_Surjection
<1> HIDE DEF profiles
<1>3. selected \in Sorted(profiles)
  <2>1. \A p \in profiles : p.min \in Nat
    BY <1>1 DEF IsProfile
  <2>2. \E s : s \in Sorted(profiles)
    BY <1>2, <2>1, SortedExists
  <2> QED
    BY <2>2
<1> HIDE DEF selected
<1>4. /\ k \in Nat \ {0} /\ Len(selected) = k
      /\ DOMAIN selected = 1 .. k
      /\ Range(selected) = profiles
  BY <1>1, <1>2, <1>3, SortedRange, FS_EmptySet
<1>5. Len(selected) > 1 <=> \E p, q \in profiles : p # q
  <2>1. ASSUME k = 1, NEW p \in profiles, NEW q \in profiles
        PROVE  p = q
    BY <1>2, <2>1, FS_Singleton
  <2>2. ASSUME \A p, q \in profiles : p = q
        PROVE  k = 1
    <3>1. PICK p \in profiles : TRUE
      BY <1>1
    <3>2. profiles = {p}
      BY <2>2, <3>1
    <3> QED
      BY <3>2, FS_Singleton
  <2> QED
    BY <1>4, <2>1, <2>2
<1> DEFINE rates == IF Len(selected) > 1 THEN {"flux_interval_rates"} ELSE {}
           caps == [name \in DOMAIN selected[1].capabilities \cup rates |->
                      IF name \in rates THEN "unavailable" ELSE SupportAfter(selected, name)]
<1>6. /\ Resolve(versions).ids = {p.id : p \in Range(selected)}
      /\ Resolve(versions).capabilities = caps
  BY <1>1 DEF Resolve, selected
<1>7. ASSUME NEW name \in DOMAIN caps
      PROVE  caps[name] = CommonSupport(profiles, name)
  <2>1. CASE name \in rates
    <3>1. name = "flux_interval_rates" /\ \E p, q \in profiles : p # q
      BY <1>5, <2>1
    <3> QED
      BY <2>1, <3>1 DEF CommonSupport
  <2>2. CASE name \notin rates
    <3>1. name \in DOMAIN selected[1].capabilities
      BY <2>2
    <3>2. ~(name = "flux_interval_rates" /\ \E p, q \in profiles : p # q)
      BY <1>5, <2>2
    <3>3. SupportAfter(selected, name) = CommonSupport(profiles, name)
      BY <1>4, <3>1, <3>2, SupportIsCommon
    <3> QED
      BY <2>2, <3>3
  <2> QED
    BY <2>1, <2>2
<1> HIDE DEF caps
<1>8. /\ Resolve(versions).ids = {p.id : p \in profiles}
      /\ \A name \in DOMAIN Resolve(versions).capabilities :
           Resolve(versions).capabilities[name] = CommonSupport(profiles, name)
  BY <1>4, <1>6, <1>7
<1> QED
  BY <1>8 DEF profiles

-----------------------------------------------------------------------------
(* The theorems *)

\* The catalog does not change, the rest of the state keeps its types, and the resolution
\* is at any time that of one inventory.
THEOREM Invariance == Spec => []IInv
<1>1. Init => IInv
  <2> SUFFICES ASSUME Init PROVE IInv
    OBVIOUS
  <2>1. TypeOK
    BY DEF Init, TypeOK
  <2>2. RangesInOrder
    BY LoadedInOrder DEF Init, RangesInOrder
  <2>3. ResolutionInv
    BY DEF Init, ResolutionInv
  <2> QED
    BY <2>1, <2>2, <2>3 DEF IInv
<1>2. IInv /\ [Next]_vars => IInv'
  <2> SUFFICES ASSUME IInv, [Next]_vars PROVE IInv'
    OBVIOUS
  <2>1. catalog' = catalog
    BY DEF Next, vars, ChangeVersion, ReadInventory, ResolveError, CallError, SetResolution, Collect
  <2>2. RangesInOrder'
    BY <2>1 DEF IInv, RangesInOrder
  <2>3. TypeOK'
    BY DEF IInv, TypeOK, Next, vars, ChangeVersion, ReadInventory, ResolveError, CallError,
           SetResolution, Collect
  <2>4. ResolutionInv'
    <3>1. \A versions : /\ Supported(versions)' = Supported(versions)
                        /\ Resolve(versions)' = Resolve(versions)
      BY <2>1 DEF Supported, Resolve, Match, Matching
    <3>2. CASE SetResolution
      BY <3>1, <3>2 DEF IInv, TypeOK, SetResolution, ResolutionInv
    <3>3. CASE UNCHANGED <<resolution, resolved>>
      BY <3>1, <3>3 DEF IInv, ResolutionInv
    <3> QED
      BY <3>2, <3>3 DEF Next, vars, ChangeVersion, ReadInventory, ResolveError, CallError, Collect
  <2> QED
    BY <2>2, <2>3, <2>4 DEF IInv
<1> QED
  BY <1>1, <1>2, PTL DEF Spec

\* For every directory that LoadDir accepts, Catalog.Match has at most one profile to
\* choose from.
THEOREM MatchCorrect == Spec => []MatchIsUnique
<1>1. IInv => MatchIsUnique
  <2> SUFFICES ASSUME IInv, NEW v \in Versions, NEW i \in Matching(v), NEW j \in Matching(v)
               PROVE  i = j
    BY DEF MatchIsUnique
  <2>1. /\ i \in DOMAIN catalog /\ j \in DOMAIN catalog
        /\ catalog[i].min <= v /\ v < catalog[i].max
        /\ catalog[j].min <= v /\ v < catalog[j].max
    BY DEF Matching, Supports
  <2>2. /\ i \in Nat /\ j \in Nat
        /\ IsProfile(catalog[i]) /\ IsProfile(catalog[j])
        /\ i < j => catalog[i].max <= catalog[j].min
        /\ j < i => catalog[j].max <= catalog[i].min
    BY <2>1 DEF IInv, RangesInOrder
  <2>3. v \in Nat
    BY NodesAssumption DEF Versions
  <2> QED
    BY <2>1, <2>2, <2>3 DEF IsProfile
<1> QED
  BY <1>1, Invariance, PTL

\* Whatever the order and the number of the profiles in a mixture, the resolution has their
\* ids and what they have in common.
THEOREM MeetCorrect == Spec => []ResolutionIsMeet
<1>1. IInv => ResolutionIsMeet
  BY ResolveIsCommon DEF IInv, ResolutionInv, ResolutionIsMeet
<1> QED
  BY <1>1, Invariance, PTL

\* In a mixture of any versions the runner asks no node for a capability that the profile of
\* its version would not have it ask for.
THEOREM SharedCorrect == Spec => []OnlySharedEnabled
<1>1. IInv => OnlySharedEnabled
  <2> SUFFICES ASSUME IInv, resolution # NoResolution, NEW n \in Nodes,
                      NEW name \in Enabled(resolution.capabilities)
               PROVE  name \in Enabled(Match(resolved[n]).capabilities)
    BY DEF OnlySharedEnabled
  <2> DEFINE profiles == {Match(resolved[m]) : m \in Nodes}
             mine == Match(resolved[n])
             support == resolution.capabilities[name]
  <2>1. support = CommonSupport(profiles, name)
    BY ResolveIsCommon DEF IInv, ResolutionInv, Enabled
  <2>2. support # "unavailable"
    BY DEF Enabled
  <2>3. mine \in profiles /\ IsProfile(mine)
    <3>1. Matching(resolved[n]) # {}
      BY DEF IInv, ResolutionInv, Supported, Range
    <3> QED
      BY <3>1, MatchIsProfile DEF IInv
  <2> HIDE DEF profiles, mine, support
  <2> DEFINE supports == {p.capabilities[name] : p \in profiles}
  <2>4. name \in DOMAIN mine.capabilities /\ mine.capabilities[name] \in supports
    BY <2>1, <2>2, <2>3 DEF CommonSupport
  <2>5. mine.capabilities[name] \in Support
    BY <2>3, <2>4 DEF IsProfile
  <2>6. CASE \A s, t \in supports : s = t
    <3>1. support = CHOOSE s \in supports : TRUE
      BY <2>1, <2>2, <2>6 DEF CommonSupport
    <3>2. support = mine.capabilities[name]
      BY <2>4, <2>6, <3>1
    <3> QED
      BY <2>4, <3>2 DEF Enabled, support, mine
  <2>7. CASE ~\A s, t \in supports : s = t
    <3>1. support = "conditional" /\ "unavailable" \notin supports
      BY <2>1, <2>2, <2>7 DEF CommonSupport
    <3>2. name \in EnabledConditional
      BY <3>1 DEF Enabled, support
    <3>3. mine.capabilities[name] # "unavailable"
      BY <2>4, <3>1
    <3> QED
      BY <2>4, <2>5, <3>2, <3>3 DEF Enabled, Support, mine
  <2> QED
    BY <2>6, <2>7
<1> QED
  BY <1>1, Invariance, PTL

=============================================================================
