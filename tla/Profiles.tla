------------------------------ MODULE Profiles ------------------------------
(***************************************************************************)
(* The compatibility profiles of ECS versions (internal/profile/catalog.go,*)
(* profile.go, version.go) and the resolution of one cluster, which        *)
(* Bootstrap and CollectNodes (internal/collector/runner.go) renew while   *)
(* the nodes of the cluster are upgraded one after the other.              *)
(*                                                                         *)
(* A version is a number: the order of the four parts, without the suffix. *)
(***************************************************************************)
EXTENDS Naturals, Sequences, FiniteSets, Functions

CONSTANTS
  Nodes,               \* the nodes of the cluster
  MaxVersion,          \* bound: the last version ECS has
  Directories,         \* what the profiles directory may hold: sets of profiles
  EnabledConditional,  \* config: capabilities.enabled_conditional
  NoResolution         \* the zero Resolution: no profile id

Versions == 0 .. MaxVersion
Support == {"native", "derived", "conditional", "unavailable"}

\* What loadProfile lets through (Profile.validate): a range that is not empty, and known
\* kinds of support.
IsProfile(p) ==
  /\ p.min \in Nat /\ p.max \in Nat /\ p.min < p.max
  /\ \A name \in DOMAIN p.capabilities : p.capabilities[name] \in Support

ASSUME NodesAssumption == Nodes # {} /\ MaxVersion \in Nat
ASSUME DirectoriesAssumption ==
  \A files \in Directories : files # {} /\ IsFiniteSet(files) /\ \A p \in files : IsProfile(p)

VARIABLES
  catalog,      \* Catalog.profiles
  version,      \* the version each node runs
  inventory,    \* node versions that a Bootstrap or CollectNodes has read, or <<>>
  resolution,   \* Runner.resolution
  resolved,     \* the node versions the resolution was made for
  rejected,     \* the last inventory that was read was not resolved
  asked         \* the capabilities that another collector last found enabled

vars == <<catalog, version, inventory, resolution, resolved, rejected, asked>>

-----------------------------------------------------------------------------
(* The catalog *)

\* Any order by the lower end of the range; slices.SortFunc does not keep the order of
\* equal elements.
Sorted(profiles) ==
  {s \in [1 .. Cardinality(profiles) -> profiles] :
     IsInjective(s) /\ \A i, j \in DOMAIN s : i < j => s[i].min <= s[j].min}

\* Deviation: only the lower ends are compared.
DistinctStarts(s) == \A i \in DOMAIN s : i > 1 => s[i].min # s[i - 1].min

\* Neighbours do not overlap.
Disjoint(s) == \A i \in DOMAIN s : i > 1 => s[i].min >= s[i - 1].max

\* LoadDir.
LoadDir(files) ==
  {s \in Sorted(files) :
     /\ \A p, q \in files : p.id = q.id => p = q
     /\ Disjoint(s)}

Supports(p, v) == p.min <= v /\ v < p.max

Matching(v) == {i \in DOMAIN catalog : Supports(catalog[i], v)}

\* Catalog.Match: the first profile that supports the version.
Match(v) == catalog[CHOOSE i \in Matching(v) : \A j \in Matching(v) : i <= j]

-----------------------------------------------------------------------------
(* The resolution *)

\* Deviation: what one profile lacks the other may bring.
UnionSupport(left, right) ==
  IF left = right THEN left ELSE "conditional"

intersectSupport(left, right) ==
  IF left = right THEN left
  ELSE IF "unavailable" \in {left, right} THEN "unavailable"
  ELSE "conditional"

\* The support of a capability after the first n of the selected profiles.
SupportAfter(selected, name) ==
  LET after[n \in DOMAIN selected] ==
        IF n = 1 THEN selected[1].capabilities[name]
        ELSE IF name \notin DOMAIN selected[n].capabilities THEN "unavailable"
        ELSE intersectSupport(after[n - 1], selected[n].capabilities[name])
  IN  after[Len(selected)]

\* Deviation: rates are kept where all profiles have them.
ResolveWithRates(versions) ==
  LET selected == CHOOSE s \in Sorted({Match(v) : v \in Range(versions)}) : TRUE
  IN  [ids |-> {p.id : p \in Range(selected)},
       mixed |-> Len(selected) > 1,
       capabilities |-> [name \in DOMAIN selected[1].capabilities |->
                           SupportAfter(selected, name)]]

\* Catalog.Resolve of versions that all have a profile: the capabilities of the lowest
\* profile, as far as the others support them; interval rates only without a mixture.
Resolve(versions) ==
  LET selected == CHOOSE s \in Sorted({Match(v) : v \in Range(versions)}) : TRUE
      mixed == Len(selected) > 1
      rates == IF mixed THEN {"flux_interval_rates"} ELSE {}
  IN  [ids |-> {p.id : p \in Range(selected)},
       mixed |-> mixed,
       capabilities |-> [name \in DOMAIN selected[1].capabilities \cup rates |->
                           IF name \in rates THEN "unavailable"
                           ELSE SupportAfter(selected, name)]]

Supported(versions) == \A v \in Range(versions) : Matching(v) # {}

\* Runner.capabilityEnabledFor.
Enabled(capabilities) ==
  {name \in DOMAIN capabilities :
     \/ capabilities[name] \in {"native", "derived"}
     \/ capabilities[name] = "conditional" /\ name \in EnabledConditional}

-----------------------------------------------------------------------------
Init ==
  /\ \E files \in Directories : catalog \in LoadDir(files)
  /\ version \in [Nodes -> Versions]
  /\ inventory = <<>>
  /\ resolution = NoResolution
  /\ resolved = <<>>
  /\ rejected = FALSE
  /\ asked = {}

\* A node is upgraded, downgraded or replaced by one of any other version.
ChangeVersion(n) ==
  /\ \E v \in Versions \ {version[n]} : version' = [version EXCEPT ![n] = v]
  /\ UNCHANGED <<catalog, inventory, resolution, resolved, rejected, asked>>

\* Bootstrap and CollectNodes read the node list ...
ReadInventory ==
  /\ inventory = <<>>
  /\ inventory' = version
  /\ UNCHANGED <<catalog, version, resolution, resolved, rejected, asked>>

\* ... an unknown version ends them ...
ResolveError ==
  /\ inventory # <<>>
  /\ ~Supported(inventory)
  /\ inventory' = <<>>
  /\ rejected' = TRUE
  /\ UNCHANGED <<catalog, version, resolution, resolved, asked>>

\* ... as does any call that follows ...
CallError ==
  /\ inventory # <<>>
  /\ Supported(inventory)
  /\ inventory' = <<>>
  /\ UNCHANGED <<catalog, version, resolution, resolved, rejected, asked>>

\* Deviation: only Bootstrap sets the resolution.
SetOnce ==
  /\ inventory # <<>>
  /\ Supported(inventory)
  /\ inventory' = <<>>
  /\ IF resolution = NoResolution
     THEN resolution' = Resolve(inventory) /\ resolved' = inventory
     ELSE UNCHANGED <<resolution, resolved>>
  /\ rejected' = FALSE
  /\ UNCHANGED <<catalog, version, asked>>

\* ... and the resolution becomes visible.
SetResolution ==
  /\ inventory # <<>>
  /\ Supported(inventory)
  /\ inventory' = <<>>
  /\ resolution' = Resolve(inventory)
  /\ resolved' = inventory
  /\ rejected' = FALSE
  /\ UNCHANGED <<catalog, version, asked>>

\* Another collector, past ensureBootstrap: it asks for what the resolution enables.
Collect ==
  /\ resolution # NoResolution
  /\ asked' = Enabled(resolution.capabilities)
  /\ UNCHANGED <<catalog, version, inventory, resolution, resolved, rejected>>

Next ==
  \/ \E n \in Nodes : ChangeVersion(n)
  \/ ReadInventory \/ ResolveError \/ CallError \/ SetResolution
  \/ Collect

Spec == Init /\ [][Next]_vars

\* The node collector runs again and again, and so often do its calls succeed.
Fairness ==
  /\ WF_vars(ReadInventory)
  /\ WF_vars(ResolveError)
  /\ SF_vars(SetResolution)

FairSpec == Spec /\ Fairness

-----------------------------------------------------------------------------
(* Properties *)

TypeOK ==
  /\ version \in [Nodes -> Versions]
  /\ inventory \in [Nodes -> Versions] \cup {<<>>}
  /\ resolved \in [Nodes -> Versions] \cup {<<>>}
  /\ rejected \in BOOLEAN

\* Every profile of the catalog is a proper range and ends before all later ones begin.
RangesInOrder ==
  \A i, j \in DOMAIN catalog :
    /\ i \in Nat /\ IsProfile(catalog[i])
    /\ i < j => catalog[i].max <= catalog[j].min

\* The resolution that readers see is that of one inventory, never of two.
ResolutionInv ==
  resolution # NoResolution =>
    /\ resolved \in [Nodes -> Versions]
    /\ Supported(resolved)
    /\ resolution = Resolve(resolved)

\* The inductive invariant (LoadDir and what the actions keep of it).
IInv == TypeOK /\ RangesInOrder /\ ResolutionInv

\* LoadDir compares neighbours only: even so no version has two profiles, so that
\* Catalog.Match may take the first it finds.
MatchIsUnique == \A v \in Versions : \A i, j \in Matching(v) : i = j

\* In the middle of a rolling upgrade the runner asks for nothing that the profile of
\* one of the nodes would not have it ask for.
OnlySharedEnabled ==
  resolution # NoResolution =>
    \A n \in Nodes :
      Enabled(resolution.capabilities) \subseteq Enabled(Match(resolved[n]).capabilities)

\* What several profiles have in common: the support all of them agree on, nothing where one
\* has nothing, conditional support otherwise, never interval rates of a mixture.
CommonSupport(profiles, name) ==
  LET supports == {p.capabilities[name] : p \in profiles}
  IN  IF \/ \E p \in profiles : name \notin DOMAIN p.capabilities
         \/ name = "flux_interval_rates" /\ \E p, q \in profiles : p # q
      THEN "unavailable"
      ELSE IF \A s, t \in supports : s = t THEN CHOOSE s \in supports : TRUE
      ELSE IF "unavailable" \in supports THEN "unavailable"
      ELSE "conditional"

\* Resolve goes through the profiles pair by pair; what comes out does not depend on the
\* order: the profile of every node and no other, and what they have in common.
ResolutionIsMeet ==
  resolution # NoResolution =>
    LET profiles == {Match(resolved[n]) : n \in Nodes}
    IN  /\ resolution.ids = {p.id : p \in profiles}
        /\ \A name \in DOMAIN resolution.capabilities :
             resolution.capabilities[name] = CommonSupport(profiles, name)

\* When the nodes have come to supported versions for good, the resolution ends up being
\* that of these versions.
ResolutionFollows ==
  \A versions \in [Nodes -> Versions] :
    <>[](version = versions /\ Supported(versions)) => <>[](resolved = versions)

\* README.md: a cluster whose nodes report an unsupported version stops collecting.
UnsupportedStops == [][asked' # asked => ~rejected]_vars

=============================================================================
