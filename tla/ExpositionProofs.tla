-------------------------- MODULE ExpositionProofs --------------------------
(***************************************************************************)
(* Theorems about Exposition, for every set of clusters and collectors and *)
(* every staleTolerance and maxStale that Config.Validate lets through.    *)
(***************************************************************************)
EXTENDS Exposition, TLAPS

\* Older keeps ages apart: it is monotone and never makes "never" of a known age.
LEMMA OlderProps ==
  ASSUME NEW a \in Ages, NEW b \in Ages
  PROVE  /\ Older(a) \in Ages
         /\ a <= b => Older(a) <= Older(b)
         /\ Older(a) = Never <=> a = Never
BY ToleranceAssumption DEF Older, Ages, Never

\* Ages are numbers, and 0 and Never are ages.
LEMMA AgesType == Ages \subseteq Nat /\ 0 \in Ages /\ Never \in Ages
BY ToleranceAssumption DEF Ages, Never

\* The inductive invariant holds of an empty store.
LEMMA InitIInv == Init => IInv
<1> SUFFICES ASSUME Init
             PROVE  IInv
  OBVIOUS
<1>1. TypeOK
  BY AgesType DEF Init, TypeOK, Phases
<1>2. PublishedInv
  BY DEF Init, PublishedInv
<1>3. CollectedInv
  BY DEF Init, CollectedInv
<1>4. SourceInv
  BY DEF Init, SourceInv
<1>5. QED
  BY <1>1, <1>2, <1>3, <1>4 DEF IInv

\* Every step keeps the types.
LEMMA TypeStep == TypeOK /\ [Next]_vars => TypeOK'
<1> SUFFICES ASSUME TypeOK, [Next]_vars
             PROVE  TypeOK'
  OBVIOUS
<1> USE AgesType DEF TypeOK, Phases, data
<1>1. CASE Tick
  BY <1>1, OlderProps DEF Tick
<1>2. ASSUME NEW k \in Clusters, Outage(k)
      PROVE  TypeOK'
  BY <1>2 DEF Outage
<1>3. ASSUME NEW k \in Clusters, NEW c \in Collectors, Start(k, c)
      PROVE  TypeOK'
  BY <1>3 DEF Start
<1>4. ASSUME NEW k \in Clusters, NEW c \in Collectors, Resolve(k, c)
      PROVE  TypeOK'
  BY <1>4, ResolutionsAssumption DEF Resolve
<1>5. ASSUME NEW k \in Clusters, NEW c \in Collectors, BootstrapReplaceNodes(k, c)
      PROVE  TypeOK'
  BY <1>5 DEF BootstrapReplaceNodes
<1>6. ASSUME NEW k \in Clusters, NEW c \in Collectors, Publish(k, c)
      PROVE  TypeOK'
  <2>1. enabled' \in [Clusters -> Resolutions \cup {{}}]
    BY <1>6, ResolutionsAssumption DEF Publish
  <2>2. collected' \in [Clusters -> [Kinds -> Ages]]
    BY <1>6 DEF Publish
  <2>3. healthy' \in [Clusters -> BOOLEAN]
    BY <1>6 DEF Publish, ParseClusterHealth
  <2>4. phase' \in [Clusters -> [Collectors -> Phases]]
    BY <1>6 DEF Publish
  <2>5. QED
    BY <1>6, <2>1, <2>2, <2>3, <2>4 DEF Publish
<1>7. ASSUME NEW k \in Clusters, NEW c \in Collectors, FinishError(k, c)
      PROVE  TypeOK'
  BY <1>7 DEF FinishError
<1>8. ASSUME NEW k \in Clusters, NEW c \in Collectors, FinishSkipped(k, c)
      PROVE  TypeOK'
  BY <1>8 DEF FinishSkipped
<1>9. ASSUME NEW k \in Clusters, NEW c \in Collectors, FinishSuccess(k, c)
      PROVE  TypeOK'
  BY <1>9 DEF FinishSuccess
<1>10. CASE UNCHANGED vars
  BY <1>10 DEF vars
<1>11. QED
  BY <1>1, <1>2, <1>3, <1>4, <1>5, <1>6, <1>7, <1>8, <1>9, <1>10 DEF Next

\* A publication renews at least what all publications of its collector renew.
LEMMA PublishRenews ==
  ASSUME TypeOK, NEW k \in Clusters, NEW c \in Collectors, Publish(k, c)
  PROVE  Kinds \cap AlwaysRenews(c) \subseteq Renews(k, c)
<1>1. CASE c = "node-resources"
  <2>1. enabled[k] \cap ResourceCaps # {}
    BY <1>1 DEF Publish, Enabled, Gate, ResourceCaps
  <2>2. enabled[k] \in Resolutions
    BY <2>1 DEF TypeOK
  <2>3. QED
    BY <1>1, <2>1, <2>2 DEF AlwaysRenews, Renews
<1>2. CASE c # "node-resources"
  BY <1>2 DEF AlwaysRenews, Renews
<1>3. QED
  BY <1>1, <1>2

\* The collectors that may renew a value are its sources.
LEMMA RenewsSources ==
  ASSUME NEW k \in Clusters, NEW c \in Collectors, NEW v \in Kinds, v \in Renews(k, c)
  PROVE  c \in Sources(v)
BY CollectorsAssumption
   DEF Renews, Sources, Kinds, Required, ResourceCaps, AllCollectors

\* Every step keeps what has just been published as young as it is.
LEMMA PublishedStep == TypeOK /\ PublishedInv /\ [Next]_vars => PublishedInv'
<1> SUFFICES ASSUME TypeOK, PublishedInv, [Next]_vars,
                    NEW d \in Clusters, NEW e \in Collectors, phase'[d][e] = "published",
                    NEW v \in Kinds \cap AlwaysRenews(e)
             PROVE  collected'[d][v] \in {0, Never}
  BY DEF PublishedInv
<1> USE DEF TypeOK, data
<1>a. phase[d][e] = "published" => collected[d][v] \in {0, Never}
  BY DEF PublishedInv
<1>1. CASE Tick
  BY <1>1 DEF Tick
<1>2. ASSUME NEW k \in Clusters, Outage(k)
      PROVE  collected'[d][v] \in {0, Never}
  BY <1>2, <1>a DEF Outage
<1>3. ASSUME NEW k \in Clusters, NEW c \in Collectors, Start(k, c)
      PROVE  collected'[d][v] \in {0, Never}
  BY <1>3, <1>a DEF Start
<1>4. ASSUME NEW k \in Clusters, NEW c \in Collectors, Resolve(k, c)
      PROVE  collected'[d][v] \in {0, Never}
  BY <1>4, <1>a DEF Resolve
<1>5. ASSUME NEW k \in Clusters, NEW c \in Collectors, BootstrapReplaceNodes(k, c)
      PROVE  collected'[d][v] \in {0, Never}
  BY <1>5, <1>a DEF BootstrapReplaceNodes
<1>6. ASSUME NEW k \in Clusters, NEW c \in Collectors, Publish(k, c)
      PROVE  collected'[d][v] \in {0, Never}
  <2>1. collected'[d][v] = 0 \/ collected'[d][v] = collected[d][v]
    BY <1>6 DEF Publish
  <2>2. CASE d = k /\ e = c
    <3>1. v \in Renews(k, c)
      BY <1>6, <2>2, PublishRenews
    <3>2. QED
      BY <1>6, <2>2, <3>1 DEF Publish
  <2>3. CASE ~(d = k /\ e = c)
    <3>1. phase[d][e] = "published"
      BY <1>6, <2>3 DEF Publish
    <3>2. QED
      BY <1>a, <2>1, <3>1
  <2>4. QED
    BY <2>2, <2>3
<1>7. ASSUME NEW k \in Clusters, NEW c \in Collectors,
             FinishError(k, c) \/ FinishSkipped(k, c)
      PROVE  collected'[d][v] \in {0, Never}
  BY <1>7, <1>a DEF FinishError, FinishSkipped
<1>8. ASSUME NEW k \in Clusters, NEW c \in Collectors, FinishSuccess(k, c)
      PROVE  collected'[d][v] \in {0, Never}
  BY <1>8, <1>a DEF FinishSuccess
<1>9. CASE UNCHANGED vars
  BY <1>9, <1>a DEF vars
<1>10. QED
  BY <1>1, <1>2, <1>3, <1>4, <1>5, <1>6, <1>7, <1>8, <1>9 DEF Next

\* No step makes a value older than a success of a collector that always renews it: time
\* adds to both, and a success follows a publication.
LEMMA CollectedStep ==
  TypeOK /\ PublishedInv /\ CollectedInv /\ [Next]_vars => CollectedInv'
<1> SUFFICES ASSUME TypeOK, PublishedInv, CollectedInv, [Next]_vars,
                    NEW d \in Clusters, NEW e \in Collectors,
                    NEW v \in Kinds \cap AlwaysRenews(e), collected'[d][v] # Never
             PROVE  collected'[d][v] <= success'[d][e]
  BY DEF CollectedInv
<1> USE DEF TypeOK, data
<1>a. collected[d][v] # Never => collected[d][v] <= success[d][e]
  BY DEF CollectedInv
<1>b. collected[d][v] \in Ages /\ success[d][e] \in Ages
  OBVIOUS
<1>1. CASE Tick
  <2>1. /\ collected'[d][v] = Older(collected[d][v])
        /\ success'[d][e] = Older(success[d][e])
    BY <1>1 DEF Tick
  <2>2. collected[d][v] # Never
    BY <2>1, <1>b, OlderProps
  <2>3. QED
    BY <1>a, <1>b, <2>1, <2>2, OlderProps
<1>2. ASSUME NEW k \in Clusters, Outage(k)
      PROVE  collected'[d][v] <= success'[d][e]
  BY <1>2, <1>a DEF Outage
<1>3. ASSUME NEW k \in Clusters, NEW c \in Collectors, Start(k, c)
      PROVE  collected'[d][v] <= success'[d][e]
  BY <1>3, <1>a DEF Start
<1>4. ASSUME NEW k \in Clusters, NEW c \in Collectors, Resolve(k, c)
      PROVE  collected'[d][v] <= success'[d][e]
  BY <1>4, <1>a DEF Resolve
<1>5. ASSUME NEW k \in Clusters, NEW c \in Collectors, BootstrapReplaceNodes(k, c)
      PROVE  collected'[d][v] <= success'[d][e]
  <2>1. collected'[d][v] = collected[d][v] /\ success' = success
    BY <1>5 DEF BootstrapReplaceNodes
  <2>2. QED
    BY <1>a, <2>1
<1>6. ASSUME NEW k \in Clusters, NEW c \in Collectors, Publish(k, c)
      PROVE  collected'[d][v] <= success'[d][e]
  <2>1. success' = success
    BY <1>6 DEF Publish
  <2>2. collected'[d][v] = 0 \/ collected'[d][v] = collected[d][v]
    BY <1>6 DEF Publish
  <2>3. 0 <= success[d][e]
    BY <1>b DEF Ages
  <2>4. QED
    BY <1>a, <2>1, <2>2, <2>3
<1>7. ASSUME NEW k \in Clusters, NEW c \in Collectors,
             FinishError(k, c) \/ FinishSkipped(k, c)
      PROVE  collected'[d][v] <= success'[d][e]
  BY <1>7, <1>a DEF FinishError, FinishSkipped
<1>8. ASSUME NEW k \in Clusters, NEW c \in Collectors, FinishSuccess(k, c)
      PROVE  collected'[d][v] <= success'[d][e]
  <2>1. collected' = collected
    BY <1>8 DEF FinishSuccess
  <2>2. CASE d = k /\ e = c
    <3>1. collected[d][v] = 0
      BY <1>8, <2>1, <2>2 DEF FinishSuccess, PublishedInv
    <3>2. success'[d][e] = 0
      BY <1>8, <2>2 DEF FinishSuccess
    <3>3. QED
      BY <2>1, <3>1, <3>2
  <2>3. CASE ~(d = k /\ e = c)
    <3>1. success'[d][e] = success[d][e]
      BY <1>8, <2>3 DEF FinishSuccess
    <3>2. QED
      BY <1>a, <2>1, <3>1
  <2>4. QED
    BY <2>2, <2>3
<1>9. CASE UNCHANGED vars
  BY <1>9, <1>a DEF vars
<1>10. QED
  BY <1>1, <1>2, <1>3, <1>4, <1>5, <1>6, <1>7, <1>8, <1>9 DEF Next

\* A value that is new in the cache has been published by one of its sources, which has
\* begun.
LEMMA SourceStep == TypeOK /\ SourceInv /\ [Next]_vars => SourceInv'
<1> SUFFICES ASSUME TypeOK, SourceInv, [Next]_vars,
                    NEW d \in Clusters, NEW v \in Kinds, collected'[d][v] # Never
             PROVE  \E e \in Sources(v) \cap Collectors : phase'[d][e] # "unstarted"
  BY DEF SourceInv
<1> DEFINE Begun == \E e \in Sources(v) \cap Collectors : phase'[d][e] # "unstarted"
<1> USE DEF TypeOK, data
<1>a. collected[d][v] # Never =>
        \E e \in Sources(v) \cap Collectors : phase[d][e] # "unstarted"
  BY DEF SourceInv
<1>b. ASSUME NEW e \in Collectors, phase[d][e] # "unstarted"
      PROVE  phase'[d][e] # "unstarted"
  <2>1. CASE UNCHANGED phase
    BY <1>b, <2>1
  <2>2. ASSUME NEW k \in Clusters, NEW c \in Collectors,
               Start(k, c) \/ Publish(k, c) \/ FinishSuccess(k, c)
        PROVE  phase'[d][e] # "unstarted"
    BY <1>b, <2>2 DEF Start, Publish, FinishSuccess
  <2>3. QED
    BY <2>1, <2>2
       DEF Next, vars, Tick, Outage, Resolve, BootstrapReplaceNodes, FinishError, FinishSkipped
<1>c. collected[d][v] # Never => Begun
  BY <1>a, <1>b
<1>1. CASE Tick
  <2>1. collected'[d][v] = Older(collected[d][v])
    BY <1>1 DEF Tick
  <2>2. QED
    BY <1>c, <2>1, OlderProps
<1>2. ASSUME NEW k \in Clusters, NEW c \in Collectors, BootstrapReplaceNodes(k, c)
      PROVE  Begun
  <2>1. collected'[d][v] = collected[d][v]
    BY <1>2 DEF BootstrapReplaceNodes
  <2>2. QED
    BY <1>c, <2>1
<1>3. ASSUME NEW k \in Clusters, NEW c \in Collectors, Publish(k, c)
      PROVE  Begun
  <2>1. CASE d = k /\ v \in Renews(k, c)
    <3>1. phase'[d][c] = "published"
      BY <1>3, <2>1 DEF Publish
    <3>2. c \in Sources(v)
      BY <2>1, RenewsSources
    <3>3. QED
      BY <3>1, <3>2
  <2>2. CASE ~(d = k /\ v \in Renews(k, c))
    <3>1. collected'[d][v] = collected[d][v]
      BY <1>3, <2>2 DEF Publish
    <3>2. QED
      BY <1>c, <3>1
  <2>3. QED
    BY <2>1, <2>2
<1>4. CASE UNCHANGED collected
  BY <1>4, <1>c
<1>5. QED
  BY <1>1, <1>2, <1>3, <1>4
     DEF Next, vars, Outage, Start, Resolve, FinishError, FinishSkipped, FinishSuccess

\* Every step keeps the inductive invariant.
LEMMA StepIInv == IInv /\ [Next]_vars => IInv'
BY TypeStep, PublishedStep, CollectedStep, SourceStep DEF IInv

\* A scrape at any moment shows no value that was published more than MaxStale ago and
\* that somebody is bound to renew, whichever collectors carried it over or wrote it.
LEMMA CurrentIfIInv == IInv => ExposedIsCurrent
<1> SUFFICES ASSUME IInv,
                    NEW k \in Clusters, NEW v \in Exposed(k), v \notin Unattended(k)
             PROVE  collected[k][v] <= MaxStale
  BY DEF ExposedIsCurrent
<1>1. v \in Kinds /\ collected[k][v] # Never /\ \A c \in Domains(v) : domainFresh(k, c)
  BY DEF Exposed
<1>2. PICK c \in Collectors : /\ c \in Domains(v) /\ v \in AlwaysRenews(c)
                              /\ phase[k][c] # "unstarted"
  <2>1. PICK e \in Sources(v) \cap Collectors : phase[k][e] # "unstarted"
    BY <1>1 DEF IInv, SourceInv
  <2>2. CASE v \in ResourceCaps
    <3>1. v \in AlwaysRenews("node-resources")
      BY <2>2 DEF Unattended
    <3>2. Sources(v) = {"node-resources"} /\ "node-resources" \in Domains(v)
      BY <2>2 DEF Sources, Domains, ResourceCaps
    <3>3. QED
      BY <2>1, <3>1, <3>2
  <2>3. CASE v = "replication"
    <3>1. v \in Collectors /\ phase[k][v] # "unstarted"
      BY <2>3 DEF Unattended
    <3>2. QED
      BY <2>3, <3>1 DEF Domains, AlwaysRenews, ResourceCaps
  <2>4. CASE v = "recovery"
    BY <2>1, <2>4 DEF Sources, Domains, AlwaysRenews, ResourceCaps
  <2>5. CASE v \in Required
    BY <2>1, <2>5 DEF Sources, Domains, AlwaysRenews, ResourceCaps, Required
  <2>6. QED
    BY <1>1, <2>2, <2>3, <2>4, <2>5 DEF Kinds
<1>3. collected[k][v] <= success[k][c]
  BY <1>1, <1>2 DEF IInv, CollectedInv
<1>4. success[k][c] <= MaxStale
  BY <1>1, <1>2 DEF domainFresh
<1>5. /\ collected[k][v] \in Nat /\ success[k][c] \in Nat /\ MaxStale \in Nat
  BY <1>1, AgesType, ToleranceAssumption DEF IInv, TypeOK
<1>6. QED
  BY <1>3, <1>4, <1>5

\* A status other than DOWN speaks for every required domain.
LEMMA ReadyIfIInv == IInv => ReadyIsCurrent
<1> SUFFICES ASSUME IInv,
                    NEW k \in Clusters, evaluateCluster(k) # "DOWN",
                    NEW c \in Required
             PROVE  /\ domainFresh(k, c)
                    /\ collected[k][c] # Never =>
                         collected[k][c] <= (IF evaluateCluster(k) = "UP"
                                             THEN StaleTolerance ELSE MaxStale)
  BY DEF ReadyIsCurrent
<1> DEFINE age(r) == IF r \in Collectors THEN success[k][r] ELSE Never
<1>1. \A r \in Required : age(r) \in Nat
  BY AgesType DEF IInv, TypeOK
<1>2. StaleTolerance \in Nat /\ MaxStale \in Nat /\ Never > MaxStale
  BY ToleranceAssumption DEF Never
<1>3. ~(\E r \in Required : age(r) > MaxStale)
  BY DEF evaluateCluster
<1>4. evaluateCluster(k) = "UP" => ~(\E r \in Required : age(r) > StaleTolerance)
  BY DEF evaluateCluster
<1>5. c \in Collectors /\ success[k][c] <= MaxStale
  BY <1>1, <1>2, <1>3
<1>6. evaluateCluster(k) = "UP" => success[k][c] <= StaleTolerance
  BY <1>1, <1>2, <1>4, <1>5
<1>7. domainFresh(k, c)
  BY <1>5 DEF domainFresh
<1>8. ASSUME collected[k][c] # Never
      PROVE  collected[k][c] <= success[k][c]
  <2>1. c \in Kinds /\ c \in AlwaysRenews(c)
    BY DEF Kinds, AlwaysRenews, Required
  <2>2. QED
    BY <1>5, <1>8, <2>1 DEF IInv, CollectedInv
<1>9. collected[k][c] \in Nat /\ success[k][c] \in Nat
  BY <1>5, AgesType DEF IInv, TypeOK, Kinds
<1>10. QED
  BY <1>2, <1>5, <1>6, <1>7, <1>8, <1>9

\* The inductive invariant: types, where a cached value comes from and what age it can
\* have beside the success times.
THEOREM Invariance == Spec => []IInv
BY InitIInv, StepIInv, PTL DEF Spec

\* README.md's promise that only unexpired values are exposed, for every setting and every
\* value but those that no collector is bound to renew at that time.
THEOREM ExposedCurrent == Spec => []ExposedIsCurrent
BY Invariance, CurrentIfIInv, PTL

\* Readiness never promises more than /metrics delivers, for every setting.
THEOREM ReadyCurrent == Spec => []ReadyIsCurrent
BY Invariance, ReadyIfIInv, PTL

=============================================================================
