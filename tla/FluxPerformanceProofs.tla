----------------------- MODULE FluxPerformanceProofs ------------------------
(***************************************************************************)
(* The series of the performance values are unique and those reported, for *)
(* any rows and any spread of them over the responses.                     *)
(***************************************************************************)
EXTENDS FluxPerformance, TLAPS

\* A row that lacks nothing comes to a set of labels (ParseFluxPerformance).
LEMMA PerformanceType ==
  ASSUME NEW r \in LabelRows, NEW vdc \in VDCs \cup {Nil}, ~Incomplete(r, vdc)
  PROVE  Performance(r, vdc) \in Labels
<1> DEFINE v == Performance(r, vdc)
<1>1. v.vdc \in VDCs
  BY LabelRowsAssumption DEF Performance, Incomplete, Or
<1>2. v.namespace \in {x.namespace : x \in LabelRows}
  BY DEF Performance
<1>3. v.metric \in {"read_throughput", "write_throughput", "latency", "requests"}
  BY DEF Performance, Metric
<1>4. v.operation \in Operations \cup {"all", Nil}
  BY LabelRowsAssumption DEF Performance, Or
<1>5. v.status \in StatusClasses \cup {Nil}
  BY LabelRowsAssumption DEF Performance, Or, StatusOf, StatusClasses
<1>6. v.quantile \in Quantiles \cup {Nil}
  BY LabelRowsAssumption DEF Performance, Or, QuantileOf
<1> QED
  BY <1>1, <1>2, <1>3, <1>4, <1>5, <1>6 DEF Performance, Labels

\* Two values with one series have the same labels (collectPerformance).
LEMMA SeriesDetermines ==
  ASSUME NEW r, NEW s, NEW vdc,
         HasSeries(Performance(r, vdc)), HasSeries(Performance(s, vdc)),
         Series(Performance(r, vdc)) = Series(Performance(s, vdc))
  PROVE  Performance(r, vdc) = Performance(s, vdc)
<1> DEFINE v == Performance(r, vdc)
           w == Performance(s, vdc)
<1> HIDE DEF v, w
<1>1. Series(v)[1] = v.metric /\ Series(w)[1] = w.metric
  BY DEF Series
<1>2. v.metric = w.metric
  BY <1>1 DEF v, w
<1>3. /\ v.vdc = w.vdc
      /\ v.metric = "latency" => v.operation = w.operation /\ v.quantile = w.quantile
      /\ v.metric = "requests" =>
           v.namespace = w.namespace /\ v.operation = w.operation /\ v.status = w.status
  <2>1. CASE v.metric = "latency"
    BY <1>2, <2>1 DEF Series, v, w
  <2>2. CASE v.metric = "requests"
    BY <1>2, <2>2 DEF Series, v, w
  <2>3. CASE v.metric \notin {"latency", "requests"}
    BY <1>2, <2>3 DEF Series, v, w
  <2> QED BY <2>1, <2>2, <2>3
<1>4. /\ v.metric # "requests" => v.namespace = Nil /\ w.namespace = Nil
  BY <1>2 DEF HasSeries, v, w
<1>5. /\ v.metric # "latency" => v.quantile = Nil /\ w.quantile = Nil
      /\ v.metric # "requests" => v.status = Nil /\ w.status = Nil
      /\ v.metric \notin {"latency", "requests"} => v.operation = Nil /\ w.operation = Nil
  BY <1>2 DEF Performance, v, w
<1>6. /\ v.vdc = w.vdc /\ v.namespace = w.namespace /\ v.metric = w.metric
      /\ v.operation = w.operation /\ v.status = w.status /\ v.quantile = w.quantile
  BY <1>2, <1>3, <1>4, <1>5
<1>7. /\ v = [vdc |-> v.vdc, namespace |-> v.namespace, metric |-> v.metric,
              operation |-> v.operation, status |-> v.status, quantile |-> v.quantile]
      /\ w = [vdc |-> w.vdc, namespace |-> w.namespace, metric |-> w.metric,
              operation |-> w.operation, status |-> w.status, quantile |-> w.quantile]
  BY DEF Performance, v, w
<1> QED
  BY <1>6, <1>7 DEF v, w

\* A list that gets an element it has not stays without repetition (ParseFluxPerformance).
LEMMA AppendLabel ==
  ASSUME NEW S, NEW list \in Seq(S), NEW e \in S, Injective(list), e \notin Elements(list)
  PROVE  /\ Injective(Append(list, e))
         /\ Elements(Append(list, e)) = Elements(list) \cup {e}
<1> DEFINE new == Append(list, e)
<1>1. /\ DOMAIN list = 1..Len(list) /\ DOMAIN new = 1..(Len(list) + 1)
      /\ Len(list) \in Nat
      /\ \A i \in 1..Len(list) : new[i] = list[i]
      /\ new[Len(list) + 1] = e
  OBVIOUS
<1>2. Elements(new) = Elements(list) \cup {e}
  BY <1>1 DEF Elements
<1>3. Injective(new)
  BY <1>1 DEF Elements, Injective
<1> QED BY <1>2, <1>3

\* So does the concatenation of two lists that share no element (mergePerformances).
LEMMA ConcatInjective ==
  ASSUME NEW S, NEW old \in Seq(S), NEW new \in Seq(S), Injective(old), Injective(new),
         Elements(new) \cap Elements(old) = {}
  PROVE  /\ Injective(old \o new)
         /\ Elements(old \o new) = Elements(old) \cup Elements(new)
<1> DEFINE both == old \o new
<1>1. /\ DOMAIN old = 1..Len(old) /\ DOMAIN new = 1..Len(new)
      /\ DOMAIN both = 1..(Len(old) + Len(new))
      /\ Len(old) \in Nat /\ Len(new) \in Nat
      /\ \A i \in 1..Len(old) : both[i] = old[i]
      /\ \A i \in 1..Len(new) : both[Len(old) + i] = new[i]
  OBVIOUS
<1>2. \A i \in DOMAIN both :
        \/ i \in DOMAIN old /\ both[i] = old[i]
        \/ i - Len(old) \in DOMAIN new /\ both[i] = new[i - Len(old)]
  BY <1>1
<1> HIDE DEF both
<1>3. Elements(both) \subseteq Elements(old) \cup Elements(new)
  BY <1>2 DEF Elements
<1>4. Elements(old) \subseteq Elements(both)
  BY <1>1 DEF Elements
<1>5. Elements(new) \subseteq Elements(both)
  <2> SUFFICES ASSUME NEW i \in DOMAIN new PROVE new[i] \in Elements(both)
    BY DEF Elements
  <2>1. Len(old) + i \in DOMAIN both /\ both[Len(old) + i] = new[i]
    BY <1>1
  <2> QED BY <2>1 DEF Elements
<1>6. Injective(both)
  <2> SUFFICES ASSUME NEW i \in DOMAIN both, NEW j \in DOMAIN both, i # j
               PROVE  both[i] # both[j]
    BY DEF Injective
  <2>1. CASE i \in DOMAIN old /\ both[i] = old[i] /\ j \in DOMAIN old /\ both[j] = old[j]
    BY <2>1 DEF Injective
  <2>2. CASE /\ i - Len(old) \in DOMAIN new /\ both[i] = new[i - Len(old)]
             /\ j - Len(old) \in DOMAIN new /\ both[j] = new[j - Len(old)]
    <3>1. i - Len(old) # j - Len(old)
      BY <1>1
    <3> QED BY <2>2, <3>1 DEF Injective
  <2>3. CASE /\ i \in DOMAIN old /\ both[i] = old[i]
             /\ j - Len(old) \in DOMAIN new /\ both[j] = new[j - Len(old)]
    BY <2>3 DEF Elements
  <2>4. CASE /\ j \in DOMAIN old /\ both[j] = old[j]
             /\ i - Len(old) \in DOMAIN new /\ both[i] = new[i - Len(old)]
    BY <2>4 DEF Elements
  <2> QED BY <1>2, <2>1, <2>2, <2>3, <2>4
<1> QED BY <1>3, <1>4, <1>5, <1>6 DEF both

-----------------------------------------------------------------------------
\* The initial state satisfies the invariant (CollectPerformance).
LEMMA PerformanceInitInv == ASSUME PerformanceInit PROVE PerformanceInv
<1>1. PerformanceQueries \in Nat /\ PerformanceQueries >= 1
  BY QueriesAssumption DEF PerformanceQueries
<1>2. PerformanceTypeOK
  BY <1>1 DEF PerformanceInit, PerformanceTypeOK
<1>3. Elements(<<>>) = {} /\ Injective(<<>>)
  BY DEF Elements, Injective
<1>4. Taken(1..Finished) = {}
  BY DEF Taken, PerformanceInit
<1> QED BY <1>2, <1>3, <1>4 DEF PerformanceInit, PerformanceInv

\* A run that fails keeps what it has and publishes nothing.
LEMMA PerformanceFailInv ==
  ASSUME PerformanceInv, stage # "published", EndFailed
  PROVE  PerformanceInv'
<1>1. PerformanceTypeOK'
  BY DEF PerformanceInv, PerformanceTypeOK, EndFailed, Labels
<1> QED BY <1>1 DEF PerformanceInv, EndFailed, Injective

\* A response begins with no values.
LEMMA QueryAnsweredInv == ASSUME PerformanceInv, QueryAnswered PROVE PerformanceInv'
<1>1. PerformanceTypeOK'
  BY DEF PerformanceInv, PerformanceTypeOK, QueryAnswered, Labels
<1>2. Elements(parsed') = {} /\ Injective(parsed')
  BY DEF QueryAnswered, Elements, Injective
<1>3. Finished' = Finished /\ Finished = turn - 1 /\ turn \in Nat
  BY DEF QueryAnswered, Finished, PerformanceInv, PerformanceTypeOK
<1>4. Taken(1..Finished)' = Taken(1..Finished)
  BY <1>3 DEF QueryAnswered, Taken, Performance
<1>5. Taken({turn})' = {}
  BY <1>3 DEF QueryAnswered, Taken, PerformanceInv, PerformanceTypeOK
<1>6. \A x \in reported' : x[1] <= turn'
  <2> SUFFICES ASSUME NEW x \in reported PROVE x[1] <= turn
    BY DEF QueryAnswered
  <2>1. x[1] <= turn - 1 /\ x[1] \in Nat
    BY <1>3 DEF QueryAnswered, PerformanceInv, PerformanceTypeOK
  <2> QED BY <1>3, <2>1
<1> QED BY <1>1, <1>2, <1>3, <1>4, <1>5, <1>6 DEF PerformanceInv, QueryAnswered

\* A row that is taken in is new to the response (ParseFluxPerformance).
LEMMA ReadLabelRowInv ==
  ASSUME PerformanceInv, NEW r \in LabelRows, ReadLabelRow(r), ~RefusedRow(r) PROVE PerformanceInv'
<1>1. /\ stage = "rows" /\ UNCHANGED <<stage, turn, defaultVDC, values, performances>>
      /\ reported' = reported \cup {<<turn, r>>}
      /\ parsed' = IF Skipped(r) THEN parsed ELSE Append(parsed, Performance(r, defaultVDC))
  BY DEF ReadLabelRow
<1>2. Performance(r, defaultVDC) \in Labels
  BY PerformanceType DEF PerformanceInv, PerformanceTypeOK, RefusedRow
<1>3. PerformanceTypeOK'
  <2>1. parsed' \in Seq(Labels)
    BY <1>1, <1>2 DEF PerformanceInv, PerformanceTypeOK
  <2>2. reported' \subseteq (1..PerformanceQueries) \X LabelRows
    BY <1>1 DEF PerformanceInv, PerformanceTypeOK
  <2> QED BY <1>1, <2>1, <2>2 DEF PerformanceInv, PerformanceTypeOK, Labels
<1>4. /\ Injective(parsed')
      /\ Elements(parsed') = Elements(parsed) \cup
           (IF Skipped(r) THEN {} ELSE {Performance(r, defaultVDC)})
  BY <1>1, <1>2, AppendLabel DEF PerformanceInv, PerformanceTypeOK, RefusedRow
<1>5. Finished = turn - 1 /\ Finished' = Finished /\ turn \in Nat
  BY <1>1 DEF Finished, PerformanceInv, PerformanceTypeOK
<1>6. Taken(1..Finished)' = Taken(1..Finished)
  <2>1. \A z \in reported' : z[1] \in 1..Finished => z \in reported
    BY <1>1, <1>5
  <2> QED BY <1>1, <1>5, <2>1 DEF Taken, Performance
<1>7. Taken({turn})' = Taken({turn}) \cup
        (IF Skipped(r) THEN {} ELSE {Performance(r, defaultVDC)})
  <2> DEFINE old == {z \in reported : z[1] \in {turn} /\ ~Skipped(z[2])}
             new == {z \in reported' : z[1] \in {turn} /\ ~Skipped(z[2])}
  <2>1. new = old \cup (IF Skipped(r) THEN {} ELSE {<<turn, r>>})
    BY <1>1
  <2>2. Taken({turn}) = {Performance(x[2], defaultVDC) : x \in old}
    BY DEF Taken
  <2>3. Taken({turn})' = {Performance(x[2], defaultVDC) : x \in new}
    BY <1>1 DEF Taken
  <2>4. Performance(<<turn, r>>[2], defaultVDC) = Performance(r, defaultVDC)
    OBVIOUS
  <2> HIDE DEF old, new
  <2>5. CASE Skipped(r)
    BY <2>1, <2>2, <2>3, <2>5
  <2>6. CASE ~Skipped(r)
    <3>1. new = old \cup {<<turn, r>>}
      BY <2>1, <2>6
    <3>2. Taken({turn})' =
            {Performance(x[2], defaultVDC) : x \in old} \cup {Performance(r, defaultVDC)}
      BY <2>3, <2>4, <3>1
    <3> QED BY <2>2, <2>6, <3>2
  <2> QED BY <2>5, <2>6
<1>8. \A x \in reported' : x[1] <= turn'
  BY <1>1, <1>5 DEF PerformanceInv
<1> QED BY <1>1, <1>3, <1>4, <1>5, <1>6, <1>7, <1>8 DEF PerformanceInv

\* The values of a response join those of the run (mergePerformances).
LEMMA MergePerformancesInv ==
  ASSUME PerformanceInv, MergePerformances, ~SharesLabels(parsed, values)
  PROVE  PerformanceInv'
<1>1. /\ stage = "rows" /\ values' = values \o parsed
      /\ UNCHANGED <<defaultVDC, parsed, reported, performances>>
      /\ \/ turn = PerformanceQueries /\ stage' = "publish" /\ turn' = turn
         \/ turn # PerformanceQueries /\ stage' = "call" /\ turn' = turn + 1
  BY DEF MergePerformances
<1>2. turn \in Nat /\ turn >= 1 /\ PerformanceQueries \in Nat /\ turn <= PerformanceQueries
  BY DEF PerformanceInv, PerformanceTypeOK, PerformanceQueries
<1>3. Finished = turn - 1 /\ Finished' = turn
  BY <1>1, <1>2 DEF Finished
<1>4. PerformanceTypeOK'
  <2>1. values' \in Seq(Labels)
    BY <1>1 DEF PerformanceInv, PerformanceTypeOK
  <2>2. turn' \in 1..PerformanceQueries
    BY <1>1, <1>2
  <2> QED BY <1>1, <2>1, <2>2 DEF PerformanceInv, PerformanceTypeOK, Labels
<1>5. /\ Injective(values')
      /\ Elements(values') = Elements(values) \cup Elements(parsed)
  <2>1. values \in Seq(Labels) /\ parsed \in Seq(Labels)
    BY DEF PerformanceInv, PerformanceTypeOK
  <2>2. Injective(values) /\ Injective(parsed) /\ Elements(parsed) \cap Elements(values) = {}
    BY DEF PerformanceInv, SharesLabels
  <2> QED BY <1>1, <2>1, <2>2, ConcatInjective
<1>6. Taken(1..turn) = Taken(1..(turn - 1)) \cup Taken({turn})
  <2>1. 1..turn = (1..(turn - 1)) \cup {turn}
    BY <1>2
  <2> QED BY <2>1 DEF Taken
<1>7. Elements(values') = Taken(1..Finished)'
  BY <1>1, <1>3, <1>5, <1>6 DEF PerformanceInv, Taken, Performance
<1>8. \A x \in reported' : x[1] <= Finished'
  BY <1>1, <1>3 DEF PerformanceInv
<1> QED BY <1>1, <1>3, <1>4, <1>5, <1>7, <1>8 DEF PerformanceInv, Injective

\* Store.ReplacePerformances.
LEMMA ReplacePerformancesInv == ASSUME PerformanceInv, ReplacePerformances PROVE PerformanceInv'
<1>1. PerformanceTypeOK'
  BY DEF PerformanceInv, PerformanceTypeOK, ReplacePerformances, Labels
<1>2. Finished' = Finished
  BY DEF Finished, ReplacePerformances
<1>3. Taken(1..Finished)' = Taken(1..Finished)
  BY <1>2 DEF Taken, Performance, ReplacePerformances
<1> QED BY <1>1, <1>2, <1>3 DEF PerformanceInv, ReplacePerformances, Injective

\* Every reachable state satisfies the inductive invariant, so its type part: an injective
\* list per response and per run, and the labels in them those of the rows read.
THEOREM PerformanceInvariance == PerformanceSpec => []PerformanceInv
<1>1. PerformanceInit => PerformanceInv
  BY PerformanceInitInv
<1>2. PerformanceInv /\ [PerformanceNext]_performanceVars => PerformanceInv'
  <2> SUFFICES ASSUME PerformanceInv, [PerformanceNext]_performanceVars PROVE PerformanceInv'
    OBVIOUS
  <2>1. CASE QueryFails \/ MalformedRow
    BY <2>1, PerformanceFailInv DEF QueryFails, MalformedRow
  <2>2. CASE QueryAnswered
    BY <2>2, QueryAnsweredInv
  <2>3. ASSUME NEW r \in LabelRows, ReadLabelRow(r) PROVE PerformanceInv'
    BY <2>3, ReadLabelRowInv, PerformanceFailInv DEF ReadLabelRow
  <2>4. CASE MergePerformances
    BY <2>4, MergePerformancesInv, PerformanceFailInv DEF MergePerformances
  <2>5. CASE ReplacePerformances
    BY <2>5, ReplacePerformancesInv
  <2>6. CASE UNCHANGED performanceVars
    BY <2>6 DEF performanceVars, PerformanceInv, PerformanceTypeOK, Labels, Injective,
                Finished, Taken, Performance
  <2> QED BY <2>1, <2>2, <2>3, <2>4, <2>5, <2>6 DEF PerformanceNext
<1> QED BY <1>1, <1>2, PTL DEF PerformanceSpec

\* No scrape has a series twice: the performances values differ in what collectPerformance
\* makes series of.
THEOREM SeriesCorrect ==
  PerformanceSpec => []SeriesAreUnique
<1>1. PerformanceInv => SeriesAreUnique
  <2> SUFFICES ASSUME PerformanceInv,
                      NEW i \in DOMAIN performances, NEW j \in DOMAIN performances, i # j,
                      HasSeries(performances[i]), HasSeries(performances[j]),
                      Series(performances[i]) = Series(performances[j])
               PROVE  FALSE
    BY DEF SeriesAreUnique
  <2>1. stage = "published" /\ performances = values
    BY DEF PerformanceInv
  <2>2. {performances[i], performances[j]} \subseteq Taken(1..Finished)
    BY <2>1 DEF PerformanceInv, Elements
  <2>3. PICK x \in reported, y \in reported :
          /\ performances[i] = Performance(x[2], defaultVDC)
          /\ performances[j] = Performance(y[2], defaultVDC)
    BY <2>2 DEF Taken
  <2>4. performances[i] = performances[j]
    BY <2>3, SeriesDetermines
  <2> QED BY <2>1, <2>4 DEF PerformanceInv, Injective
<1> QED BY <1>1, PerformanceInvariance, PTL

\* What is performances is what was reported, in all responses of the run (CollectPerformance).
THEOREM RowsCorrect ==
  PerformanceSpec => []RowsAreReported
<1>1. PerformanceInv => RowsAreReported
  <2> SUFFICES ASSUME PerformanceInv, stage = "published" PROVE RowsAreReported
    BY DEF RowsAreReported
  <2>1. Finished = turn /\ turn \in Nat /\ performances = values
    BY DEF Finished, PerformanceInv, PerformanceTypeOK
  <2>2. \A z \in reported : z[1] \in 1..Finished
    BY <2>1 DEF PerformanceInv, PerformanceTypeOK
  <2>3. Taken(1..Finished) =
          {Performance(x[2], defaultVDC) : x \in {z \in reported : ~Skipped(z[2])}}
    BY <2>2 DEF Taken
  <2> QED BY <2>1, <2>3 DEF PerformanceInv, RowsAreReported
<1> QED BY <1>1, PerformanceInvariance, PTL

=============================================================================
