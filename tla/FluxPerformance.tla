-------------------------- MODULE FluxPerformance ---------------------------
(***************************************************************************)
(* One CollectPerformance from its first Flux query to ReplacePerformances *)
(* (internal/collector/runner.go): the rows of each response as            *)
(* ParseFluxPerformance takes them in (internal/ecs/parser.go), the merge  *)
(* of the responses, and the series /metrics makes of the published list   *)
(* (internal/metrics/metrics.go).                                          *)
(*                                                                         *)
(* A value is its labels; the number and its unit are left out.  Several   *)
(* spellings of a field or label mean the same, and a row may leave out    *)
(* most labels: both can give two rows the same labels.                    *)
(***************************************************************************)
EXTENDS Naturals, Sequences, FiniteSets, Flux

CONSTANTS
  LabelRows,     \* what ECS may answer with, malformed rows aside
  VDCs,          \* names of a VDC
  VDCEnabled, NamespaceEnabled,   \* the two capabilities
  MaxRows        \* bound: the rows of all responses

\* The spellings of ParseFluxPerformance, by what they mean; a row of the measurement
\* "latency" has its quantile in a column or as its field.
ReadFields == {"read", "read_rate", "read_bytes_per_second", "total_read_requests_size"}
WriteFields ==
  {"write", "write_rate", "write_bytes_per_second", "total_write_requests_size"}
ServerErrors == {"system_errors", "server_error_counter"}
ClientErrors == {"user_errors", "client_error_counter"}
Quantiles == {"0.5", "0.95", "0.99"}
FieldsOf ==
  [throughput |-> ReadFields \cup WriteFields,
   latency |-> Quantiles \cup {"value"},
   transaction |-> {"failed_request_counter", "succeed_request_counter"},
   error |-> ServerErrors \cup ClientErrors]

Operations == {"READ", "WRITE", "GET", "PUT"}
StatusClasses == {"2xx", "4xx", "5xx"}

\* A column that is missing or empty is Nil, and so is a label that is not set.
ASSUME LabelRowsAssumption ==
  /\ \A r \in LabelRows :
       /\ r.measurement \in DOMAIN FieldsOf
       /\ r.field \in FieldsOf[r.measurement]
       /\ r.vdc \in VDCs \cup {Nil}
       /\ r.operation \in Operations \cup {Nil}
       /\ r.status \in StatusClasses \cup {Nil}
       /\ r.quantile \in Quantiles \cup {Nil}
  /\ Nil \notin VDCs \cup Operations \cup StatusClasses \cup Quantiles
\* With nothing enabled there is no query: see Collector!CheckNamespacePerformance.
ASSUME QueriesAssumption ==
  /\ VDCEnabled \in BOOLEAN /\ NamespaceEnabled \in BOOLEAN
  /\ VDCEnabled \/ NamespaceEnabled

VARIABLES
  stage,         \* where CollectPerformance stands
  turn,          \* the number of the query under way
  defaultVDC,    \* the VDC of the cached cluster, if any
  parsed,        \* ParseFluxPerformance: result
  values,        \* CollectPerformance: values
  reported,      \* the rows that were read, with their queries
  performances   \* the list in the store

performanceVars == <<stage, turn, defaultVDC, parsed, values, reported, performances>>

-----------------------------------------------------------------------------
\* performanceFluxQueries: values of the VDC, latencies, values of the namespaces.
PerformanceQueries == (IF VDCEnabled THEN 2 ELSE 0) + (IF NamespaceEnabled THEN 1 ELSE 0)

Metric(r) ==
  CASE r.measurement = "throughput" /\ r.field \in ReadFields -> "read_throughput"
    [] r.measurement = "throughput" /\ r.field \in WriteFields -> "write_throughput"
    [] r.measurement = "latency" -> "latency"
    [] OTHER -> "requests"

\* statusClassFromField.
StatusOf(field) ==
  CASE field \in ServerErrors -> "5xx"
    [] field \in ClientErrors -> "4xx"
    [] OTHER -> "2xx"

QuantileOf(field) == IF field \in Quantiles THEN field ELSE Nil

\* The labels of a row: those a metric does not have are dropped, a VDC, an operation, a
\* status class or a quantile that the row leaves out is filled in.
Performance(r, vdc) ==
  LET metric == Metric(r)
  IN  [vdc |-> Or(r.vdc, vdc),
       namespace |-> r.namespace,
       metric |-> metric,
       operation |-> CASE metric = "latency" -> r.operation
                       [] metric = "requests" -> Or(r.operation, "all")
                       [] OTHER -> Nil,
       status |-> IF metric = "requests" THEN Or(r.status, StatusOf(r.field)) ELSE Nil,
       quantile |-> IF metric = "latency" THEN Or(r.quantile, QuantileOf(r.field)) ELSE Nil]

\* A row that lacks a label it needs.
Incomplete(r, vdc) ==
  LET v == Performance(r, vdc)
  IN  \/ v.vdc = Nil
      \/ v.metric = "latency" /\ (v.operation = Nil \/ v.quantile = Nil)

\* The failed requests of a transaction are in the errors as well.
Skipped(r) == r.field = "failed_request_counter"

Elements(list) == {list[i] : i \in DOMAIN list}

-----------------------------------------------------------------------------
\* CollectPerformance takes the default VDC from the Snapshot.
PerformanceInit ==
  /\ stage = "call"
  /\ turn = 1
  /\ defaultVDC \in VDCs \cup {Nil}
  /\ parsed = <<>>
  /\ values = <<>>
  /\ reported = {}
  /\ performances = <<>>

EndFailed ==
  /\ stage' = "failed"
  /\ UNCHANGED <<turn, defaultVDC, parsed, values, reported, performances>>

\* PostBytes returns an error, or a response for ParseFluxPerformance.
QueryFails == stage = "call" /\ EndFailed

QueryAnswered ==
  /\ stage = "call"
  /\ stage' = "rows"
  /\ parsed' = <<>>
  /\ UNCHANGED <<turn, defaultVDC, values, reported, performances>>

\* Wrong columns or times, a bad value or unit, an unknown measurement or field.
MalformedRow == stage = "rows" /\ EndFailed

\* Deviation: rows are compared instead of the labels they come to.
RefusedRepeatedRow(r) == Incomplete(r, defaultVDC) \/ <<turn, r>> \in reported

\* The row lacks a label, or the response has a value with the same labels.
RefusedRow(r) ==
  \/ Incomplete(r, defaultVDC)
  \/ ~Skipped(r) /\ Performance(r, defaultVDC) \in Elements(parsed)

\* One row; ECS may answer with any row to any query, in any order.
ReadLabelRow(r) ==
  /\ stage = "rows"
  /\ Cardinality(reported) < MaxRows
  /\ IF RefusedRow(r)
     THEN EndFailed
     ELSE /\ reported' = reported \cup {<<turn, r>>}
          /\ parsed' = IF Skipped(r) THEN parsed
                       ELSE Append(parsed, Performance(r, defaultVDC))
          /\ UNCHANGED <<stage, turn, defaultVDC, values, performances>>

\* mergePerformances refuses labels that an earlier response had.
SharesLabels(new, old) == Elements(new) \cap Elements(old) # {}

\* Deviation: the list of the run starts anew with each response.
MergeAnew ==
  /\ stage = "rows"
  /\ IF SharesLabels(parsed, values)
     THEN EndFailed
     ELSE /\ values' = parsed
          /\ IF turn = PerformanceQueries
             THEN stage' = "publish" /\ UNCHANGED turn
             ELSE stage' = "call" /\ turn' = turn + 1
          /\ UNCHANGED <<defaultVDC, parsed, reported, performances>>

\* The response is complete; its values go into those of the run.
MergePerformances ==
  /\ stage = "rows"
  /\ IF SharesLabels(parsed, values)
     THEN EndFailed
     ELSE /\ values' = values \o parsed
          /\ IF turn = PerformanceQueries
             THEN stage' = "publish" /\ UNCHANGED turn
             ELSE stage' = "call" /\ turn' = turn + 1
          /\ UNCHANGED <<defaultVDC, parsed, reported, performances>>

ReplacePerformances ==
  /\ stage = "publish"
  /\ stage' = "published"
  /\ performances' = values
  /\ UNCHANGED <<turn, defaultVDC, parsed, values, reported>>

PerformanceNext ==
  \/ QueryFails \/ QueryAnswered
  \/ MalformedRow \/ \E r \in LabelRows : ReadLabelRow(r)
  \/ MergePerformances \/ ReplacePerformances

PerformanceSpec == PerformanceInit /\ [][PerformanceNext]_performanceVars

-----------------------------------------------------------------------------
(* Properties *)

Labels ==
  [vdc : VDCs, namespace : {r.namespace : r \in LabelRows},
   metric : {"read_throughput", "write_throughput", "latency", "requests"},
   operation : Operations \cup {"all", Nil}, status : StatusClasses \cup {Nil},
   quantile : Quantiles \cup {Nil}]

PerformanceTypeOK ==
  /\ stage \in {"call", "rows", "publish", "published", "failed"}
  /\ turn \in 1..PerformanceQueries
  /\ defaultVDC \in VDCs \cup {Nil}
  /\ parsed \in Seq(Labels)
  /\ values \in Seq(Labels)
  /\ reported \subseteq (1..PerformanceQueries) \X LabelRows
  /\ performances \in Seq(Labels)

\* collectPerformance: the series of a value, if it has one.
HasSeries(v) == v.namespace = Nil \/ v.metric = "requests"
Series(v) ==
  CASE v.metric = "latency" -> <<v.metric, v.vdc, v.operation, v.quantile>>
    [] v.metric = "requests" -> <<v.metric, v.vdc, v.namespace, v.operation, v.status>>
    [] OTHER -> <<v.metric, v.vdc>>

\* A scrape never has two series with the same name and labels, one of which would be
\* left out with an error: rows with different columns, of one response or of two, are
\* compared after their labels are normalised and filled in (ParseFluxPerformance,
\* mergePerformances).
SeriesAreUnique ==
  \A i, j \in DOMAIN performances :
    /\ i # j
    /\ HasSeries(performances[i]) /\ HasSeries(performances[j])
    => Series(performances[i]) # Series(performances[j])

\* What is published is what ECS reported in the responses of this run, all of it, with
\* the failed requests counted under their status class only.
RowsAreReported ==
  stage = "published" =>
    Elements(performances) =
      {Performance(x[2], defaultVDC) : x \in {z \in reported : ~Skipped(z[2])}}

-----------------------------------------------------------------------------
(* The inductive invariant *)

Injective(list) == \A i, j \in DOMAIN list : i # j => list[i] # list[j]

\* How many responses are in the values of the run; the labels of some responses.
Finished == IF stage \in {"publish", "published"} THEN turn ELSE turn - 1
Taken(queries) ==
  {Performance(x[2], defaultVDC) :
     x \in {z \in reported : z[1] \in queries /\ ~Skipped(z[2])}}

PerformanceInv ==
  /\ PerformanceTypeOK
  /\ stage \in {"publish", "published"} => turn = PerformanceQueries
  /\ stage = "rows" => \A x \in reported : x[1] <= turn
  /\ stage \notin {"rows", "failed"} => \A x \in reported : x[1] <= Finished
  /\ Injective(parsed) /\ Injective(values)
  /\ stage # "failed" => Elements(values) = Taken(1..Finished)
  /\ stage = "rows" => Elements(parsed) = Taken({turn})
  /\ performances = IF stage = "published" THEN values ELSE <<>>

=============================================================================
