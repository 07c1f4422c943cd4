------------------------ MODULE ServiceControlProofs ------------------------
(* Proofs about ServiceControl: for any service, any number of requests and  *)
(* any answers of the server, a request is counted once and its bytes add up *)
(* over its reports, nothing is billed to a key the server refused, and a    *)
(* request passes only as the server or the operator wants it.               *)
EXTENDS ServiceControl, WellFoundedInduction, TLAPS

-----------------------------------------------------------------------------
(* Induction over the numbers, for sets.                                     *)
LEMMA NatSetInduction ==
  ASSUME NEW S, 0 \in S, \A n \in Nat : n \in S => n + 1 \in S
  PROVE  Nat \subseteq S
<1> SUFFICES ASSUME Nat \ S # {} PROVE FALSE
  OBVIOUS
<1> DEFINE T == Nat \ S
<1>1. T \subseteq Nat /\ T # {}
  OBVIOUS
<1>2. PICK x \in T : \A y \in T : ~(<<y, x>> \in OpToRel(<, Nat))
  BY <1>1, WFMin, NatLessThanWellFounded, Zenon
<1>3. \A y \in T : <<y, x>> \in Nat \X Nat
  OBVIOUS
<1>4. \A y \in T : ~(<<y, x>>[1] < <<y, x>>[2])
  BY <1>2, <1>3, Zenon DEF OpToRel
<1>5. x # 0 /\ x - 1 \in Nat /\ x - 1 \in S
  BY <1>4
<1> QED
  BY <1>5

(* The partial sums of v up to n.                                            *)
PartialSums(v, n, s) == s = [i \in 0..n |-> IF i = 0 THEN 0 ELSE s[i - 1] + v[i]]

LEMMA PartialSumsExist ==
  ASSUME NEW v, NEW n \in Nat, \A i \in 1..n : v[i] \in Int
  PROVE  \E s \in [0..n -> Int] : PartialSums(v, n, s)
<1> DEFINE S == {m \in Nat : m <= n => \E s \in [0..m -> Int] : PartialSums(v, m, s)}
<1>1. 0 \in S
  <2> DEFINE s == [i \in 0..0 |-> 0]
  <2>1. s \in [0..0 -> Int] /\ PartialSums(v, 0, s)
    BY DEF PartialSums
  <2> QED
    BY <2>1
<1>2. ASSUME NEW m \in Nat, m \in S PROVE m + 1 \in S
  <2> SUFFICES ASSUME m + 1 <= n PROVE \E s \in [0..(m + 1) -> Int] : PartialSums(v, m + 1, s)
    OBVIOUS
  <2>1. PICK s \in [0..m -> Int] : PartialSums(v, m, s)
    BY <1>2
  <2> DEFINE t == [i \in 0..(m + 1) |-> IF i = m + 1 THEN s[m] + v[i] ELSE s[i]]
  <2>2. v[m + 1] \in Int /\ s[m] \in Int
    BY <2>1
  <2>3. t \in [0..(m + 1) -> Int]
    BY <2>1, <2>2
  <2>4. \A i \in 0..m : s[i] = IF i = 0 THEN 0 ELSE s[i - 1] + v[i]
    BY <2>1 DEF PartialSums
  <2>5. \A i \in 0..(m + 1) : t[i] = IF i = 0 THEN 0 ELSE t[i - 1] + v[i]
    <3> SUFFICES ASSUME NEW i \in 0..(m + 1)
                 PROVE  t[i] = IF i = 0 THEN 0 ELSE t[i - 1] + v[i]
      OBVIOUS
    <3>1. CASE i = m + 1
      BY <3>1
    <3>2. CASE i \in 0..m
      BY <2>4, <3>2
    <3> QED
      BY <3>1, <3>2
  <2>6. PartialSums(v, m + 1, t)
    BY <2>3, <2>5 DEF PartialSums
  <2> QED
    BY <2>3, <2>6
<1> HIDE DEF S
<1>3. n \in S
  BY <1>1, <1>2, NatSetInduction
<1> QED
  BY <1>3 DEF S

LEMMA SumDef ==
  ASSUME NEW v, NEW n \in Nat, \A i \in 1..n : v[i] \in Int
  PROVE  \E s : PartialSums(v, n, s) /\ SumTo(v, n) = s[n]
<1> DEFINE s == CHOOSE s : s = [i \in 0..n |-> IF i = 0 THEN 0 ELSE s[i - 1] + v[i]]
<1>1. \E t : t = [i \in 0..n |-> IF i = 0 THEN 0 ELSE t[i - 1] + v[i]]
  <2>1. PICK t : PartialSums(v, n, t)
    BY PartialSumsExist
  <2> QED
    BY <2>1 DEF PartialSums
<1>2. PartialSums(v, n, s)
  BY <1>1 DEF PartialSums
<1>3. SumTo(v, n) = s[n]
  BY DEF SumTo
<1> QED
  BY <1>2, <1>3

(* Two sequences that agree have the same partial sums.                      *)
LEMMA SumsAgree ==
  ASSUME NEW v, NEW w, NEW n \in Nat, NEW m \in Nat, n <= m, NEW s, NEW t,
         PartialSums(v, n, s), PartialSums(w, m, t),
         \A i \in 1..n : v[i] \in Int /\ v[i] = w[i]
  PROVE  s[n] \in Int /\ s[n] = t[n]
<1> DEFINE S == {k \in Nat : k <= n => s[k] \in Int /\ s[k] = t[k]}
<1>0. /\ \A i \in 0..n : s[i] = IF i = 0 THEN 0 ELSE s[i - 1] + v[i]
      /\ \A i \in 0..m : t[i] = IF i = 0 THEN 0 ELSE t[i - 1] + w[i]
  BY DEF PartialSums
<1>1. 0 \in S
  BY <1>0
<1>2. ASSUME NEW k \in Nat, k \in S PROVE k + 1 \in S
  <2> SUFFICES ASSUME k + 1 <= n PROVE s[k + 1] \in Int /\ s[k + 1] = t[k + 1]
    OBVIOUS
  <2>1. s[k] \in Int /\ s[k] = t[k]
    BY <1>2
  <2>2. s[k + 1] = s[k] + v[k + 1] /\ t[k + 1] = t[k] + w[k + 1]
    BY <1>0
  <2> QED
    BY <2>1, <2>2
<1> HIDE DEF S
<1>3. n \in S
  BY <1>1, <1>2, NatSetInduction
<1> QED
  BY <1>3 DEF S

(* The empty sum, and what one more term adds.                               *)
LEMMA SumOfNone == ASSUME NEW v PROVE SumTo(v, 0) = 0
<1>1. PICK s : PartialSums(v, 0, s) /\ SumTo(v, 0) = s[0]
  BY SumDef
<1> QED
  BY <1>1 DEF PartialSums

LEMMA SumOfMore ==
  ASSUME NEW v, NEW w, NEW n \in Nat,
         \A i \in 1..n : v[i] \in Int /\ v[i] = w[i], w[n + 1] \in Int
  PROVE  SumTo(v, n) \in Int /\ SumTo(w, n + 1) = SumTo(v, n) + w[n + 1]
<1>1. PICK s : PartialSums(v, n, s) /\ SumTo(v, n) = s[n]
  BY SumDef
<1>2. \A i \in 1..(n + 1) : w[i] \in Int
  OBVIOUS
<1>3. PICK t : PartialSums(w, n + 1, t) /\ SumTo(w, n + 1) = t[n + 1]
  BY <1>2, SumDef
<1>4. s[n] \in Int /\ s[n] = t[n]
  <2>1. n + 1 \in Nat /\ n <= n + 1
    OBVIOUS
  <2> QED
    BY <1>1, <1>3, <2>1, SumsAgree, SMTT(30)
<1>5. t[n + 1] = t[n] + w[n + 1]
  BY <1>3 DEF PartialSums
<1> QED
  BY <1>1, <1>3, <1>4, <1>5

-----------------------------------------------------------------------------
(* The table of metrics: which report a metric goes into.                    *)
LEMMA EntriesOf ==
  ASSUME NEW families, NEW marks, NEW tag, NEW m \in Entries(families, marks, tag)
  PROVE  m.family \in families /\ m.mark \in marks /\ m.tag = tag
BY DEF Entries

LEMMA Tags ==
  ASSUME NEW m \in supported_metrics
  PROVE  /\ m.family = "request_count" =>
              m.tag = IF m.mark = "PRODUCER_BY_CONSUMER" THEN "FINAL" ELSE "START"
         /\ m.family \in {"request_bytes", "response_bytes"} => m.tag = "INTERMEDIATE"
<1>1. CASE m \in CountAndSizeMetrics
  <2>1. CASE m \in Entries({"request_count"}, {"CONSUMER", "PRODUCER"}, "START")
    BY <2>1, EntriesOf
  <2>2. CASE m \in Entries({"request_count"}, {"PRODUCER_BY_CONSUMER"}, "FINAL")
    BY <2>2, EntriesOf
  <2>3. CASE m \in Entries({"request_sizes", "response_sizes"},
                          {"CONSUMER", "PRODUCER", "PRODUCER_BY_CONSUMER"}, "FINAL")
    <3>1. m.family \in {"request_sizes", "response_sizes"}
      BY <2>3, EntriesOf
    <3> QED
      BY <3>1
  <2> QED
    BY <1>1, <2>1, <2>2, <2>3 DEF CountAndSizeMetrics
<1>2. CASE m \in ByteAndErrorMetrics
  <2>1. CASE m \in Entries({"request_bytes", "response_bytes"}, {"CONSUMER", "PRODUCER"},
                          "INTERMEDIATE")
    <3>1. m.family \in {"request_bytes", "response_bytes"} /\ m.tag = "INTERMEDIATE"
      BY <2>1, EntriesOf
    <3> QED
      BY <3>1
  <2>2. CASE m \in Entries({"error_count"}, {"CONSUMER", "PRODUCER", "PRODUCER_BY_CONSUMER"},
                          "FINAL")
    <3>1. m.family \in {"error_count"}
      BY <2>2, EntriesOf
    <3> QED
      BY <3>1
  <2> QED
    BY <1>2, <2>1, <2>2 DEF ByteAndErrorMetrics
<1>3. CASE m \in LatencyMetrics
  <2>1. m.family \in {"total_latencies", "backend_latencies", "request_overhead_latencies"}
    BY <1>3, EntriesOf DEF LatencyMetrics
  <2> QED
    BY <2>1
<1>4. CASE m \in StreamingMetrics
  <2>1. m.family \in {"streaming_request_message_counts", "streaming_response_message_counts",
                     "streaming_durations"}
    BY <1>4, EntriesOf DEF StreamingMetrics
  <2> QED
    BY <2>1
<1> QED
  BY <1>1, <1>2, <1>3, <1>4 DEF supported_metrics

LEMMA ProtoTables ==
  proto.metrics \subseteq supported_metrics /\ proto.labels \subseteq SystemLabels \union UserLabels
<1> DEFINE loaded == LoadLogsMetrics(Service)
<1> HIDE DEF loaded
<1>1. proto = Proto(loaded.logs, loaded.metrics, loaded.labels)
  BY DEF proto, loaded
<1> QED
  BY <1>1 DEF Proto

-----------------------------------------------------------------------------
(* The value of a metric in an operation.                                    *)
LEMMA ValueOne ==
  ASSUME NEW i, NEW labels, NEW due, NEW logs, NEW m \in due, Due(m, i),
         NEW v, MetricValues(m.family, i) = {v}
  PROVE  ValueIn(Operation(i, labels, due, logs), m.family, m.mark) = v
<1> DEFINE op == Operation(i, labels, due, logs)
           e == [family |-> m.family, mark |-> m.mark, value |-> v]
           found == {x \in op.metrics : x.family = m.family /\ x.mark = m.mark}
<1>1. op.metrics = Metrics({x \in due : Due(x, i)}, i)
  BY DEF Operation
<1>2. e \in found
  BY <1>1 DEF Metrics
<1>3. \A x \in found : x.value = v
  BY <1>1 DEF Metrics
<1>4. ValueIn(op, m.family, m.mark)
        = IF found = {} THEN 0 ELSE (CHOOSE x \in found : TRUE).value
  BY DEF ValueIn
<1> HIDE DEF found, op
<1> QED
  BY <1>2, <1>3, <1>4 DEF op

LEMMA ValueNone ==
  ASSUME NEW i, NEW labels, NEW due, NEW logs, NEW f, NEW mk,
         \A m \in due : m.family = f /\ m.mark = mk => ~Due(m, i) \/ MetricValues(f, i) = {}
  PROVE  ValueIn(Operation(i, labels, due, logs), f, mk) = 0
<1> DEFINE op == Operation(i, labels, due, logs)
           found == {x \in op.metrics : x.family = f /\ x.mark = mk}
<1>1. op.metrics = Metrics({x \in due : Due(x, i)}, i)
  BY DEF Operation
<1>2. found = {}
  BY <1>1 DEF Metrics
<1> QED
  BY <1>2 DEF ValueIn

(* The information of a report, as RequestContext fills it in.               *)
InfoOK(i) ==
  /\ i.api_key \in BOOLEAN /\ i.auth_issuer = FALSE /\ i.consumer_project \in BOOLEAN
  /\ i.is_first_report \in BOOLEAN /\ i.is_final_report \in BOOLEAN
  /\ i.response_code \in Int
  /\ i.request_size \in Int /\ i.response_size \in Int
  /\ i.request_bytes \in Int /\ i.response_bytes \in Int
  /\ i.request_messages \in Int /\ i.response_messages \in Int /\ i.duration \in Int
  /\ i.request_time \in Int /\ i.backend_time \in Int /\ i.overhead_time \in Int

LEMMA ValuesAreNumbers ==
  ASSUME NEW i, InfoOK(i), NEW f
  PROVE  MetricValues(f, i) \subseteq Int
<1>1. \A b \in Int, v \in Int : Above(b, v) \subseteq Int
  BY DEF Above
<1>2. SetConstantMetric(f, i) \subseteq Int
  BY DEF SetConstantMetric
<1>3. SetSizeMetric(f, i) \subseteq Int
  BY DEF SetSizeMetric, InfoOK, Above
<1>4. SetTimeMetric(f, i) \subseteq Int
  BY DEF SetTimeMetric, InfoOK, Above
<1>5. SetStreamMetric(f, i) \subseteq Int
  BY DEF SetStreamMetric, InfoOK, Above
<1> QED
  BY <1>2, <1>3, <1>4, <1>5 DEF MetricValues

LEMMA OperationType ==
  ASSUME NEW i, InfoOK(i), NEW labels, labels \subseteq SystemLabels \union UserLabels,
         NEW due, due \subseteq supported_metrics, NEW logs \in SUBSET LogEntry
  PROVE  Operation(i, labels, due, logs) \in ReportOperation
<1> DEFINE op == Operation(i, labels, due, logs)
<1>1. Metrics({m \in due : Due(m, i)}, i) \subseteq Metric
  BY ValuesAreNumbers DEF Metrics, Metric
<1>2. ConsumerId(i) \in BOOLEAN
  BY DEF ConsumerId, InfoOK
<1>3. {l \in labels : SetsLabel(l, i)} \subseteq SystemLabels \union UserLabels
  OBVIOUS
<1> QED
  BY <1>1, <1>2, <1>3 DEF Operation, ReportOperation

(* The one or two operations of a report.                                    *)
MainDue(i) ==
  {m \in proto.metrics : /\ i.api_key \/ m.mark # "CONSUMER"
                         /\ m.mark # "PRODUCER_BY_CONSUMER"}
ByConsumerDue == {m \in proto.metrics : m.mark = "PRODUCER_BY_CONSUMER"}
MainLogs(i) == IF i.is_final_report THEN {FillLogEntry(i, l) : l \in proto.logs} ELSE {}
Main(i) == Operation(i, proto.labels \ {"consumer_project"}, MainDue(i), MainLogs(i))
ByConsumer(i) == Operation(i, proto.labels, ByConsumerDue, {})

LEMMA ReportShape ==
  ASSUME NEW i, InfoOK(i)
  PROVE  LET report == FillReportRequest(i, proto) IN
         /\ report \in Seq(ReportOperation)
         /\ Len(report) = IF i.consumer_project THEN 2 ELSE 1
         /\ report[1] = Main(i)
         /\ i.consumer_project => report[2] = ByConsumer(i)
<1> DEFINE report == FillReportRequest(i, proto)
<1>1. report = IF i.consumer_project THEN <<Main(i), ByConsumer(i)>> ELSE <<Main(i)>>
  BY DEF FillReportRequest, MainOperation, ByConsumerOperation, Main, ByConsumer,
         MainDue, MainLogs, ByConsumerDue
<1>2. MainLogs(i) \in SUBSET LogEntry
  <2>1. ASSUME NEW l \in proto.logs PROVE FillLogEntry(i, l) \in LogEntry
    <3> DEFINE cause == i.response_code >= 400
    <3>1. cause \in BOOLEAN /\ i.api_key \in BOOLEAN
      BY DEF InfoOK
    <3> HIDE DEF cause
    <3>2. [name |-> l, severity |-> IF cause THEN "ERROR" ELSE "INFO", api_key |-> i.api_key,
           error_cause |-> cause] \in LogEntry
      BY <3>1 DEF LogEntry
    <3> QED
      BY <3>2 DEF FillLogEntry, cause
  <2> QED
    BY <2>1 DEF MainLogs
<1>3. Main(i) \in ReportOperation
  <2>1. /\ MainDue(i) \subseteq supported_metrics
        /\ proto.labels \ {"consumer_project"} \subseteq SystemLabels \union UserLabels
    BY ProtoTables DEF MainDue
  <2> QED
    BY <1>2, <2>1, OperationType DEF Main
<1>4. ByConsumer(i) \in ReportOperation
  <2>1. ByConsumerDue \subseteq supported_metrics /\ {} \in SUBSET LogEntry
    BY ProtoTables DEF ByConsumerDue
  <2> QED
    BY <2>1, ProtoTables, OperationType DEF ByConsumer
<1> HIDE DEF report
<1>5. CASE i.consumer_project
  BY <1>1, <1>3, <1>4, <1>5 DEF report
<1>6. CASE ~i.consumer_project
  BY <1>1, <1>3, <1>6 DEF report
<1> QED
  BY <1>5, <1>6 DEF report

(* A key is named, and a consumer counted, only if the report may do so.     *)
LEMMA ReportNamesKey ==
  ASSUME NEW i, InfoOK(i), NEW op \in {Main(i), ByConsumer(i)}, NamesKey(op)
  PROVE  i.api_key
<1>1. /\ op.consumer_id = ConsumerId(i)
      /\ "credential_id" \in op.labels => SetsLabel("credential_id", i)
  BY DEF Main, ByConsumer, Operation
<1>2. ASSUME op.consumer_id PROVE i.api_key
  BY <1>1, <1>2 DEF ConsumerId
<1>3. ASSUME "credential_id" \in op.labels PROVE i.api_key
  BY <1>1, <1>3 DEF SetsLabel, CredentialLabel, InfoOK
<1>4. ASSUME NEW m \in op.metrics, m.mark = "CONSUMER" PROVE i.api_key
  <2>1. CASE op = Main(i)
    <3>1. op.metrics = Metrics({x \in MainDue(i) : Due(x, i)}, i)
      BY <2>1 DEF Main, Operation
    <3>2. PICK x \in MainDue(i) : x.mark = m.mark
      BY <1>4, <3>1 DEF Metrics
    <3> QED
      BY <1>4, <3>2 DEF MainDue
  <2>2. CASE op = ByConsumer(i)
    <3>1. op.metrics = Metrics({x \in ByConsumerDue : Due(x, i)}, i)
      BY <2>2 DEF ByConsumer, Operation
    <3>2. PICK x \in ByConsumerDue : x.mark = m.mark
      BY <1>4, <3>1 DEF Metrics
    <3> QED
      BY <1>4, <3>2 DEF ByConsumerDue
  <2> QED
    BY <2>1, <2>2
<1>5. ASSUME NEW l \in op.logs, l.api_key PROVE i.api_key
  <2>1. op.logs \in {MainLogs(i), {}}
    BY DEF Main, ByConsumer, Operation
  <2> QED
    BY <1>5, <2>1 DEF MainLogs, FillLogEntry
<1> QED
  BY <1>2, <1>3, <1>4, <1>5 DEF NamesKey

LEMMA ReportLogs ==
  ASSUME NEW i
  PROVE  /\ {l.name : l \in Main(i).logs} = IF i.is_final_report THEN proto.logs ELSE {}
         /\ ~i.is_final_report => Main(i).logs = {}
         /\ ByConsumer(i).logs = {}
<1>1. Main(i).logs = MainLogs(i) /\ ByConsumer(i).logs = {}
  BY DEF Main, ByConsumer, Operation
<1>2. {l.name : l \in MainLogs(i)} = IF i.is_final_report THEN proto.logs ELSE {}
  <2>1. \A l \in proto.logs : FillLogEntry(i, l).name = l
    BY DEF FillLogEntry
  <2> QED
    BY <2>1 DEF MainLogs
<1> QED
  BY <1>1, <1>2 DEF MainLogs

(* What a report counts.                                                     *)
LEMMA CountOfRequests == ASSUME NEW i PROVE MetricValues("request_count", i) = {1}
BY DEF MetricValues, SetConstantMetric

LEMMA MainCount ==
  ASSUME NEW i, InfoOK(i), NEW mk \in {"PRODUCER", "CONSUMER"}, AsksFor("request_count", mk)
  PROVE  ValueIn(Main(i), "request_count", mk)
           = IF i.is_first_report /\ (mk = "PRODUCER" \/ i.api_key) THEN 1 ELSE 0
<1>1. CASE i.is_first_report /\ (mk = "PRODUCER" \/ i.api_key)
  <2>1. PICK m \in proto.metrics : m.family = "request_count" /\ m.mark = mk
    BY DEF AsksFor
  <2>2. m \in MainDue(i)
    BY <1>1, <2>1 DEF MainDue
  <2>3. m.tag = "START"
    BY <2>1, ProtoTables, Tags
  <2>4. Due(m, i)
    BY <1>1, <2>3 DEF Due
  <2>5. ValueIn(Main(i), m.family, m.mark) = 1
    BY <2>1, <2>2, <2>4, CountOfRequests, ValueOne DEF Main
  <2> QED
    BY <1>1, <2>1, <2>5
<1>2. CASE ~(i.is_first_report /\ (mk = "PRODUCER" \/ i.api_key))
  <2>1. ASSUME NEW m \in MainDue(i), m.family = "request_count", m.mark = mk
        PROVE  ~Due(m, i)
    <3>1. m.tag = "START"
      BY <2>1, ProtoTables, Tags DEF MainDue
    <3> QED
      BY <1>2, <2>1, <3>1 DEF MainDue, Due
  <2>2. ValueIn(Main(i), "request_count", mk) = 0
    BY <2>1, ValueNone DEF Main
  <2> QED
    BY <1>2, <2>2
<1> QED
  BY <1>1, <1>2

LEMMA ByConsumerCount ==
  ASSUME NEW i, InfoOK(i)
  PROVE  /\ ValueIn(Main(i), "request_count", "PRODUCER_BY_CONSUMER") = 0
         /\ ~i.is_final_report =>
              ValueIn(ByConsumer(i), "request_count", "PRODUCER_BY_CONSUMER") = 0
         /\ i.is_final_report /\ AsksFor("request_count", "PRODUCER_BY_CONSUMER") =>
              ValueIn(ByConsumer(i), "request_count", "PRODUCER_BY_CONSUMER") = 1
<1>1. ValueIn(Main(i), "request_count", "PRODUCER_BY_CONSUMER") = 0
  BY ValueNone DEF Main, MainDue
<1>2. ASSUME ~i.is_final_report
      PROVE  ValueIn(ByConsumer(i), "request_count", "PRODUCER_BY_CONSUMER") = 0
  <2>1. ASSUME NEW m \in ByConsumerDue, m.family = "request_count" PROVE ~Due(m, i)
    <3>1. m.tag = "FINAL"
      BY <2>1, ProtoTables, Tags DEF ByConsumerDue
    <3> QED
      BY <1>2, <3>1 DEF Due
  <2> QED
    BY <2>1, ValueNone DEF ByConsumer
<1>3. ASSUME i.is_final_report, AsksFor("request_count", "PRODUCER_BY_CONSUMER")
      PROVE  ValueIn(ByConsumer(i), "request_count", "PRODUCER_BY_CONSUMER") = 1
  <2>1. PICK m \in proto.metrics :
          m.family = "request_count" /\ m.mark = "PRODUCER_BY_CONSUMER"
    BY <1>3 DEF AsksFor
  <2>2. m \in ByConsumerDue /\ m.tag = "FINAL"
    BY <2>1, ProtoTables, Tags DEF ByConsumerDue
  <2>3. Due(m, i)
    BY <1>3, <2>2 DEF Due
  <2>4. ValueIn(ByConsumer(i), m.family, m.mark) = 1
    BY <2>1, <2>2, <2>3, CountOfRequests, ValueOne DEF ByConsumer
  <2> QED
    BY <2>1, <2>4
<1> QED
  BY <1>1, <1>2, <1>3

(* The second operation counts nothing for the producer or the consumer.     *)
LEMMA ByConsumerNothing ==
  ASSUME NEW i, NEW f, NEW mk \in {"PRODUCER", "CONSUMER"}
  PROVE  ValueIn(ByConsumer(i), f, mk) = 0
BY ValueNone DEF ByConsumer, ByConsumerDue

BytesIn(i) == [request |-> i.request_bytes, response |-> i.response_bytes]

LEMMA MainBytes ==
  ASSUME NEW i, InfoOK(i), NEW d \in Dir, AsksFor(BytesOf[d], "PRODUCER"), BytesIn(i)[d] >= 0
  PROVE  ValueIn(Main(i), BytesOf[d], "PRODUCER") = BytesIn(i)[d]
<1> DEFINE f == BytesOf[d]
           b == BytesIn(i)[d]
<1>0. f \in {"request_bytes", "response_bytes"} /\ b \in Int
  BY DEF Dir, BytesOf, BytesIn, InfoOK
<1>1. MetricValues(f, i) = Above(0, b)
  BY DEF Dir, BytesOf, BytesIn, MetricValues, SetStreamMetric
<1>2. PICK m \in proto.metrics : m.family = f /\ m.mark = "PRODUCER"
  BY DEF AsksFor
<1>3. m \in MainDue(i) /\ m.tag = "INTERMEDIATE"
  <2>1. m.tag = "INTERMEDIATE"
    BY <1>0, <1>2, ProtoTables, Tags
  <2> QED
    BY <1>2, <2>1 DEF MainDue
<1>4. Due(m, i)
  BY <1>3 DEF Due, InfoOK
<1> HIDE DEF f, b
<1>5. CASE b > 0
  <2>1. MetricValues(m.family, i) = {b}
    BY <1>1, <1>2, <1>5 DEF Above
  <2>2. ValueIn(Main(i), m.family, m.mark) = b
    BY <1>3, <1>4, <2>1, ValueOne DEF Main
  <2> QED
    BY <1>2, <2>2 DEF f, b
<1>6. CASE ~(b > 0)
  <2>1. MetricValues(f, i) = {}
    BY <1>1, <1>6 DEF Above
  <2>2. ValueIn(Main(i), f, "PRODUCER") = 0
    BY <2>1, ValueNone DEF Main
  <2> QED
    BY <1>0, <1>6, <2>2 DEF f, b
<1> QED
  BY <1>5, <1>6

(* The values of a whole report.                                             *)
LEMMA ReportValues ==
  ASSUME NEW i, InfoOK(i)
  PROVE  LET report == FillReportRequest(i, proto) IN
         /\ \A mk \in {"PRODUCER", "CONSUMER"} : AsksFor("request_count", mk) =>
              ReportValue(report, "request_count", mk)
                = IF i.is_first_report /\ (mk = "PRODUCER" \/ i.api_key) THEN 1 ELSE 0
         /\ ~i.is_final_report =>
              ReportValue(report, "request_count", "PRODUCER_BY_CONSUMER") = 0
         /\ i.is_final_report /\ AsksFor("request_count", "PRODUCER_BY_CONSUMER") =>
              ReportValue(report, "request_count", "PRODUCER_BY_CONSUMER")
                = IF i.consumer_project THEN 1 ELSE 0
         /\ \A d \in Dir : AsksFor(BytesOf[d], "PRODUCER") /\ BytesIn(i)[d] >= 0 =>
              ReportValue(report, BytesOf[d], "PRODUCER") = BytesIn(i)[d]
<1> DEFINE report == FillReportRequest(i, proto)
<1>1. /\ Len(report) = IF i.consumer_project THEN 2 ELSE 1
      /\ report[1] = Main(i)
      /\ i.consumer_project => report[2] = ByConsumer(i)
      /\ i.consumer_project \in BOOLEAN
  BY ReportShape DEF InfoOK
<1> HIDE DEF report
<1>2. \A f, mk : ReportValue(report, f, mk)
        = ValueIn(Main(i), f, mk)
            + (IF i.consumer_project THEN ValueIn(ByConsumer(i), f, mk) ELSE 0)
  BY <1>1 DEF ReportValue
<1>3. ASSUME NEW mk \in {"PRODUCER", "CONSUMER"}, AsksFor("request_count", mk)
      PROVE  ReportValue(report, "request_count", mk)
               = IF i.is_first_report /\ (mk = "PRODUCER" \/ i.api_key) THEN 1 ELSE 0
  BY <1>2, <1>3, MainCount, ByConsumerNothing
<1>4. /\ ~i.is_final_report =>
           ReportValue(report, "request_count", "PRODUCER_BY_CONSUMER") = 0
      /\ i.is_final_report /\ AsksFor("request_count", "PRODUCER_BY_CONSUMER") =>
           ReportValue(report, "request_count", "PRODUCER_BY_CONSUMER")
             = IF i.consumer_project THEN 1 ELSE 0
  BY <1>2, ByConsumerCount
<1>5. ASSUME NEW d \in Dir, AsksFor(BytesOf[d], "PRODUCER"), BytesIn(i)[d] >= 0
      PROVE  ReportValue(report, BytesOf[d], "PRODUCER") = BytesIn(i)[d]
  <2>1. BytesIn(i)[d] \in Int
    BY DEF Dir, BytesIn, InfoOK
  <2>2. ValueIn(Main(i), BytesOf[d], "PRODUCER") = BytesIn(i)[d]
    BY <1>5, MainBytes
  <2>3. ValueIn(ByConsumer(i), BytesOf[d], "PRODUCER") = 0
    BY ByConsumerNothing
  <2> QED
    BY <1>2, <2>1, <2>2, <2>3
<1> QED
  BY <1>3, <1>4, <1>5 DEF report

-----------------------------------------------------------------------------
(* The reports of a request as a whole.                                      *)
LEMMA ReportValueType ==
  ASSUME NEW report \in Seq(ReportOperation), Len(report) \in {1, 2}, NEW f, NEW mk
  PROVE  ReportValue(report, f, mk) \in Int
<1>1. \A op \in ReportOperation : ValueIn(op, f, mk) \in Int
  BY DEF ReportOperation, Metric, ValueIn
<1>2. report[1] \in ReportOperation /\ (Len(report) # 1 => report[2] \in ReportOperation)
  OBVIOUS
<1> QED
  BY <1>1, <1>2 DEF ReportValue

WellFormed(rs) ==
  rs \in Seq(Seq(ReportOperation)) /\ \A i \in 1..Len(rs) : Len(rs[i]) \in {1, 2}

LEMMA TotalOfNone ==
  ASSUME NEW r, reports[r] = <<>>, NEW f, NEW mk
  PROVE  Total(r, f, mk) = 0
<1>1. Len(reports[r]) = 0
  OBVIOUS
<1> QED
  BY <1>1, SumOfNone DEF Total

LEMMA TotalOfMore ==
  ASSUME NEW r, NEW report \in Seq(ReportOperation), Len(report) \in {1, 2},
         WellFormed(reports[r]), reports'[r] = Append(reports[r], report), NEW f, NEW mk
  PROVE  /\ Total(r, f, mk) \in Int
         /\ Total(r, f, mk)' = Total(r, f, mk) + ReportValue(report, f, mk)
<1> DEFINE rs == reports[r]
           n == Len(rs)
           v == [i \in 1..n |-> ReportValue(rs[i], f, mk)]
           w == [i \in 1..(n + 1) |-> ReportValue(reports'[r][i], f, mk)]
<1>1. n \in Nat /\ rs \in Seq(Seq(ReportOperation))
  BY DEF WellFormed
<1>2. /\ Len(reports'[r]) = n + 1 /\ reports'[r][n + 1] = report
      /\ \A i \in 1..n : reports'[r][i] = rs[i]
  BY <1>1
<1>3. ASSUME NEW i \in 1..n PROVE v[i] \in Int /\ v[i] = w[i]
  <2>1. rs[i] \in Seq(ReportOperation) /\ Len(rs[i]) \in {1, 2}
    BY <1>1 DEF WellFormed
  <2>2. ReportValue(rs[i], f, mk) \in Int
    BY <2>1, ReportValueType
  <2>3. i \in 1..(n + 1)
    BY <1>1
  <2> QED
    BY <1>2, <2>2, <2>3
<1>4. w[n + 1] = ReportValue(report, f, mk) /\ w[n + 1] \in Int
  <2>1. n + 1 \in 1..(n + 1)
    BY <1>1
  <2> QED
    BY <1>2, <2>1, ReportValueType
<1>5. Total(r, f, mk) = SumTo(v, n)
  BY DEF Total
<1>6. Total(r, f, mk)' = SumTo(w, n + 1)
  BY <1>2 DEF Total
<1> HIDE DEF v, w, n
<1>7. SumTo(v, n) \in Int /\ SumTo(w, n + 1) = SumTo(v, n) + w[n + 1]
  BY <1>1, <1>3, <1>4, SumOfMore
<1> QED
  BY <1>4, <1>5, <1>6, <1>7

LEMMA TotalKept ==
  ASSUME NEW r, reports'[r] = reports[r], NEW f, NEW mk
  PROVE  Total(r, f, mk)' = Total(r, f, mk)
BY DEF Total

LEMMA ReportsWellFormed ==
  ASSUME ServiceControlInvariant, NEW r \in Request
  PROVE  WellFormed(reports[r])
BY DEF ServiceControlInvariant, TypeOK, ReportInvariant, WellFormed

(* A step that reports nothing keeps what is known of the reports.           *)
LEMMA ReportsKept ==
  ASSUME ServiceControlInvariant,
         UNCHANGED <<reports, first, last, size, has_key>>,
         \A r \in Request : \A d \in Dir : last[r][d] <= bytes'[r][d],
         client' => client \/ \A r \in Request : phase[r] = "new",
         \A r \in Request :
           /\ phase'[r] = "reported" => phase[r] = "reported"
           /\ phase'[r] \notin {"reported", "unreported"} =>
                phase[r] \notin {"reported", "unreported"}
           /\ info'[r] = info[r] \/ phase[r] \in {"new", "checking"}
  PROVE  ReportInvariant' /\ CountedOnce' /\ BytesAddUp'
<1>1. /\ TypeOK /\ CheckInvariant /\ ReportInvariant /\ CountedOnce /\ BytesAddUp
      /\ reports' = reports /\ first' = first /\ last' = last /\ size' = size
      /\ has_key' = has_key
  BY DEF ServiceControlInvariant
<1>2. ASSUME NEW r \in Request, NEW f, NEW mk PROVE Total(r, f, mk)' = Total(r, f, mk)
  BY <1>1, TotalKept
<1>3. ASSUME NEW r \in Request, info'[r] = info[r] PROVE UsableKey(r)' = UsableKey(r)
  BY <1>1, <1>3 DEF UsableKey
<1>4. ASSUME NEW r \in Request, phase[r] \in {"new", "checking"}
      PROVE  Len(reports'[r]) = 0 /\ CountsSoFar(r)'
  <2>1. /\ reports[r] = <<>> /\ first[r] /\ \A d \in Dir : last[r][d] = 0
    BY <1>1, <1>4 DEF CheckInvariant
  <2>2. Len(reports'[r]) = 0
    BY <1>1, <2>1
  <2>3. \A f, mk : Total(r, f, mk)' = 0
    BY <1>2, <2>1, TotalOfNone
  <2> QED
    BY <1>1, <2>1, <2>2, <2>3 DEF CountsSoFar
<1>5. ASSUME NEW r \in Request, info'[r] = info[r]
      PROVE  (CountsSoFar(r) => CountsSoFar(r)') /\ (CountsOnce(r) => CountsOnce(r)')
  <2>1. UsableKey(r)' = UsableKey(r)
    BY <1>3, <1>5
  <2>2. \A f, mk : Total(r, f, mk)' = Total(r, f, mk)
    BY <1>2
  <2>3. CountsSoFar(r) => CountsSoFar(r)'
    BY <1>1, <2>1, <2>2 DEF CountsSoFar
  <2>4. CountsOnce(r) => CountsOnce(r)'
    BY <1>1, <1>5, <2>1, <2>2 DEF CountsOnce
  <2> QED
    BY <2>3, <2>4
<1>7. ReportInvariant'
  <2> SUFFICES ASSUME NEW r \in Request
               PROVE  /\ \A i \in 1..Len(reports[r]) : Len(reports[r][i]) \in {1, 2}
                      /\ \A i \in 1..Len(reports[r]) : \A j \in 1..Len(reports[r][i]) :
                           NamesKey(reports[r][i][j]) => UsableKey(r)'
                      /\ client' /\ phase'[r] \notin {"reported", "unreported"} =>
                           CountsSoFar(r)'
    BY <1>1 DEF ReportInvariant
  <2>1. CASE info'[r] = info[r]
    BY <1>1, <1>3, <1>4, <1>5, <2>1 DEF ReportInvariant
  <2>2. CASE phase[r] \in {"new", "checking"}
    BY <1>1, <1>4, <2>2
  <2> QED
    BY <2>1, <2>2
<1>8. CountedOnce'
  BY <1>1, <1>5 DEF CountedOnce
<1>6. BytesAddUp'
  BY <1>1, <1>2 DEF BytesAddUp
<1> QED
  BY <1>6, <1>7, <1>8

-----------------------------------------------------------------------------
(* The worker's own steps: the client comes and goes, its cache changes.     *)
LEMMA WorkerStep ==
  ASSUME ServiceControlInvariant, AggregatedInit \/ Close \/ OtherCheck \/ Expire
  PROVE  ServiceControlInvariant'
<1>0. TypeOK /\ CheckInvariant /\ ReportInvariant /\ CheckDecides
  BY DEF ServiceControlInvariant
<1>1. /\ phase' = phase /\ has_key' = has_key /\ info' = info /\ asked' = asked
      /\ told' = told /\ status' = status /\ first' = first /\ last' = last
      /\ bytes' = bytes /\ size' = size /\ reports' = reports
  BY DEF AggregatedInit, Close, OtherCheck, Expire
<1>2. /\ client' => client \/ \A r \in Request : phase[r] = "new"
      /\ fail_open' = fail_open \/ \A r \in Request : phase[r] = "new"
      /\ client' \in BOOLEAN /\ fail_open' \in BOOLEAN
      /\ cache' \subseteq [errors : CheckAnswer, project : BOOLEAN]
  <2>1. CASE AggregatedInit
    BY <1>0, <2>1 DEF AggregatedInit, InitHttpRequestTimeoutRetries, TypeOK
  <2>2. CASE Close
    <3>1. client' = FALSE /\ cache' = {} /\ fail_open' = fail_open
      BY <2>2 DEF Close
    <3> QED
      BY <1>0, <3>1 DEF TypeOK
  <2>3. CASE OtherCheck
    <3>1. client /\ client' = client /\ fail_open' = fail_open
      BY <2>3 DEF OtherCheck
    <3>2. PICK errors \in CheckAnswer, project \in BOOLEAN :
            cache' = {[errors |-> errors, project |-> project]}
      BY <2>3 DEF OtherCheck
    <3>3. cache' \subseteq [errors : CheckAnswer, project : BOOLEAN]
      BY <3>2
    <3> QED
      BY <1>0, <3>1, <3>3 DEF TypeOK
  <2>4. CASE Expire
    <3>1. client' = client /\ cache' = {} /\ fail_open' = fail_open
      BY <2>4 DEF Expire
    <3> QED
      BY <1>0, <3>1 DEF TypeOK
  <2> QED
    BY <2>1, <2>2, <2>3, <2>4
<1>3. TypeOK'
  BY <1>0, <1>1, <1>2 DEF TypeOK
<1>4. CheckInvariant'
  BY <1>0, <1>1 DEF CheckInvariant, UsableKey
<1>5. ReportInvariant' /\ CountedOnce' /\ BytesAddUp'
  <2>1. \A r \in Request : \A d \in Dir : last[r][d] <= bytes'[r][d]
    BY <1>0, <1>1 DEF ReportInvariant
  <2> QED
    BY <1>1, <1>2, <2>1, ReportsKept
<1>6. CheckDecides'
  BY <1>0, <1>1, <1>2 DEF CheckDecides
<1> QED
  BY <1>3, <1>4, <1>5, <1>6 DEF ServiceControlInvariant

CheckInfo == [is_api_key_valid : BOOLEAN, service_is_activated : BOOLEAN,
              consumer_project : BOOLEAN]
Answer == [code : HttpAnswer \union {OK}, errors : CheckAnswer \union {NoErrors},
           parsed : BOOLEAN]

(* The calls of a request name the key it carries.                           *)
AsksRight(r) ==
  /\ asked' \in [Request -> SUBSET AskedRequest]
  /\ \A q \in Request \ {r} : asked'[q] = asked[q]
  /\ \A a \in asked'[r] : a.request.consumer_id = has_key[r]

(* Where a check may lead with what it got.                                  *)
Justified(r, p, s, x, t) ==
  /\ p = "checking" => x = DefaultInfo /\ t = Untold
  /\ p = "quota" => x.is_api_key_valid /\ x.service_is_activated
  /\ RefusesKey(t) => ~(x.is_api_key_valid /\ x.service_is_activated)
  /\ has_key[r] /\ p = "quota" =>
       Passed(t) \/ (fail_open /\ StatusCodeIs5xxHttpCode(CallStatus(t.code, t.parsed)))
  /\ has_key[r] /\ p = "denied" /\ CallStatus(t.code, t.parsed) # OK => HttpCode(s) >= 500

LEMMA CheckGoes ==
  ASSUME ServiceControlInvariant, NEW r \in Request, phase[r] \in {"new", "checking"},
         NEW p \in {"checking", "quota", "denied"}, NEW s \in Int,
         NEW x \in CheckInfo, NEW t \in Answer,
         Goto(r, p, s), info' = [info EXCEPT ![r] = x], told' = [told EXCEPT ![r] = t],
         Justified(r, p, s, x, t), AsksRight(r),
         cache' \subseteq [errors : CheckAnswer, project : BOOLEAN],
         UNCHANGED <<client, fail_open, has_key, first, last, bytes, size, reports>>
  PROVE  ServiceControlInvariant'
<1>0. TypeOK /\ CheckInvariant /\ ReportInvariant /\ CheckDecides
  BY DEF ServiceControlInvariant
<1>1. /\ client' = client /\ fail_open' = fail_open /\ has_key' = has_key /\ first' = first
      /\ last' = last /\ bytes' = bytes /\ size' = size /\ reports' = reports
      /\ phase' = [phase EXCEPT ![r] = p] /\ status' = [status EXCEPT ![r] = s]
  BY DEF Goto
<1>2. TypeOK'
  BY <1>0, <1>1 DEF TypeOK, CheckInfo, Answer, AsksRight
<1>3. /\ phase'[r] = p /\ status'[r] = s /\ info'[r] = x /\ told'[r] = t
      /\ \A q \in Request \ {r} : /\ phase'[q] = phase[q] /\ status'[q] = status[q]
                                   /\ info'[q] = info[q] /\ told'[q] = told[q]
  BY <1>0, <1>1 DEF TypeOK
<1>4. CheckInvariant'
  <2> SUFFICES ASSUME NEW q \in Request
               PROVE  /\ \A a \in asked'[q] : a.request.consumer_id = has_key[q]
                      /\ phase'[q] \in {"new", "checking"} =>
                           /\ info'[q] = DefaultInfo /\ told'[q] = Untold
                           /\ first[q] /\ reports[q] = <<>> /\ \A d \in Dir : last[q][d] = 0
                      /\ phase'[q] \in {"quota", "serving", "over_quota"} =>
                           UsableKey(q)' = has_key[q]
                      /\ RefusesKey(told'[q]) => ~UsableKey(q)'
    BY <1>1 DEF CheckInvariant
  <2>1. UsableKey(q)' = (has_key[q] /\ info'[q].is_api_key_valid /\ info'[q].service_is_activated)
    BY <1>1 DEF UsableKey
  <2>2. CASE q = r
    <3>1. \A a \in asked'[q] : a.request.consumer_id = has_key[q]
      BY <2>2 DEF AsksRight
    <3>2. phase'[q] \in {"new", "checking"} =>
            /\ info'[q] = DefaultInfo /\ told'[q] = Untold
            /\ first[q] /\ reports[q] = <<>> /\ \A d \in Dir : last[q][d] = 0
      BY <1>0, <1>3, <2>2 DEF Justified, CheckInvariant
    <3>3. phase'[q] \in {"quota", "serving", "over_quota"} => UsableKey(q)' = has_key[q]
      <4>1. has_key[q] \in BOOLEAN
        BY <1>0 DEF TypeOK
      <4> QED
        BY <1>3, <2>1, <2>2, <4>1 DEF Justified
    <3>4. RefusesKey(told'[q]) => ~UsableKey(q)'
      BY <1>3, <2>1, <2>2 DEF Justified
    <3> QED
      BY <3>1, <3>2, <3>3, <3>4
  <2>3. CASE q # r
    <3>1. UsableKey(q)' = UsableKey(q)
      BY <1>3, <2>1, <2>3 DEF UsableKey
    <3> QED
      BY <1>0, <1>3, <2>3, <3>1 DEF CheckInvariant, AsksRight
  <2> QED
    BY <2>2, <2>3
<1>5. ReportInvariant' /\ CountedOnce' /\ BytesAddUp'
  <2>1. \A q \in Request : \A d \in Dir : last[q][d] <= bytes'[q][d]
    BY <1>0, <1>1 DEF ReportInvariant
  <2>2. \A q \in Request :
          /\ phase'[q] = "reported" => phase[q] = "reported"
          /\ phase'[q] \notin {"reported", "unreported"} =>
               phase[q] \notin {"reported", "unreported"}
          /\ info'[q] = info[q] \/ phase[q] \in {"new", "checking"}
    BY <1>3
  <2> QED
    BY <1>1, <2>1, <2>2, ReportsKept
<1>6. CheckDecides'
  <2> SUFFICES ASSUME NEW q \in Request, has_key[q]
               PROVE  LET c == CallStatus(told'[q].code, told'[q].parsed) IN
                      /\ phase'[q] \in {"quota", "serving"} =>
                           Passed(told'[q]) \/ (fail_open /\ StatusCodeIs5xxHttpCode(c))
                      /\ phase'[q] = "denied" /\ c # OK => HttpCode(status'[q]) >= 500
    BY <1>1 DEF CheckDecides
  <2>1. CASE q = r
    BY <1>3, <2>1 DEF Justified
  <2>2. CASE q # r
    BY <1>0, <1>3, <2>2 DEF CheckDecides
  <2> QED
    BY <2>1, <2>2
<1> QED
  BY <1>2, <1>4, <1>5, <1>6 DEF ServiceControlInvariant

-----------------------------------------------------------------------------
(* What the answers of the server mean.                                      *)
LEMMA Converted ==
  ASSUME NEW response \in [errors : CheckAnswer, project : BOOLEAN]
  PROVE  LET c == ConvertCheckResponse(response) IN
         /\ c.status \in Int
         /\ c.is_api_key_valid \in BOOLEAN /\ c.service_is_activated \in BOOLEAN
         /\ c.consumer_project \in BOOLEAN
         /\ c.status = OK =>
              /\ c.is_api_key_valid /\ c.service_is_activated
              /\ response.errors = NoErrors \/ Head(response.errors) \in UnavailableErrors
         /\ response.errors # NoErrors
              /\ Head(response.errors) \in KeyErrors \union {"SERVICE_NOT_ACTIVATED"} =>
              ~(c.is_api_key_valid /\ c.service_is_activated)
<1> DEFINE c == ConvertCheckResponse(response)
           e == Head(response.errors)
<1>1. /\ c.is_api_key_valid = (response.errors = NoErrors \/ e \notin KeyErrors)
      /\ c.service_is_activated = (response.errors = NoErrors \/ e # "SERVICE_NOT_ACTIVATED")
      /\ c.consumer_project = response.project
      /\ c.status = IF response.errors = NoErrors THEN OK ELSE CheckErrorStatus(e)
  BY DEF ConvertCheckResponse
<1> HIDE DEF c, e
<1>2. CheckErrorStatus(e) \in Int
  BY DEF CheckErrorStatus, INVALID_ARGUMENT, PERMISSION_DENIED, OK, INTERNAL
<1>3. CheckErrorStatus(e) = OK => e \in UnavailableErrors
  BY DEF CheckErrorStatus, INVALID_ARGUMENT, PERMISSION_DENIED, OK, INTERNAL
<1>4. e \in UnavailableErrors => e \notin KeyErrors /\ e # "SERVICE_NOT_ACTIVATED"
  BY DEF UnavailableErrors, KeyErrors
<1>5. c.status \in Int
  BY <1>1, <1>2 DEF OK
<1>6. c.status = OK => response.errors = NoErrors \/ e \in UnavailableErrors
  BY <1>1, <1>3
<1>7. c.status = OK => c.is_api_key_valid /\ c.service_is_activated
  BY <1>1, <1>4, <1>6
<1>8. response.errors # NoErrors /\ e \in KeyErrors \union {"SERVICE_NOT_ACTIVATED"} =>
        ~(c.is_api_key_valid /\ c.service_is_activated)
  BY <1>1
<1>9. /\ c.is_api_key_valid \in BOOLEAN /\ c.service_is_activated \in BOOLEAN
      /\ c.consumer_project \in BOOLEAN
  BY <1>1
<1> QED
  BY <1>5, <1>6, <1>7, <1>8, <1>9 DEF c, e

LEMMA CallStatusOK ==
  ASSUME NEW code \in Int, NEW parsed \in BOOLEAN
  PROVE  /\ CallStatus(code, parsed) \in Int
         /\ CallStatus(code, parsed) = OK => (IsOk(code) /\ parsed) \/ code \in 201..299
         /\ IsOk(code) /\ parsed => CallStatus(code, parsed) = OK
<1>1. HttpToCanonical(code) \in Int
  BY DEF HttpToCanonical, OK, CANCELLED, UNKNOWN, INVALID_ARGUMENT, DEADLINE_EXCEEDED, NOT_FOUND,
         PERMISSION_DENIED, RESOURCE_EXHAUSTED, FAILED_PRECONDITION, ABORTED, OUT_OF_RANGE,
         UNIMPLEMENTED, INTERNAL, UNAVAILABLE, UNAUTHENTICATED
<1>2. HttpToCanonical(code) = OK => code \in 200..299
  BY DEF HttpToCanonical, OK, CANCELLED, UNKNOWN, INVALID_ARGUMENT, DEADLINE_EXCEEDED, NOT_FOUND,
         PERMISSION_DENIED, RESOURCE_EXHAUSTED, FAILED_PRECONDITION, ABORTED, OUT_OF_RANGE,
         UNIMPLEMENTED, INTERNAL, UNAVAILABLE, UNAUTHENTICATED
<1>3. CASE IsOk(code)
  BY <1>3 DEF CallStatus, OK, INVALID_ARGUMENT
<1>4. CASE ~IsOk(code) /\ code < 0
  BY <1>4 DEF CallStatus, OK, UNAVAILABLE
<1>5. CASE ~IsOk(code) /\ code >= 0
  <2>1. code # 200 /\ code # 0
    BY <1>5 DEF IsOk, StatusOf, OK
  <2>2. CallStatus(code, parsed) = CanonicalCode(code)
    BY <1>5 DEF CallStatus
  <2>3. CanonicalCode(code) = IF code < 100 THEN code ELSE HttpToCanonical(code)
    BY <1>5 DEF CanonicalCode
  <2> QED
    BY <1>1, <1>2, <1>5, <2>1, <2>2, <2>3 DEF OK
<1> QED
  BY <1>3, <1>4, <1>5

LEMMA ServerErrors ==
  ASSUME NEW s, StatusCodeIs5xxHttpCode(s)
  PROVE  s \in Int /\ HttpCode(s) >= 500
<1>1. s \in {4, 12, 13, 14}
  BY DEF StatusCodeIs5xxHttpCode, UNAVAILABLE, INTERNAL, UNIMPLEMENTED, DEADLINE_EXCEEDED
<1>2. HttpCode(s) = CanonicalToHttp[s]
  BY <1>1 DEF HttpCode, Canonical
<1>3. CanonicalToHttp[s] \in {504, 501, 500, 503}
  BY <1>1 DEF CanonicalToHttp, Canonical
<1> QED
  BY <1>1, <1>2, <1>3

-----------------------------------------------------------------------------
(* A call of a request names the key it carries: while it checks or pays for *)
(* quota, no check has found the key wanting.                                *)
LEMMA Asks ==
  ASSUME ServiceControlInvariant, NEW r \in Request, UsableKey(r) = has_key[r], NEW kind,
         NEW request, [kind |-> kind, request |-> request] \in AskedRequest,
         request.consumer_id = ConsumerId(OperationInfo(r)), Ask(r, kind, request)
  PROVE  AsksRight(r)
<1>0. asked \in [Request -> SUBSET AskedRequest] /\ CheckInvariant
  BY DEF ServiceControlInvariant, TypeOK
<1> DEFINE a == [kind |-> kind, request |-> request]
<1>1. asked' = [asked EXCEPT ![r] = @ \union {a}]
  BY DEF Ask
<1>2. a \in AskedRequest /\ a.request.consumer_id = has_key[r]
  BY DEF ConsumerId, OperationInfo
<1> HIDE DEF a
<1>3. asked' \in [Request -> SUBSET AskedRequest] /\ asked'[r] = asked[r] \union {a}
  BY <1>0, <1>1, <1>2
<1>4. \A q \in Request \ {r} : asked'[q] = asked[q]
  BY <1>0, <1>1
<1>5. \A b \in asked[r] : b.request.consumer_id = has_key[r]
  BY <1>0 DEF CheckInvariant
<1> QED
  BY <1>2, <1>3, <1>4, <1>5 DEF AsksRight

LEMMA AsksNothing ==
  ASSUME ServiceControlInvariant, NEW r \in Request, asked' = asked
  PROVE  AsksRight(r)
BY DEF ServiceControlInvariant, TypeOK, CheckInvariant, AsksRight

(* Before a check is answered nothing is held against the key.               *)
LEMMA Unchecked ==
  ASSUME ServiceControlInvariant, NEW r \in Request, phase[r] \in {"new", "checking"}
  PROVE  /\ info[r] = DefaultInfo /\ told[r] = Untold
         /\ info = [info EXCEPT ![r] = DefaultInfo] /\ told = [told EXCEPT ![r] = Untold]
         /\ UsableKey(r) = has_key[r]
         /\ DefaultInfo \in CheckInfo /\ Untold \in Answer
<1>1. /\ info[r] = DefaultInfo /\ told[r] = Untold /\ has_key[r] \in BOOLEAN
      /\ info \in [Request -> CheckInfo] /\ told \in [Request -> Answer]
  BY DEF ServiceControlInvariant, CheckInvariant, TypeOK, CheckInfo, Answer
<1>2. UsableKey(r) = has_key[r]
  BY <1>1 DEF UsableKey, DefaultInfo
<1>3. info = [info EXCEPT ![r] = DefaultInfo] /\ told = [told EXCEPT ![r] = Untold]
  BY <1>1
<1>4. DefaultInfo \in CheckInfo /\ Untold \in Answer
  BY <1>1
<1> QED
  BY <1>1, <1>2, <1>3, <1>4

LEMMA NothingHeldAgainst ==
  /\ ~RefusesKey(Untold)
  /\ DefaultInfo.is_api_key_valid /\ DefaultInfo.service_is_activated
BY DEF RefusesKey, Untold, DefaultInfo

LEMMA AnswerType == ASSUME NEW t \in Answer PROVE t.code \in Int /\ t.parsed \in BOOLEAN
<1>1. OK \in Int /\ HttpAnswer \subseteq Int
  BY ServiceControlAssumption DEF OK
<1>2. t.code \in HttpAnswer \union {OK} /\ t.parsed \in BOOLEAN
  BY DEF Answer
<1> QED
  BY <1>1, <1>2

(* A response leads where its first error says.                              *)
LEMMA ResponseGoes ==
  ASSUME ServiceControlInvariant, NEW r \in Request, phase[r] \in {"new", "checking"},
         NEW response \in [errors : CheckAnswer, project : BOOLEAN],
         OnCheckResponse(r, response), NEW t \in Answer,
         told' = [told EXCEPT ![r] = t],
         t.errors = response.errors, CallStatus(t.code, t.parsed) = OK,
         (IsOk(t.code) /\ t.parsed) \/ response.errors = NoErrors,
         AsksRight(r), cache' \subseteq [errors : CheckAnswer, project : BOOLEAN],
         UNCHANGED <<client, fail_open, has_key, first, last, bytes, size, reports>>
  PROVE  ServiceControlInvariant'
<1> DEFINE c == ConvertCheckResponse(response)
           x == [is_api_key_valid |-> c.is_api_key_valid,
                 service_is_activated |-> c.service_is_activated,
                 consumer_project |-> c.consumer_project]
           p == IF c.status = OK THEN "quota" ELSE "denied"
<1>1. info' = [info EXCEPT ![r] = x] /\ Goto(r, p, c.status)
  BY DEF OnCheckResponse
<1>2. /\ c.status \in Int
      /\ c.is_api_key_valid \in BOOLEAN /\ c.service_is_activated \in BOOLEAN
      /\ c.consumer_project \in BOOLEAN
      /\ c.status = OK =>
           /\ c.is_api_key_valid /\ c.service_is_activated
           /\ response.errors = NoErrors \/ Head(response.errors) \in UnavailableErrors
      /\ response.errors # NoErrors
           /\ Head(response.errors) \in KeyErrors \union {"SERVICE_NOT_ACTIVATED"} =>
           ~(c.is_api_key_valid /\ c.service_is_activated)
  BY Converted
<1> HIDE DEF c
<1>3. x \in CheckInfo /\ p \in {"quota", "denied"}
  BY <1>2 DEF CheckInfo
<1>4. /\ x.is_api_key_valid = c.is_api_key_valid
      /\ x.service_is_activated = c.service_is_activated
      /\ p = "quota" => c.status = OK
  OBVIOUS
<1> HIDE DEF x, p
<1>5. RefusesKey(t) => ~(x.is_api_key_valid /\ x.service_is_activated)
  BY <1>2, <1>4 DEF RefusesKey
<1>6. p = "quota" => Passed(t)
  <2>1. t.code \in Int /\ t.parsed \in BOOLEAN
    BY AnswerType
  <2>2. (IsOk(t.code) /\ t.parsed) \/ t.code \in 201..299
    BY <2>1, CallStatusOK
  <2> QED
    BY <1>2, <1>4, <2>2 DEF Passed
<1>7. Justified(r, p, c.status, x, t)
  BY <1>2, <1>3, <1>4, <1>5, <1>6 DEF Justified
<1> QED
  BY <1>1, <1>2, <1>3, <1>7, CheckGoes

LEMMA CheckStep ==
  ASSUME ServiceControlInvariant, NEW r \in Request, Check(r)
  PROVE  ServiceControlInvariant'
<1>0. TypeOK /\ phase[r] \in {"new", "checking"}
  BY DEF ServiceControlInvariant, Check
<1>1. /\ client' = client /\ fail_open' = fail_open /\ cache' = cache /\ has_key' = has_key
      /\ first' = first /\ last' = last /\ bytes' = bytes /\ size' = size
      /\ reports' = reports
  BY DEF Check
<1>2. cache' \subseteq [errors : CheckAnswer, project : BOOLEAN]
  BY <1>0, <1>1 DEF TypeOK
<1>3. ASSUME NEW p \in {"checking", "quota", "denied"}, NEW s \in Int, Goto(r, p, s),
             info' = info, told' = told, AsksRight(r), has_key[r] => p # "quota",
             has_key[r] /\ p = "denied" => HttpCode(s) >= 500
      PROVE  ServiceControlInvariant'
  <2>1. Justified(r, p, s, DefaultInfo, Untold)
    BY <1>3, NothingHeldAgainst DEF Justified
  <2> QED
    BY <1>0, <1>1, <1>2, <1>3, <2>1, Unchecked, CheckGoes
<1>4. CASE /\ ~has_key[r] /\ UNCHANGED <<info, asked, told>>
           /\ Goto(r, "quota", OK) \/ Goto(r, "denied", UNAUTHENTICATED)
  <2>1. OK \in Int /\ UNAUTHENTICATED \in Int
    BY DEF OK, UNAUTHENTICATED
  <2> QED
    BY <1>3, <1>4, <2>1, AsksNothing
<1>5. CASE has_key[r] /\ ~client /\ Goto(r, "denied", INTERNAL) /\ UNCHANGED <<info, asked, told>>
  <2>1. INTERNAL \in Int
    BY DEF INTERNAL
  <2>2. HttpCode(INTERNAL) >= 500
    BY ServerErrors DEF StatusCodeIs5xxHttpCode
  <2> QED
    BY <1>3, <1>5, <2>1, <2>2, AsksNothing
<1> DEFINE request == FillCheckRequest(OperationInfo(r))
<1>6. ASSUME Ask(r, "check", request) PROVE AsksRight(r)
  <2>1. request.consumer_id = ConsumerId(OperationInfo(r))
    BY DEF FillCheckRequest
  <2>2. ConsumerId(OperationInfo(r)) \in BOOLEAN
    BY <1>0, Unchecked DEF TypeOK, ConsumerId, OperationInfo
  <2>3. request \in [consumer_id : BOOLEAN, labels : SUBSET {"user_agent", "service_agent", "referer"}]
    BY <2>2 DEF FillCheckRequest
  <2>4. [kind |-> "check", request |-> request] \in AskedRequest
    BY <2>3 DEF AskedRequest
  <2> HIDE DEF request
  <2> QED
    BY <1>0, <1>6, <2>1, <2>4, Unchecked, Asks
<1> HIDE DEF request
<1>7. CASE /\ has_key[r] /\ client /\ cache = {} /\ Goto(r, "checking", OK)
           /\ Ask(r, "check", request) /\ UNCHANGED <<info, told>>
  <2>1. OK \in Int
    BY DEF OK
  <2> QED
    BY <1>3, <1>6, <1>7, <2>1
<1>8. CASE /\ has_key[r] /\ client /\ Ask(r, "check", request)
           /\ \E response \in cache :
                /\ OnCheckResponse(r, response)
                /\ told' = [told EXCEPT ![r] = Cached(response)]
  <2>1. PICK response \in cache :
          /\ OnCheckResponse(r, response)
          /\ told' = [told EXCEPT ![r] = Cached(response)]
    BY <1>8
  <2>2. response \in [errors : CheckAnswer, project : BOOLEAN]
    BY <1>0 DEF TypeOK
  <2> DEFINE t == Cached(response)
  <2>3. t \in Answer /\ t.code = OK /\ t.parsed = TRUE /\ t.errors = response.errors
    BY <2>2 DEF Answer, Cached
  <2>4. CallStatus(t.code, t.parsed) = OK /\ IsOk(t.code) /\ t.parsed
    BY <2>3 DEF CallStatus, IsOk, StatusOf, OK
  <2> HIDE DEF t
  <2>5. told' = [told EXCEPT ![r] = t]
    BY <2>1 DEF t
  <2>6. AsksRight(r)
    BY <1>6, <1>8
  <2> QED
    BY <1>0, <1>1, <1>2, <2>1, <2>2, <2>3, <2>4, <2>5, <2>6, ResponseGoes
<1> QED
  BY <1>4, <1>5, <1>7, <1>8 DEF Check, request

LEMMA CheckAnsweredStep ==
  ASSUME ServiceControlInvariant, NEW r \in Request, CheckAnswered(r)
  PROVE  ServiceControlInvariant'
<1>0. TypeOK /\ phase[r] \in {"new", "checking"}
  BY DEF ServiceControlInvariant, CheckAnswered
<1>1. /\ client' = client /\ fail_open' = fail_open /\ has_key' = has_key /\ asked' = asked
      /\ first' = first /\ last' = last /\ bytes' = bytes /\ size' = size
      /\ reports' = reports
  BY DEF CheckAnswered
<1>2. AsksRight(r)
  BY <1>1, AsksNothing
<1>3. PICK code \in HttpAnswer, errors \in CheckAnswer, parsed \in BOOLEAN, project \in BOOLEAN :
        LET response == [errors |-> errors, project |-> project]
            s == CallStatus(code, parsed)
        IN  /\ (IsOk(code) /\ parsed) \/ (errors = NoErrors /\ ~project)
            /\ told' = [told EXCEPT ![r] = [code |-> code, errors |-> errors, parsed |-> parsed]]
            /\ IF s = OK
               THEN /\ OnCheckResponse(r, response)
                    /\ cache' = IF client THEN {response} ELSE {}
               ELSE CheckFailed(r, s) /\ UNCHANGED cache
  BY DEF CheckAnswered
<1> DEFINE response == [errors |-> errors, project |-> project]
           t == [code |-> code, errors |-> errors, parsed |-> parsed]
           s == CallStatus(code, parsed)
<1>4. /\ t \in Answer /\ t.code = code /\ t.errors = errors /\ t.parsed = parsed
      /\ response \in [errors : CheckAnswer, project : BOOLEAN] /\ response.errors = errors
      /\ code \in Int /\ told' = [told EXCEPT ![r] = t]
  BY <1>3, ServiceControlAssumption DEF Answer
<1>5. CASE s = OK
  <2>1. OnCheckResponse(r, response) /\ cache' = IF client THEN {response} ELSE {}
    BY <1>3, <1>5
  <2>2. (IsOk(code) /\ parsed) \/ errors = NoErrors
    BY <1>3
  <2> HIDE DEF t, response
  <2>3. cache' \subseteq [errors : CheckAnswer, project : BOOLEAN]
    BY <1>4, <2>1
  <2> QED
    BY <1>0, <1>1, <1>2, <1>4, <1>5, <2>1, <2>2, <2>3, ResponseGoes
<1>6. CASE s # OK
  <2>1. CheckFailed(r, s) /\ cache' = cache
    BY <1>3, <1>6
  <2> HIDE DEF t, response, s
  <2>2. cache' \subseteq [errors : CheckAnswer, project : BOOLEAN]
    BY <1>0, <2>1 DEF TypeOK
  <2>3. ~RefusesKey(t)
    BY <1>4, <1>6, CallStatusOK DEF RefusesKey, s
  <2>4. s = CallStatus(t.code, t.parsed)
    BY <1>4 DEF s
  <2>5. info' = [info EXCEPT ![r] = DefaultInfo]
    BY <2>1 DEF CheckFailed
  <2>6. CASE fail_open /\ StatusCodeIs5xxHttpCode(s)
    <3>1. Goto(r, "quota", OK) /\ OK \in Int
      BY <2>1, <2>6 DEF CheckFailed, OK
    <3>2. Justified(r, "quota", OK, DefaultInfo, t)
      BY <2>3, <2>4, <2>6, NothingHeldAgainst DEF Justified
    <3> QED
      BY <1>0, <1>1, <1>2, <1>4, <2>2, <2>5, <3>1, <3>2, Unchecked, CheckGoes
  <2>7. CASE ~(fail_open /\ StatusCodeIs5xxHttpCode(s))
    <3> DEFINE e == IF StatusCodeIs5xxHttpCode(s) THEN s ELSE INTERNAL
    <3>1. Goto(r, "denied", e)
      BY <2>1, <2>7 DEF CheckFailed
    <3>2. StatusCodeIs5xxHttpCode(e)
      BY DEF StatusCodeIs5xxHttpCode
    <3> HIDE DEF e
    <3>3. e \in Int /\ HttpCode(e) >= 500
      BY <3>2, ServerErrors
    <3>4. Justified(r, "denied", e, DefaultInfo, t)
      BY <2>3, <3>3 DEF Justified
    <3> QED
      BY <1>0, <1>1, <1>2, <1>4, <2>2, <2>5, <3>1, <3>3, <3>4, Unchecked, CheckGoes
  <2> QED
    BY <2>6, <2>7
<1> QED
  BY <1>5, <1>6

-----------------------------------------------------------------------------
(* A request that has passed the check: its quota, its stream, its reports.  *)
LEMMA QuotaStep ==
  ASSUME ServiceControlInvariant, NEW r \in Request, Quota(r)
  PROVE  ServiceControlInvariant'
<1>0. TypeOK /\ CheckInvariant /\ ReportInvariant /\ CheckDecides /\ phase[r] = "quota"
  BY DEF ServiceControlInvariant, Quota
<1>1. /\ client' = client /\ fail_open' = fail_open /\ cache' = cache /\ has_key' = has_key
      /\ info' = info /\ told' = told /\ first' = first /\ last' = last /\ bytes' = bytes
      /\ size' = size /\ reports' = reports
  BY DEF Quota
<1>2. UsableKey(r) = has_key[r] /\ has_key[r] \in BOOLEAN
  BY <1>0 DEF CheckInvariant, TypeOK
<1>3. /\ AsksRight(r)
      /\ \E p \in {"serving", "over_quota"}, s \in Int : Goto(r, p, s)
  <2>1. PICK costs \in Costs :
          \/ costs = {} /\ Goto(r, "serving", OK) /\ UNCHANGED asked
          \/ costs # {} /\ ~client /\ Goto(r, "over_quota", INTERNAL) /\ UNCHANGED asked
          \/ /\ costs # {} /\ client
             /\ Ask(r, "quota", FillAllocateQuotaRequest(OperationInfo(r), costs))
             /\ \E code \in HttpAnswer, errors \in QuotaAnswer, parsed \in BOOLEAN :
                  LET s == IF CallStatus(code, parsed) = OK
                           THEN ConvertAllocateQuotaResponse(errors)
                           ELSE CallStatus(code, parsed)
                  IN  IF s \in {OK, UNAVAILABLE} THEN Goto(r, "serving", OK)
                      ELSE Goto(r, "over_quota", s)
    BY DEF Quota
  <2>2. OK \in Int /\ INTERNAL \in Int
    BY DEF OK, INTERNAL
  <2>3. CASE costs = {} /\ Goto(r, "serving", OK) /\ UNCHANGED asked
    BY <2>2, <2>3, AsksNothing
  <2>4. CASE costs # {} /\ ~client /\ Goto(r, "over_quota", INTERNAL) /\ UNCHANGED asked
    BY <2>2, <2>4, AsksNothing
  <2> DEFINE request == FillAllocateQuotaRequest(OperationInfo(r), costs)
  <2>5. ASSUME Ask(r, "quota", request) PROVE AsksRight(r)
    <3>1. request.consumer_id = ConsumerId(OperationInfo(r))
      BY DEF FillAllocateQuotaRequest
    <3>2. ConsumerId(OperationInfo(r)) \in BOOLEAN
      BY <1>2 DEF ConsumerId, OperationInfo
    <3>3. request.metrics \in SUBSET [metric : {c.metric : c \in UNION Costs}, cost : Int]
      BY ServiceControlAssumption DEF FillAllocateQuotaRequest
    <3>4. [kind |-> "quota", request |-> request] \in AskedRequest
      BY <3>1, <3>2, <3>3 DEF AskedRequest, FillAllocateQuotaRequest
    <3> HIDE DEF request
    <3> QED
      BY <1>2, <2>5, <3>1, <3>4, Asks
  <2>6. ASSUME NEW code \in HttpAnswer, NEW errors \in QuotaAnswer, NEW parsed \in BOOLEAN,
               LET s == IF CallStatus(code, parsed) = OK
                        THEN ConvertAllocateQuotaResponse(errors)
                        ELSE CallStatus(code, parsed)
               IN  IF s \in {OK, UNAVAILABLE} THEN Goto(r, "serving", OK)
                   ELSE Goto(r, "over_quota", s)
        PROVE  \E p \in {"serving", "over_quota"}, s \in Int : Goto(r, p, s)
    <3>1. code \in Int
      BY ServiceControlAssumption
    <3>2. CallStatus(code, parsed) \in Int
      BY <3>1, CallStatusOK
    <3>3. ConvertAllocateQuotaResponse(errors) \in Int
      BY DEF ConvertAllocateQuotaResponse, OK, RESOURCE_EXHAUSTED, PERMISSION_DENIED,
             INVALID_ARGUMENT, INTERNAL
    <3> QED
      BY <2>2, <2>6, <3>2, <3>3
  <2>7. CASE /\ costs # {} /\ client /\ Ask(r, "quota", request)
             /\ \E code \in HttpAnswer, errors \in QuotaAnswer, parsed \in BOOLEAN :
                  LET s == IF CallStatus(code, parsed) = OK
                           THEN ConvertAllocateQuotaResponse(errors)
                           ELSE CallStatus(code, parsed)
                  IN  IF s \in {OK, UNAVAILABLE} THEN Goto(r, "serving", OK)
                      ELSE Goto(r, "over_quota", s)
    BY <2>5, <2>6, <2>7
  <2> QED
    BY <2>1, <2>3, <2>4, <2>7
<1>4. PICK p \in {"serving", "over_quota"}, s \in Int : Goto(r, p, s)
  BY <1>3
<1>5. phase' = [phase EXCEPT ![r] = p] /\ status' = [status EXCEPT ![r] = s]
  BY <1>4 DEF Goto
<1>6. TypeOK'
  BY <1>0, <1>1, <1>3, <1>5 DEF TypeOK, AsksRight
<1>7. /\ phase'[r] = p
      /\ \A q \in Request \ {r} : phase'[q] = phase[q] /\ status'[q] = status[q]
  BY <1>0, <1>5 DEF TypeOK
<1>8. \A q \in Request : UsableKey(q)' = UsableKey(q)
  BY <1>1 DEF UsableKey
<1>9. CheckInvariant'
  <2> SUFFICES ASSUME NEW q \in Request
               PROVE  /\ \A a \in asked'[q] : a.request.consumer_id = has_key[q]
                      /\ phase'[q] \in {"new", "checking"} =>
                           /\ info[q] = DefaultInfo /\ told[q] = Untold
                           /\ first[q] /\ reports[q] = <<>> /\ \A d \in Dir : last[q][d] = 0
                      /\ phase'[q] \in {"quota", "serving", "over_quota"} =>
                           UsableKey(q) = has_key[q]
                      /\ RefusesKey(told[q]) => ~UsableKey(q)
    BY <1>1, <1>8 DEF CheckInvariant
  <2>1. CASE q = r
    BY <1>0, <1>2, <1>3, <1>7, <2>1 DEF CheckInvariant, AsksRight
  <2>2. CASE q # r
    BY <1>0, <1>3, <1>7, <2>2 DEF CheckInvariant, AsksRight
  <2> QED
    BY <2>1, <2>2
<1>10. ReportInvariant' /\ CountedOnce' /\ BytesAddUp'
  <2>1. \A q \in Request : \A d \in Dir : last[q][d] <= bytes'[q][d]
    BY <1>0, <1>1 DEF ReportInvariant
  <2>2. \A q \in Request :
          /\ phase'[q] = "reported" => phase[q] = "reported"
          /\ phase'[q] \notin {"reported", "unreported"} =>
               phase[q] \notin {"reported", "unreported"}
          /\ info'[q] = info[q] \/ phase[q] \in {"new", "checking"}
    BY <1>0, <1>1, <1>7
  <2> QED
    BY <1>1, <2>1, <2>2, ReportsKept
<1>11. CheckDecides'
  <2> SUFFICES ASSUME NEW q \in Request, has_key[q]
               PROVE  LET c == CallStatus(told[q].code, told[q].parsed) IN
                      /\ phase'[q] \in {"quota", "serving"} =>
                           Passed(told[q]) \/ (fail_open /\ StatusCodeIs5xxHttpCode(c))
                      /\ phase'[q] = "denied" /\ c # OK => HttpCode(status'[q]) >= 500
    BY <1>1 DEF CheckDecides
  <2>1. CASE q = r
    BY <1>0, <1>7, <2>1 DEF CheckDecides
  <2>2. CASE q # r
    BY <1>0, <1>7, <2>2 DEF CheckDecides
  <2> QED
    BY <2>1, <2>2
<1> QED
  BY <1>6, <1>9, <1>10, <1>11 DEF ServiceControlInvariant

LEMMA StreamStep ==
  ASSUME ServiceControlInvariant, NEW r \in Request, NEW d \in Dir, Stream(r, d)
  PROVE  ServiceControlInvariant'
<1>0. TypeOK /\ CheckInvariant /\ ReportInvariant /\ CheckDecides
  BY DEF ServiceControlInvariant
<1>1. /\ client' = client /\ fail_open' = fail_open /\ cache' = cache /\ phase' = phase
      /\ has_key' = has_key /\ info' = info /\ asked' = asked /\ told' = told
      /\ status' = status /\ first' = first /\ last' = last /\ size' = size
      /\ reports' = reports /\ bytes' = [bytes EXCEPT ![r][d] = @ + 1]
  BY DEF Stream
<1>2. bytes \in [Request -> [Dir -> Nat]] /\ last \in [Request -> [Dir -> Nat]]
  BY <1>0 DEF TypeOK
<1>3. /\ bytes' \in [Request -> [Dir -> Nat]]
      /\ \A q \in Request, e \in Dir : bytes[q][e] <= bytes'[q][e]
  BY <1>1, <1>2
<1>4. TypeOK'
  BY <1>0, <1>1, <1>3 DEF TypeOK
<1>5. CheckInvariant'
  BY <1>0, <1>1 DEF CheckInvariant, UsableKey
<1>6. ReportInvariant' /\ CountedOnce' /\ BytesAddUp'
  <2>1. \A q \in Request : \A e \in Dir : last[q][e] <= bytes'[q][e]
    <3> SUFFICES ASSUME NEW q \in Request, NEW e \in Dir PROVE last[q][e] <= bytes'[q][e]
      OBVIOUS
    <3>1. last[q][e] <= bytes[q][e] /\ bytes[q][e] <= bytes'[q][e]
      BY <1>0, <1>3 DEF ReportInvariant
    <3>2. last[q][e] \in Nat /\ bytes[q][e] \in Nat /\ bytes'[q][e] \in Nat
      BY <1>2, <1>3
    <3> QED
      BY <3>1, <3>2
  <2> QED
    BY <1>1, <2>1, ReportsKept
<1>7. CheckDecides'
  BY <1>0, <1>1 DEF CheckDecides
<1> QED
  BY <1>4, <1>5, <1>6, <1>7 DEF ServiceControlInvariant

-----------------------------------------------------------------------------
(* What the invariant says of the reports of one request.                    *)
ReportsOK(r) ==
  /\ \A d \in Dir : last[r][d] <= bytes[r][d]
  /\ \A i \in 1..Len(reports[r]) : Len(reports[r][i]) \in {1, 2}
  /\ \A i \in 1..Len(reports[r]) : \A j \in 1..Len(reports[r][i]) :
       NamesKey(reports[r][i][j]) => UsableKey(r)
  /\ client /\ phase[r] \notin {"reported", "unreported"} => CountsSoFar(r)
  /\ phase[r] = "reported" => CountsOnce(r)
  /\ phase[r] = "reported" =>
       \A d \in Dir : AsksFor(BytesOf[d], "PRODUCER") =>
         Total(r, BytesOf[d], "PRODUCER")
           = IF size[r][d] < last[r][d] THEN last[r][d] ELSE size[r][d]

LEMMA AllReportsOK ==
  (\A r \in Request : ReportsOK(r)) <=> ReportInvariant /\ CountedOnce /\ BytesAddUp
BY DEF ReportsOK, ReportInvariant, CountedOnce, BytesAddUp

(* The report of one request leaves what is known of another.                *)
LEMMA OthersKept ==
  ASSUME NEW q \in Request, ReportsOK(q), client' = client, info' = info, has_key' = has_key,
         bytes' = bytes, phase'[q] = phase[q], last'[q] = last[q], size'[q] = size[q],
         first'[q] = first[q], reports'[q] = reports[q]
  PROVE  ReportsOK(q)'
<1>1. UsableKey(q)' = UsableKey(q)
  BY DEF UsableKey
<1>2. \A f, mk : Total(q, f, mk)' = Total(q, f, mk)
  BY TotalKept
<1>3. CountsSoFar(q) => CountsSoFar(q)'
  BY <1>1, <1>2 DEF CountsSoFar
<1>4. CountsOnce(q) => CountsOnce(q)'
  BY <1>1, <1>2 DEF CountsOnce
<1> QED
  BY <1>1, <1>2, <1>3, <1>4 DEF ReportsOK

(* One more report, with the information i.                                  *)
LEMMA OneMoreReport ==
  ASSUME ServiceControlInvariant, NEW r \in Request, NEW i, InfoOK(i), i.api_key = UsableKey(r),
         reports' = [reports EXCEPT ![r] = Append(@, FillReportRequest(i, proto))]
  PROVE  LET report == FillReportRequest(i, proto)
             n == Len(reports[r])
         IN
         /\ reports' \in [Request -> Seq(Seq(ReportOperation))]
         /\ \A q \in Request \ {r} : reports'[q] = reports[q]
         /\ n \in Nat /\ Len(reports'[r]) = n + 1 /\ reports'[r][n + 1] = report
         /\ \A k \in 1..n : reports'[r][k] = reports[r][k]
         /\ \A k \in 1..(n + 1) : Len(reports'[r][k]) \in {1, 2}
         /\ \A k \in 1..(n + 1) : \A j \in 1..Len(reports'[r][k]) :
              NamesKey(reports'[r][k][j]) => UsableKey(r)
         /\ \A f, mk : /\ Total(r, f, mk) \in Int
                       /\ Total(r, f, mk)' = Total(r, f, mk) + ReportValue(report, f, mk)
<1> DEFINE report == FillReportRequest(i, proto)
           n == Len(reports[r])
<1>0. /\ reports \in [Request -> Seq(Seq(ReportOperation))] /\ WellFormed(reports[r])
      /\ \A k \in 1..n : \A j \in 1..Len(reports[r][k]) :
           NamesKey(reports[r][k][j]) => UsableKey(r)
  BY ReportsWellFormed DEF ServiceControlInvariant, TypeOK, ReportInvariant
<1>1. /\ report \in Seq(ReportOperation) /\ Len(report) \in {1, 2}
      /\ \A j \in 1..Len(report) : report[j] \in {Main(i), ByConsumer(i)}
  <2>1. /\ report \in Seq(ReportOperation)
        /\ Len(report) = IF i.consumer_project THEN 2 ELSE 1
        /\ report[1] = Main(i)
        /\ i.consumer_project => report[2] = ByConsumer(i)
    BY ReportShape
  <2> HIDE DEF report
  <2> QED
    BY <2>1
<1> HIDE DEF report
<1>2. reports' = [reports EXCEPT ![r] = Append(@, report)]
  BY DEF report
<1>3. reports[r] \in Seq(Seq(ReportOperation)) /\ n \in Nat
  BY <1>0
<1>4. Append(reports[r], report) \in Seq(Seq(ReportOperation))
  BY <1>1, <1>3
<1>5. /\ reports' \in [Request -> Seq(Seq(ReportOperation))]
      /\ reports'[r] = Append(reports[r], report)
      /\ \A q \in Request \ {r} : reports'[q] = reports[q]
  BY <1>0, <1>2, <1>4
<1>6. /\ Len(reports'[r]) = n + 1 /\ reports'[r][n + 1] = report
      /\ \A k \in 1..n : reports'[r][k] = reports[r][k]
  BY <1>3, <1>5
<1>7. ASSUME NEW k \in 1..(n + 1)
      PROVE  /\ Len(reports'[r][k]) \in {1, 2}
             /\ \A j \in 1..Len(reports'[r][k]) : NamesKey(reports'[r][k][j]) => UsableKey(r)
  <2>1. CASE k \in 1..n
    BY <1>0, <1>6, <2>1 DEF WellFormed
  <2>2. CASE k = n + 1
    BY <1>1, <1>6, <2>2, ReportNamesKey
  <2> QED
    BY <1>3, <2>1, <2>2, SMTT(30)
<1>8. ASSUME NEW f, NEW mk
      PROVE  /\ Total(r, f, mk) \in Int
             /\ Total(r, f, mk)' = Total(r, f, mk) + ReportValue(report, f, mk)
  <2>1. /\ report \in Seq(ReportOperation) /\ Len(report) \in {1, 2}
        /\ WellFormed(reports[r]) /\ reports'[r] = Append(reports[r], report)
    BY <1>0, <1>1, <1>5
  <2> QED
    BY <2>1, TotalOfMore
<1> QED
  BY <1>3, <1>5, <1>6, <1>7, <1>8 DEF report

LEMMA HttpCodeType == ASSUME NEW s \in Int PROVE HttpCode(s) \in Int
<1>1. CASE s >= 100
  BY <1>1 DEF HttpCode
<1>2. CASE s < 0
  <2>1. CASE s >= -6
    <3>1. s \in -6..-1 /\ HttpCode(s) = NginxToHttp[s]
      BY <1>2, <2>1 DEF HttpCode
    <3>2. s \in {-6, -5, -4, -3, -2, -1}
      BY <3>1
    <3>3. NginxToHttp[s] \in Int
      BY <3>1, <3>2 DEF NginxToHttp
    <3> QED
      BY <3>1, <3>3
  <2>2. CASE ~(s >= -6)
    BY <1>2, <2>2 DEF HttpCode
  <2> QED
    BY <2>1, <2>2
<1>3. CASE s \in Canonical
  <2>1. s \in 0..16 /\ HttpCode(s) = CanonicalToHttp[s]
    BY <1>3 DEF HttpCode, Canonical
  <2>2. CanonicalToHttp[s] = <<200, 499, 500, 400, 504, 404, 409, 403, 429, 400, 409, 400,
                              501, 500, 503, 500, 401>>[s + 1]
    BY <1>3 DEF CanonicalToHttp
  <2>3. <<200, 499, 500, 400, 504, 404, 409, 403, 429, 400, 409, 400,
          501, 500, 503, 500, 401>> \in Seq(Int)
    OBVIOUS
  <2> QED
    BY <2>1, <2>2, <2>3
<1>4. CASE s < 100 /\ ~(s < 0) /\ s \notin Canonical
  BY <1>4 DEF HttpCode
<1> QED
  BY <1>1, <1>2, <1>3, <1>4

(* What RequestContext fills in.                                             *)
LEMMA Filled ==
  ASSUME ServiceControlInvariant, NEW r \in Request, NEW final \in BOOLEAN,
         NEW sizes \in [Dir -> Int], NEW delta \in [Dir -> Int]
  PROVE  LET i == ReportInfo(r, final, sizes, delta) IN
         /\ InfoOK(i) /\ i.api_key = UsableKey(r)
         /\ i.consumer_project = info[r].consumer_project
         /\ i.is_first_report = first[r] /\ i.is_final_report = final
         /\ \A d \in Dir : BytesIn(i)[d] = delta[d]
<1> DEFINE i == ReportInfo(r, final, sizes, delta)
<1>1. /\ i.api_key = UsableKey(r) /\ i.auth_issuer = FALSE
      /\ i.consumer_project = info[r].consumer_project
      /\ i.is_first_report = first[r] /\ i.is_final_report = final
      /\ i.response_code = IF final THEN HttpCode(status[r]) ELSE 200
      /\ i.request_size = sizes["request"] /\ i.response_size = sizes["response"]
      /\ i.request_bytes = delta["request"] /\ i.response_bytes = delta["response"]
      /\ i.request_messages = 0 /\ i.response_messages = 0 /\ i.duration = 0
      /\ i.request_time = -1 /\ i.backend_time = -1 /\ i.overhead_time = -1
  BY DEF ReportInfo
<1> HIDE DEF i
<1>2. /\ status[r] \in Int /\ first[r] \in BOOLEAN /\ info[r].consumer_project \in BOOLEAN
      /\ UsableKey(r) \in BOOLEAN
  BY DEF ServiceControlInvariant, TypeOK, UsableKey
<1>3. i.response_code \in Int
  BY <1>1, <1>2, HttpCodeType
<1>4. /\ sizes["request"] \in Int /\ sizes["response"] \in Int
      /\ delta["request"] \in Int /\ delta["response"] \in Int
  BY DEF Dir
<1>5. InfoOK(i)
  BY <1>1, <1>2, <1>3, <1>4 DEF InfoOK
<1>6. \A d \in Dir : BytesIn(i)[d] = delta[d]
  BY <1>1 DEF BytesIn, Dir
<1> QED
  BY <1>1, <1>5, <1>6 DEF i

-----------------------------------------------------------------------------
(* An intermediate report, or the attempt at one when the client is gone.    *)
LEMMA AttemptIntermediateReportStep ==
  ASSUME ServiceControlInvariant, NEW r \in Request, AttemptIntermediateReport(r)
  PROVE  ServiceControlInvariant'
<1>0. /\ TypeOK /\ CheckInvariant /\ CheckDecides /\ phase[r] = "serving"
      /\ \A q \in Request : ReportsOK(q)
  BY AllReportsOK DEF ServiceControlInvariant, AttemptIntermediateReport
<1>1. /\ client' = client /\ fail_open' = fail_open /\ cache' = cache /\ phase' = phase
      /\ has_key' = has_key /\ info' = info /\ asked' = asked /\ told' = told
      /\ status' = status /\ bytes' = bytes /\ size' = size
      /\ last' = [last EXCEPT ![r] = bytes[r]]
  BY DEF AttemptIntermediateReport, Advance
<1>2. /\ last \in [Request -> [Dir -> Nat]] /\ bytes \in [Request -> [Dir -> Nat]]
      /\ first \in [Request -> BOOLEAN] /\ client \in BOOLEAN
  BY <1>0 DEF TypeOK
<1>3. /\ last' \in [Request -> [Dir -> Nat]] /\ last'[r] = bytes[r]
      /\ \A q \in Request \ {r} : last'[q] = last[q]
  BY <1>1, <1>2
<1> DEFINE delta == [d \in Dir |-> bytes[r][d] - last[r][d]]
           i == ReportInfo(r, FALSE, NoSizes, delta)
           report == FillReportRequest(i, proto)
           n == Len(reports[r])
           Kept == /\ \A q \in Request : ReportsOK(q)'
                   /\ reports' \in [Request -> Seq(Seq(ReportOperation))]
                   /\ first' \in [Request -> BOOLEAN]
                   /\ \A q \in Request \ {r} : reports'[q] = reports[q] /\ first'[q] = first[q]
<1>4. ASSUME client PROVE Kept
  <2>1. /\ reports' = [reports EXCEPT ![r] = Append(@, report)]
        /\ first' = [first EXCEPT ![r] = FALSE]
    BY <1>4 DEF AttemptIntermediateReport
  <2>2. first' \in [Request -> BOOLEAN] /\ ~first'[r] /\ \A q \in Request \ {r} : first'[q] = first[q]
    BY <1>2, <2>1
  <2>3. delta \in [Dir -> Int] /\ NoSizes \in [Dir -> Int]
    BY <1>2 DEF NoSizes
  <2> HIDE DEF delta
  <2>4. /\ InfoOK(i) /\ i.api_key = UsableKey(r)
        /\ i.is_first_report = first[r] /\ i.is_final_report = FALSE
        /\ \A d \in Dir : BytesIn(i)[d] = delta[d]
    <3>1. PICK final \in BOOLEAN : final = FALSE
      OBVIOUS
    <3> DEFINE j == ReportInfo(r, final, NoSizes, delta)
    <3>2. /\ InfoOK(j) /\ j.api_key = UsableKey(r)
          /\ j.is_first_report = first[r] /\ j.is_final_report = final
          /\ \A d \in Dir : BytesIn(j)[d] = delta[d]
      BY <2>3, Filled
    <3>3. j = i
      BY <3>1
    <3> HIDE DEF i, j
    <3> QED
      BY <3>1, <3>2, <3>3
  <2> HIDE DEF i
  <2>5. /\ reports' \in [Request -> Seq(Seq(ReportOperation))]
        /\ \A q \in Request \ {r} : reports'[q] = reports[q]
        /\ n \in Nat /\ Len(reports'[r]) = n + 1 /\ reports'[r][n + 1] = report
        /\ \A k \in 1..n : reports'[r][k] = reports[r][k]
        /\ \A k \in 1..(n + 1) : Len(reports'[r][k]) \in {1, 2}
        /\ \A k \in 1..(n + 1) : \A j \in 1..Len(reports'[r][k]) :
             NamesKey(reports'[r][k][j]) => UsableKey(r)
        /\ \A f, mk : /\ Total(r, f, mk) \in Int
                      /\ Total(r, f, mk)' = Total(r, f, mk) + ReportValue(report, f, mk)
    BY <2>1, <2>4, OneMoreReport
  <2>6. /\ \A mk \in {"PRODUCER", "CONSUMER"} : AsksFor("request_count", mk) =>
             ReportValue(report, "request_count", mk)
               = IF first[r] /\ (mk = "PRODUCER" \/ UsableKey(r)) THEN 1 ELSE 0
        /\ ReportValue(report, "request_count", "PRODUCER_BY_CONSUMER") = 0
        /\ \A d \in Dir : AsksFor(BytesOf[d], "PRODUCER") /\ delta[d] >= 0 =>
             ReportValue(report, BytesOf[d], "PRODUCER") = delta[d]
    BY <2>4, ReportValues
  <2>7. \A j \in 1..Len(report) : report[j].logs = {}
    <3>1. /\ Len(report) = IF i.consumer_project THEN 2 ELSE 1
          /\ report[1] = Main(i)
          /\ i.consumer_project => report[2] = ByConsumer(i)
      BY <2>4, ReportShape
    <3>2. Main(i).logs = {} /\ ByConsumer(i).logs = {}
      BY <2>4, ReportLogs
    <3> HIDE DEF report
    <3> QED
      BY <3>1, <3>2
  <2> HIDE DEF report
  <2>8. CountsSoFar(r) /\ UsableKey(r)' = UsableKey(r)
    BY <1>0, <1>1, <1>4 DEF ReportsOK, UsableKey
  <2>9. AsksFor("request_count", "PRODUCER") => Total(r, "request_count", "PRODUCER")' = 1
    <3> SUFFICES ASSUME AsksFor("request_count", "PRODUCER")
                 PROVE  Total(r, "request_count", "PRODUCER")' = 1
      OBVIOUS
    <3>1. Total(r, "request_count", "PRODUCER") = IF first[r] THEN 0 ELSE 1
      BY <2>8 DEF CountsSoFar
    <3>2. ReportValue(report, "request_count", "PRODUCER") = IF first[r] THEN 1 ELSE 0
      BY <2>6
    <3>3. Total(r, "request_count", "PRODUCER")'
            = Total(r, "request_count", "PRODUCER")
                + ReportValue(report, "request_count", "PRODUCER")
      BY <2>5
    <3> QED
      BY <3>1, <3>2, <3>3
  <2>10. AsksFor("request_count", "CONSUMER") =>
           Total(r, "request_count", "CONSUMER")' = IF UsableKey(r) THEN 1 ELSE 0
    <3> SUFFICES ASSUME AsksFor("request_count", "CONSUMER")
                 PROVE  Total(r, "request_count", "CONSUMER")' = IF UsableKey(r) THEN 1 ELSE 0
      OBVIOUS
    <3>1. Total(r, "request_count", "CONSUMER") = IF first[r] \/ ~UsableKey(r) THEN 0 ELSE 1
      BY <2>8 DEF CountsSoFar
    <3>2. ReportValue(report, "request_count", "CONSUMER")
            = IF first[r] /\ UsableKey(r) THEN 1 ELSE 0
      BY <2>6
    <3>3. Total(r, "request_count", "CONSUMER")'
            = Total(r, "request_count", "CONSUMER")
                + ReportValue(report, "request_count", "CONSUMER")
      BY <2>5
    <3> QED
      BY <3>1, <3>2, <3>3
  <2>11. Total(r, "request_count", "PRODUCER_BY_CONSUMER")' = 0
    BY <2>5, <2>6, <2>8 DEF CountsSoFar
  <2>12. ASSUME NEW d \in Dir, AsksFor(BytesOf[d], "PRODUCER")
         PROVE  Total(r, BytesOf[d], "PRODUCER")' = last'[r][d]
    <3>1. last[r][d] \in Nat /\ bytes[r][d] \in Nat /\ last[r][d] <= bytes[r][d]
      BY <1>0, <1>2 DEF ReportsOK
    <3>2. delta[d] = bytes[r][d] - last[r][d]
      BY DEF delta
    <3>3. delta[d] >= 0
      BY <3>1, <3>2
    <3>4. Total(r, BytesOf[d], "PRODUCER") = last[r][d]
      BY <2>8, <2>12 DEF CountsSoFar
    <3>5. ReportValue(report, BytesOf[d], "PRODUCER") = delta[d]
      BY <2>6, <2>12, <3>3
    <3>6. Total(r, BytesOf[d], "PRODUCER")' = last[r][d] + delta[d]
      BY <2>5, <3>4, <3>5
    <3> QED
      BY <1>3, <3>1, <3>2, <3>6
  <2>13. \A k \in 1..(n + 1) : \A j \in 1..Len(reports'[r][k]) : reports'[r][k][j].logs = {}
    <3> SUFFICES ASSUME NEW k \in 1..(n + 1)
                 PROVE  \A j \in 1..Len(reports'[r][k]) : reports'[r][k][j].logs = {}
      OBVIOUS
    <3>1. CASE k \in 1..n
      BY <2>5, <2>8, <3>1 DEF CountsSoFar
    <3>2. CASE k = n + 1
      BY <2>5, <2>7, <3>2
    <3> QED
      BY <2>5, <3>1, <3>2, SMTT(30)
  <2>14. CountsSoFar(r)'
    BY <2>2, <2>5, <2>8, <2>9, <2>10, <2>11, <2>12, <2>13 DEF CountsSoFar, AsksFor
  <2>15. ReportsOK(r)'
    <3>1. \A d \in Dir : last'[r][d] <= bytes[r][d]
      BY <1>2, <1>3
    <3> QED
      BY <1>0, <1>1, <2>5, <2>8, <2>14, <3>1 DEF ReportsOK
  <2>16. ASSUME NEW q \in Request \ {r} PROVE ReportsOK(q)'
    BY <1>0, <1>1, <1>3, <2>2, <2>5, OthersKept
  <2> QED
    BY <2>2, <2>5, <2>15, <2>16
<1>5. ASSUME ~client PROVE Kept
  <2>1. reports' = reports /\ first' = first
    BY <1>5 DEF AttemptIntermediateReport
  <2>2. ReportsOK(r)'
    <3>1. \A d \in Dir : last'[r][d] <= bytes[r][d]
      BY <1>2, <1>3
    <3>2. UsableKey(r)' = UsableKey(r)
      BY <1>1 DEF UsableKey
    <3> QED
      BY <1>0, <1>1, <1>5, <2>1, <3>1, <3>2 DEF ReportsOK
  <2>3. ASSUME NEW q \in Request \ {r} PROVE ReportsOK(q)'
    BY <1>0, <1>1, <1>3, <2>1, OthersKept
  <2>4. reports' \in [Request -> Seq(Seq(ReportOperation))] /\ first' \in [Request -> BOOLEAN]
    BY <1>0, <2>1 DEF TypeOK
  <2> QED
    BY <2>1, <2>2, <2>3, <2>4
<1>6. Kept
  BY <1>4, <1>5
<1>7. TypeOK'
  BY <1>0, <1>1, <1>3, <1>6 DEF TypeOK
<1>8. CheckInvariant'
  BY <1>0, <1>1, <1>3, <1>6 DEF CheckInvariant, UsableKey
<1>9. CheckDecides'
  BY <1>0, <1>1 DEF CheckDecides
<1>10. ReportInvariant' /\ CountedOnce' /\ BytesAddUp'
  BY <1>6 DEF ReportsOK, ReportInvariant, CountedOnce, BytesAddUp
<1> QED
  BY <1>7, <1>8, <1>9, <1>10 DEF ServiceControlInvariant

(* The final report of a request, or its end when the client is gone.        *)
LEMMA ReportStep ==
  ASSUME ServiceControlInvariant, NEW r \in Request, Report(r)
  PROVE  ServiceControlInvariant'
<1>0. /\ TypeOK /\ CheckInvariant /\ CheckDecides
      /\ phase[r] \in {"serving", "denied", "over_quota"}
      /\ \A q \in Request : ReportsOK(q)
  BY AllReportsOK DEF ServiceControlInvariant, Report
<1>1. /\ client' = client /\ fail_open' = fail_open /\ cache' = cache /\ has_key' = has_key
      /\ info' = info /\ asked' = asked /\ told' = told /\ status' = status
      /\ first' = first /\ last' = last /\ bytes' = bytes
      /\ phase' = [phase EXCEPT ![r] = IF client THEN "reported" ELSE "unreported"]
  BY DEF Report
<1>2. PICK sizes \in [Dir -> 0..(MaxBytes + 1)] :
        /\ size' = [size EXCEPT ![r] = sizes]
        /\ IF client
           THEN reports' = [reports EXCEPT ![r] =
                  Append(@, FillReportRequest(ReportInfo(r, TRUE, sizes, FinalDelta(r, sizes)),
                                              proto))]
           ELSE UNCHANGED reports
  BY DEF Report
<1>3. /\ last \in [Request -> [Dir -> Nat]] /\ size \in [Request -> [Dir -> Nat]]
      /\ first \in [Request -> BOOLEAN] /\ client \in BOOLEAN
      /\ phase \in [Request -> {"new", "checking", "quota", "serving", "denied", "over_quota",
                                "reported", "unreported"}]
  BY <1>0 DEF TypeOK
<1>4. sizes \in [Dir -> Nat] /\ sizes \in [Dir -> Int]
  BY ServiceControlAssumption
<1>5. /\ size' \in [Request -> [Dir -> Nat]] /\ size'[r] = sizes
      /\ \A q \in Request \ {r} : size'[q] = size[q]
  BY <1>2, <1>3, <1>4
<1>6. /\ phase'[r] = IF client THEN "reported" ELSE "unreported"
      /\ phase' \in [Request -> {"new", "checking", "quota", "serving", "denied", "over_quota",
                                 "reported", "unreported"}]
      /\ \A q \in Request \ {r} : phase'[q] = phase[q]
  BY <1>1, <1>3
<1>7. UsableKey(r)' = UsableKey(r)
  BY <1>1 DEF UsableKey
<1> DEFINE delta == FinalDelta(r, sizes)
           i == ReportInfo(r, TRUE, sizes, delta)
           report == FillReportRequest(i, proto)
           n == Len(reports[r])
           Kept == /\ \A q \in Request : ReportsOK(q)'
                   /\ reports' \in [Request -> Seq(Seq(ReportOperation))]
                   /\ \A q \in Request \ {r} : reports'[q] = reports[q]
<1>8. ASSUME client PROVE Kept
  <2>1. reports' = [reports EXCEPT ![r] = Append(@, report)]
    BY <1>2, <1>8
  <2>2. ASSUME NEW d \in Dir
        PROVE  /\ delta[d] = IF sizes[d] < last[r][d] THEN 0 ELSE sizes[d] - last[r][d]
               /\ delta[d] \in Int /\ delta[d] >= 0
    BY <1>3, <1>4 DEF FinalDelta
  <2>3. delta \in [Dir -> Int]
    BY <2>2 DEF FinalDelta
  <2> HIDE DEF delta
  <2>4. /\ InfoOK(i) /\ i.api_key = UsableKey(r)
        /\ i.consumer_project = info[r].consumer_project
        /\ i.is_first_report = first[r] /\ i.is_final_report = TRUE
        /\ \A d \in Dir : BytesIn(i)[d] = delta[d]
    <3>1. PICK final \in BOOLEAN : final = TRUE
      OBVIOUS
    <3> DEFINE j == ReportInfo(r, final, sizes, delta)
    <3>2. /\ InfoOK(j) /\ j.api_key = UsableKey(r)
          /\ j.consumer_project = info[r].consumer_project
          /\ j.is_first_report = first[r] /\ j.is_final_report = final
          /\ \A d \in Dir : BytesIn(j)[d] = delta[d]
      BY <1>4, <2>3, Filled
    <3>3. j = i
      BY <3>1
    <3> HIDE DEF i, j
    <3> QED
      BY <3>1, <3>2, <3>3
  <2> HIDE DEF i
  <2>5. /\ reports' \in [Request -> Seq(Seq(ReportOperation))]
        /\ \A q \in Request \ {r} : reports'[q] = reports[q]
        /\ n \in Nat /\ Len(reports'[r]) = n + 1 /\ reports'[r][n + 1] = report
        /\ \A k \in 1..n : reports'[r][k] = reports[r][k]
        /\ \A k \in 1..(n + 1) : Len(reports'[r][k]) \in {1, 2}
        /\ \A k \in 1..(n + 1) : \A j \in 1..Len(reports'[r][k]) :
             NamesKey(reports'[r][k][j]) => UsableKey(r)
        /\ \A f, mk : /\ Total(r, f, mk) \in Int
                      /\ Total(r, f, mk)' = Total(r, f, mk) + ReportValue(report, f, mk)
    BY <2>1, <2>4, OneMoreReport
  <2>6. /\ \A mk \in {"PRODUCER", "CONSUMER"} : AsksFor("request_count", mk) =>
             ReportValue(report, "request_count", mk)
               = IF first[r] /\ (mk = "PRODUCER" \/ UsableKey(r)) THEN 1 ELSE 0
        /\ AsksFor("request_count", "PRODUCER_BY_CONSUMER") =>
             ReportValue(report, "request_count", "PRODUCER_BY_CONSUMER")
               = IF info[r].consumer_project THEN 1 ELSE 0
        /\ \A d \in Dir : AsksFor(BytesOf[d], "PRODUCER") /\ delta[d] >= 0 =>
             ReportValue(report, BytesOf[d], "PRODUCER") = delta[d]
    BY <2>4, ReportValues
  <2>7. \A j \in 1..Len(report) :
          {l.name : l \in report[j].logs} = IF j = 1 THEN proto.logs ELSE {}
    <3>1. /\ Len(report) = IF i.consumer_project THEN 2 ELSE 1
          /\ report[1] = Main(i)
          /\ i.consumer_project => report[2] = ByConsumer(i)
      BY <2>4, ReportShape
    <3>2. {l.name : l \in Main(i).logs} = proto.logs /\ ByConsumer(i).logs = {}
      BY <2>4, ReportLogs
    <3> HIDE DEF report
    <3>3. {l.name : l \in report[1].logs} = proto.logs
      BY <3>1, <3>2
    <3>4. i.consumer_project => {l.name : l \in report[2].logs} = {}
      BY <3>1, <3>2
    <3> QED
      BY <3>1, <3>3, <3>4
  <2> HIDE DEF report
  <2>8. CountsSoFar(r)
    BY <1>0, <1>8 DEF ReportsOK
  <2>9. AsksFor("request_count", "PRODUCER") => Total(r, "request_count", "PRODUCER")' = 1
    <3> SUFFICES ASSUME AsksFor("request_count", "PRODUCER")
                 PROVE  Total(r, "request_count", "PRODUCER")' = 1
      OBVIOUS
    <3>1. Total(r, "request_count", "PRODUCER") = IF first[r] THEN 0 ELSE 1
      BY <2>8 DEF CountsSoFar
    <3>2. ReportValue(report, "request_count", "PRODUCER") = IF first[r] THEN 1 ELSE 0
      BY <2>6
    <3>3. Total(r, "request_count", "PRODUCER")'
            = Total(r, "request_count", "PRODUCER")
                + ReportValue(report, "request_count", "PRODUCER")
      BY <2>5
    <3> QED
      BY <3>1, <3>2, <3>3
  <2>10. AsksFor("request_count", "CONSUMER") =>
           Total(r, "request_count", "CONSUMER")' = IF UsableKey(r) THEN 1 ELSE 0
    <3> SUFFICES ASSUME AsksFor("request_count", "CONSUMER")
                 PROVE  Total(r, "request_count", "CONSUMER")' = IF UsableKey(r) THEN 1 ELSE 0
      OBVIOUS
    <3>1. Total(r, "request_count", "CONSUMER") = IF first[r] \/ ~UsableKey(r) THEN 0 ELSE 1
      BY <2>8 DEF CountsSoFar
    <3>2. ReportValue(report, "request_count", "CONSUMER")
            = IF first[r] /\ UsableKey(r) THEN 1 ELSE 0
      BY <2>6
    <3>3. Total(r, "request_count", "CONSUMER")'
            = Total(r, "request_count", "CONSUMER")
                + ReportValue(report, "request_count", "CONSUMER")
      BY <2>5
    <3> QED
      BY <3>1, <3>2, <3>3
  <2>11. AsksFor("request_count", "PRODUCER_BY_CONSUMER") =>
           Total(r, "request_count", "PRODUCER_BY_CONSUMER")'
             = IF info[r].consumer_project THEN 1 ELSE 0
    BY <2>5, <2>6, <2>8 DEF CountsSoFar
  <2>12. ASSUME NEW d \in Dir, AsksFor(BytesOf[d], "PRODUCER")
         PROVE  Total(r, BytesOf[d], "PRODUCER")'
                  = IF size'[r][d] < last[r][d] THEN last[r][d] ELSE size'[r][d]
    <3>1. last[r][d] \in Nat /\ sizes[d] \in Nat /\ size'[r][d] = sizes[d]
      BY <1>3, <1>4, <1>5
    <3>2. Total(r, BytesOf[d], "PRODUCER") = last[r][d]
      BY <2>8, <2>12 DEF CountsSoFar
    <3>3. ReportValue(report, BytesOf[d], "PRODUCER") = delta[d]
      BY <2>2, <2>6, <2>12
    <3>4. Total(r, BytesOf[d], "PRODUCER")' = last[r][d] + delta[d]
      BY <2>5, <3>2, <3>3
    <3> QED
      BY <2>2, <3>1, <3>4
  <2>13. LoggedOnce(reports'[r])
    <3> SUFFICES ASSUME NEW k \in 1..(n + 1), NEW j \in 1..Len(reports'[r][k])
                 PROVE  {l.name : l \in reports'[r][k][j].logs}
                          = IF k = n + 1 /\ j = 1 THEN proto.logs ELSE {}
      BY <2>5 DEF LoggedOnce
    <3>1. CASE k \in 1..n
      <4>1. reports'[r][k][j].logs = {}
        BY <2>5, <2>8, <3>1 DEF CountsSoFar
      <4>2. k # n + 1
        BY <2>5, <3>1
      <4> QED
        BY <4>1, <4>2
    <3>2. CASE k = n + 1
      <4>1. reports'[r][k] = report
        BY <2>5, <3>2
      <4>2. j \in 1..Len(report)
        BY <4>1
      <4>3. {l.name : l \in report[j].logs} = IF j = 1 THEN proto.logs ELSE {}
        BY <2>7, <4>2
      <4> QED
        BY <3>2, <4>1, <4>3
    <3>3. k \in 1..n \/ k = n + 1
      BY <2>5
    <3> QED
      BY <3>1, <3>2, <3>3
  <2>14. CountsOnce(r)'
    <3>1. LoggedOnce(reports[r])'
      BY <2>13 DEF LoggedOnce
    <3> QED
      BY <1>1, <1>7, <2>9, <2>10, <2>11, <3>1 DEF CountsOnce, AsksFor
  <2>15. ReportsOK(r)'
    <3>1. \A d \in Dir : last[r][d] <= bytes[r][d]
      BY <1>0 DEF ReportsOK
    <3>2. phase'[r] = "reported"
      BY <1>6, <1>8
    <3> QED
      BY <1>1, <1>7, <2>5, <2>12, <2>14, <3>1, <3>2 DEF ReportsOK, AsksFor
  <2>16. ASSUME NEW q \in Request \ {r} PROVE ReportsOK(q)'
    BY <1>0, <1>1, <1>5, <1>6, <2>5, OthersKept
  <2> QED
    BY <2>5, <2>15, <2>16
<1>9. ASSUME ~client PROVE Kept
  <2>1. reports' = reports
    BY <1>2, <1>9
  <2>2. phase'[r] = "unreported"
    BY <1>6, <1>9
  <2>3. ReportsOK(r)'
    BY <1>0, <1>1, <1>7, <1>9, <2>1, <2>2 DEF ReportsOK
  <2>4. ASSUME NEW q \in Request \ {r} PROVE ReportsOK(q)'
    BY <1>0, <1>1, <1>5, <1>6, <2>1, OthersKept
  <2>5. reports' \in [Request -> Seq(Seq(ReportOperation))]
    BY <1>0, <2>1 DEF TypeOK
  <2> QED
    BY <2>1, <2>3, <2>4, <2>5
<1>10. Kept
  BY <1>8, <1>9
<1>11. TypeOK'
  BY <1>0, <1>1, <1>5, <1>6, <1>10 DEF TypeOK
<1>12. phase'[r] \in {"reported", "unreported"}
  BY <1>6
<1>13. CheckInvariant'
  BY <1>0, <1>1, <1>6, <1>10, <1>12, SMTT(30) DEF CheckInvariant, UsableKey
<1>14. CheckDecides'
  BY <1>0, <1>1, <1>6, <1>12 DEF CheckDecides
<1>15. ReportInvariant' /\ CountedOnce' /\ BytesAddUp'
  BY <1>10 DEF ReportsOK, ReportInvariant, CountedOnce, BytesAddUp
<1> QED
  BY <1>11, <1>13, <1>14, <1>15 DEF ServiceControlInvariant

-----------------------------------------------------------------------------
LEMMA ServiceControlInit == Init => ServiceControlInvariant
<1> SUFFICES ASSUME Init PROVE ServiceControlInvariant
  OBVIOUS
<1>1. /\ client = FALSE /\ fail_open = FALSE /\ cache = {} /\ has_key \in [Request -> BOOLEAN]
      /\ phase = [r \in Request |-> "new"] /\ info = [r \in Request |-> DefaultInfo]
      /\ asked = [r \in Request |-> {}] /\ told = [r \in Request |-> Untold]
      /\ status = [r \in Request |-> OK] /\ first = [r \in Request |-> TRUE]
      /\ last = [r \in Request |-> [d \in Dir |-> 0]]
      /\ bytes = [r \in Request |-> [d \in Dir |-> 0]]
      /\ size = [r \in Request |-> [d \in Dir |-> 0]]
      /\ reports = [r \in Request |-> <<>>]
  BY DEF Init
<1>2. TypeOK
  <2>1. <<>> \in Seq(Seq(ReportOperation)) /\ OK \in Int
    BY DEF OK
  <2>2. told \in [Request -> [code : HttpAnswer \union {OK}, errors : CheckAnswer \union {NoErrors},
                              parsed : BOOLEAN]]
    BY <1>1 DEF Untold
  <2>3. info \in [Request -> [is_api_key_valid : BOOLEAN, service_is_activated : BOOLEAN,
                              consumer_project : BOOLEAN]]
    BY <1>1 DEF DefaultInfo
  <2> QED
    BY <1>1, <2>1, <2>2, <2>3 DEF TypeOK
<1>3. CheckInvariant
  BY <1>1, NothingHeldAgainst DEF CheckInvariant
<1>4. ReportInvariant
  <2> SUFFICES ASSUME NEW r \in Request
               PROVE  Len(reports[r]) = 0 /\ \A d \in Dir : last[r][d] <= bytes[r][d]
    BY <1>1 DEF ReportInvariant
  <2> QED
    BY <1>1
<1>5. CountedOnce /\ BytesAddUp /\ CheckDecides
  BY <1>1 DEF CountedOnce, BytesAddUp, CheckDecides
<1> QED
  BY <1>2, <1>3, <1>4, <1>5 DEF ServiceControlInvariant

LEMMA ServiceControlStep ==
  ServiceControlInvariant /\ [Next]_vars => ServiceControlInvariant'
<1> SUFFICES ASSUME ServiceControlInvariant, [Next]_vars PROVE ServiceControlInvariant'
  OBVIOUS
<1>1. CASE AggregatedInit \/ Close \/ OtherCheck \/ Expire
  BY <1>1, WorkerStep
<1>2. ASSUME NEW r \in Request, Check(r) PROVE ServiceControlInvariant'
  BY <1>2, CheckStep
<1>3. ASSUME NEW r \in Request, CheckAnswered(r) PROVE ServiceControlInvariant'
  BY <1>3, CheckAnsweredStep
<1>4. ASSUME NEW r \in Request, Quota(r) PROVE ServiceControlInvariant'
  BY <1>4, QuotaStep
<1>5. ASSUME NEW r \in Request, NEW d \in Dir, Stream(r, d) PROVE ServiceControlInvariant'
  BY <1>5, StreamStep
<1>6. ASSUME NEW r \in Request, AttemptIntermediateReport(r) PROVE ServiceControlInvariant'
  BY <1>6, AttemptIntermediateReportStep
<1>7. ASSUME NEW r \in Request, Report(r) PROVE ServiceControlInvariant'
  BY <1>7, ReportStep
<1>8. CASE UNCHANGED vars
  <2>1. /\ client' = client /\ fail_open' = fail_open /\ cache' = cache /\ phase' = phase
        /\ has_key' = has_key /\ info' = info /\ asked' = asked /\ told' = told
        /\ status' = status /\ first' = first /\ last' = last /\ bytes' = bytes
        /\ size' = size /\ reports' = reports
    BY <1>8 DEF vars
  <2>2. TypeOK /\ CheckInvariant /\ CheckDecides /\ ReportInvariant
    BY DEF ServiceControlInvariant
  <2>3. TypeOK'
    BY <2>1, <2>2 DEF TypeOK
  <2>4. CheckInvariant'
    BY <2>1, <2>2 DEF CheckInvariant, UsableKey
  <2>5. CheckDecides'
    BY <2>1, <2>2 DEF CheckDecides
  <2>6. \A r \in Request : \A d \in Dir : last[r][d] <= bytes'[r][d]
    BY <2>1, <2>2 DEF ReportInvariant
  <2>7. ReportInvariant' /\ CountedOnce' /\ BytesAddUp'
    BY <2>1, <2>6, ReportsKept
  <2> QED
    BY <2>3, <2>4, <2>5, <2>7 DEF ServiceControlInvariant
<1> QED
  BY <1>1, <1>2, <1>3, <1>4, <1>5, <1>6, <1>7, <1>8 DEF Next

(* The inductive invariant: a request is known to the reports as far as it   *)
(* has come, and to the check as far as the server has answered.             *)
THEOREM ServiceControlInvariantHolds == Spec => []ServiceControlInvariant
BY ServiceControlInit, ServiceControlStep, PTL DEF Spec

(* However many intermediate reports a request had, whatever became of its   *)
(* check and its quota, its reports count it once for the producer, once for *)
(* a consumer with a usable key and once by consumer, and log it once: the   *)
(* is_first_report and is_final_report of RequestContext and the table of    *)
(* proto.cc fit together, for any service and any metrics it asks for.       *)
THEOREM RequestsCountedOnce == Spec => []CountedOnce
<1>1. ServiceControlInvariant => CountedOnce
  BY DEF ServiceControlInvariant
<1> QED
  BY <1>1, ServiceControlInvariantHolds, PTL

(* The deltas of last_request_bytes_ and last_response_bytes_ over all the   *)
(* reports of a request add up to its size, of whatever length the sequence  *)
(* of reports is.                                                            *)
THEOREM ReportedBytesAddUp == Spec => []BytesAddUp
<1>1. ServiceControlInvariant => BytesAddUp
  BY DEF ServiceControlInvariant
<1> QED
  BY <1>1, ServiceControlInvariantHolds, PTL

(* Once the server has refused the key of a request, no report, however      *)
(* late, names it or bills its consumer, and no call is made for another key *)
(* than the one the request carries.                                         *)
THEOREM RefusedKeyNotBilled == Spec => []NoBillWithoutKey
<1>1. CheckInvariant /\ ReportInvariant => NoBillWithoutKey
  <2> SUFFICES ASSUME CheckInvariant, ReportInvariant, NEW r \in Request
               PROVE  /\ \A a \in asked[r] : a.request.consumer_id = has_key[r]
                      /\ RefusesKey(told[r]) =>
                           \A i \in 1..Len(reports[r]) : \A j \in 1..Len(reports[r][i]) :
                             ~NamesKey(reports[r][i][j])
    BY ZenonT(60) DEF NoBillWithoutKey, NamesKey
  <2> QED
    BY DEF CheckInvariant, ReportInvariant
<1>2. ServiceControlInvariant => CheckInvariant /\ ReportInvariant
  BY DEF ServiceControlInvariant
<1> QED
  BY <1>1, <1>2, ServiceControlInvariantHolds, PTL

(* A request with a key is served only if the server let it pass or could    *)
(* not be asked and the operator wants requests to pass then, and a request  *)
(* denied because the server could not be asked is answered with a 5xx.      *)
THEOREM CheckDecidesRequests == Spec => []CheckDecides
<1>1. ServiceControlInvariant => CheckDecides
  BY DEF ServiceControlInvariant
<1> QED
  BY <1>1, ServiceControlInvariantHolds, PTL
=============================================================================
