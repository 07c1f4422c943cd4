---------------------------- MODULE ReportProto ----------------------------
(* What is sent to service control for one operation: the metrics, labels    *)
(* and log entries of a report, and the meaning of the answers to a check    *)
(* and to a quota allocation (src/api_manager/service_control/proto.cc), and *)
(* which of them a service is configured for (logs_metrics_loader.cc).       *)
(* A metric is named by its family and by whom it is counted for.            *)
EXTENDS StatusCodes, Sequences, SequencesExt, FiniteSets

Entries(families, marks, tag) ==
  {[family |-> f, mark |-> m, tag |-> tag] : f \in families, m \in marks}

(* The table supported_metrics.                                              *)
CountAndSizeMetrics ==
  Entries({"request_count"}, {"CONSUMER", "PRODUCER"}, "START")
    \union Entries({"request_count"}, {"PRODUCER_BY_CONSUMER"}, "FINAL")
    \union Entries({"request_sizes", "response_sizes"},
                   {"CONSUMER", "PRODUCER", "PRODUCER_BY_CONSUMER"}, "FINAL")
ByteAndErrorMetrics ==
  Entries({"request_bytes", "response_bytes"}, {"CONSUMER", "PRODUCER"}, "INTERMEDIATE")
    \union Entries({"error_count"}, {"CONSUMER", "PRODUCER", "PRODUCER_BY_CONSUMER"}, "FINAL")
LatencyMetrics ==
  Entries({"total_latencies", "backend_latencies", "request_overhead_latencies"},
          {"CONSUMER", "PRODUCER", "PRODUCER_BY_CONSUMER"}, "FINAL")
StreamingMetrics ==
  Entries({"streaming_request_message_counts", "streaming_response_message_counts",
           "streaming_durations"}, {"CONSUMER", "PRODUCER"}, "FINAL")
supported_metrics ==
  CountAndSizeMetrics \union ByteAndErrorMetrics \union LatencyMetrics \union StreamingMetrics

(* The functions SupportedMetric::set: the value a report carries, if any.   *)
Above(bound, value) == IF value > bound THEN {value} ELSE {}
SetConstantMetric(f, info) ==
  IF f = "request_count" \/ info.response_code >= 400 THEN {1} ELSE {}
SetSizeMetric(f, info) ==
  Above(-1, IF f = "request_sizes" THEN info.request_size ELSE info.response_size)
SetTimeMetric(f, info) ==
  Above(-1, CASE f = "total_latencies" -> info.request_time
              [] f = "backend_latencies" -> info.backend_time
              [] OTHER -> info.overhead_time)
SetStreamMetric(f, info) ==
  Above(0, CASE f = "request_bytes" -> info.request_bytes
             [] f = "response_bytes" -> info.response_bytes
             [] f = "streaming_request_message_counts" -> info.request_messages
             [] f = "streaming_response_message_counts" -> info.response_messages
             [] OTHER -> info.duration)
MetricValues(f, info) ==
  CASE f \in {"request_count", "error_count"} -> SetConstantMetric(f, info)
    [] f \in {"request_sizes", "response_sizes"} -> SetSizeMetric(f, info)
    [] f \in {"total_latencies", "backend_latencies", "request_overhead_latencies"}
         -> SetTimeMetric(f, info)
    [] OTHER -> SetStreamMetric(f, info)

(* The table supported_labels: the labels that are always sent, and those a  *)
(* service asks for.  Entries without a function set nothing.                *)
SystemLabels == {"location", "service_agent", "user_agent", "platform", "backend_protocol",
                 "consumer_project"}
UserLabels == {"credential_id", "error_type", "protocol", "referer", "response_code",
               "response_code_class", "status_code", "api_method", "api_version"}
UnsetLabels == {"end_user", "clone_id", "project", "region", "resource_id", "zone"}

(* The functions SupportedLabel::set: what makes a label present.            *)
CredentialLabel(info) == info.api_key \/ info.auth_issuer
ResponseLabel(l, info) == IF l = "error_type" THEN info.response_code >= 400
                          ELSE info.is_final_report
ProtocolLabel(l, info) ==
  l = "protocol"
    \/ (info.backend_protocol = "GRPC" /\ info.frontend_protocol # info.backend_protocol)
RequestLabel(l, info) == IF l = "referer" THEN info.referer ELSE info.method_known
SetsLabel(l, info) ==
  CASE l = "credential_id" -> CredentialLabel(info)
    [] l \in {"error_type", "response_code", "response_code_class", "status_code"}
         -> ResponseLabel(l, info)
    [] l \in {"protocol", "backend_protocol"} -> ProtocolLabel(l, info)
    [] l \in {"referer", "api_method", "api_version"} -> RequestLabel(l, info)
    [] OTHER -> TRUE

(* Proto::Proto: the tables filtered by what the service asks for.           *)
Proto(logs, metrics, labels) ==
  [logs |-> logs,
   metrics |-> {m \in supported_metrics : [family |-> m.family, mark |-> m.mark] \in metrics},
   labels |-> SystemLabels \union (UserLabels \intersect labels)]

(* Faulty variant: the number of requests is due with every report.          *)
DueAlways(m, info) == m.tag # "FINAL" \/ info.is_final_report

(* When a metric is due: with the first, the final or every report.          *)
Due(m, info) ==
  \/ info.is_first_report /\ m.tag = "START"
  \/ info.is_final_report /\ m.tag \in {"FINAL", "INTERMEDIATE"}
  \/ ~info.is_final_report /\ m.tag = "INTERMEDIATE"

Metrics(due, info) ==
  UNION {{[family |-> m.family, mark |-> m.mark, value |-> v]
            : v \in MetricValues(m.family, info)} : m \in due}

(* Faulty variant: a key is reported whatever the check said of it.          *)
ConsumerIdOfKey(info) == info.has_key

ConsumerId(info) == info.api_key

(* SetOperationCommonFields, labels and metrics of an operation.             *)
Operation(info, labels, due, logs) ==
  [consumer_id |-> ConsumerId(info),
   labels |-> {l \in labels : SetsLabel(l, info)},
   metrics |-> Metrics({m \in due : Due(m, info)}, info),
   logs |-> logs]

(* A log entry: what of it depends on the outcome.                           *)
FillLogEntry(info, name) ==
  [name |-> name, severity |-> IF info.response_code >= 400 THEN "ERROR" ELSE "INFO",
   api_key |-> info.api_key, error_cause |-> info.response_code >= 400]

(* Metrics of the consumer are left out when there is no key to bill them    *)
(* to; the metrics of a consumer's project go into an operation of their own.*)
MainOperation(info, proto) ==
  Operation(info, proto.labels \ {"consumer_project"},
            {m \in proto.metrics : /\ info.api_key \/ m.mark # "CONSUMER"
                                   /\ m.mark # "PRODUCER_BY_CONSUMER"},
            IF info.is_final_report THEN {FillLogEntry(info, l) : l \in proto.logs} ELSE {})
ByConsumerOperation(info, proto) ==
  Operation(info, proto.labels,
            {m \in proto.metrics : m.mark = "PRODUCER_BY_CONSUMER"}, {})
FillReportRequest(info, proto) ==
  IF info.consumer_project
  THEN <<MainOperation(info, proto), ByConsumerOperation(info, proto)>>
  ELSE <<MainOperation(info, proto)>>

(* The requests of a check and of a quota allocation.  Quota is charged to   *)
(* the key or, without one, to the project of the producer, and costs at     *)
(* least one unit of every metric.                                           *)
FillCheckRequest(info) ==
  [consumer_id |-> ConsumerId(info),
   labels |-> {"user_agent", "service_agent"} \union (IF info.referer THEN {"referer"} ELSE {})]
FillAllocateQuotaRequest(info, cost_vector) ==
  [consumer_id |-> ConsumerId(info),
   metrics |-> {[metric |-> c.metric, cost |-> IF c.cost <= 0 THEN 1 ELSE c.cost]
                  : c \in cost_vector}]

(* ConvertCheckResponse looks at the first error only.                       *)
KeyErrors == {"API_KEY_NOT_FOUND", "API_KEY_EXPIRED", "API_KEY_INVALID"}
ConsumerErrors == {"NOT_FOUND", "PROJECT_INVALID"}
AccessErrors == {"SERVICE_NOT_ACTIVATED", "RESOURCE_EXHAUSTED", "PERMISSION_DENIED",
                 "IP_ADDRESS_BLOCKED", "REFERER_BLOCKED", "CLIENT_APP_BLOCKED",
                 "API_TARGET_BLOCKED", "PROJECT_DELETED", "BILLING_DISABLED",
                 "SECURITY_POLICY_VIOLATED", "INVALID_CREDENTIAL",
                 "LOCATION_POLICY_VIOLATED", "CONSUMER_INVALID"}
UnavailableErrors == {"NAMESPACE_LOOKUP_UNAVAILABLE", "SERVICE_STATUS_UNAVAILABLE",
                      "BILLING_STATUS_UNAVAILABLE", "QUOTA_CHECK_UNAVAILABLE",
                      "CLOUD_RESOURCE_MANAGER_BACKEND_UNAVAILABLE",
                      "SECURITY_POLICY_BACKEND_UNAVAILABLE",
                      "LOCATION_POLICY_BACKEND_UNAVAILABLE"}
CheckErrorStatus(e) ==
  CASE e \in KeyErrors \union ConsumerErrors -> INVALID_ARGUMENT
    [] e \in AccessErrors -> PERMISSION_DENIED
    [] e \in UnavailableErrors -> OK
    [] OTHER -> INTERNAL
NoErrors == <<>>
ConvertCheckResponse(response) ==
  [status |-> IF response.errors = NoErrors THEN OK
              ELSE CheckErrorStatus(Head(response.errors)),
   is_api_key_valid |-> response.errors = NoErrors \/ Head(response.errors) \notin KeyErrors,
   service_is_activated |-> response.errors = NoErrors
                              \/ Head(response.errors) # "SERVICE_NOT_ACTIVATED",
   consumer_project |-> response.project]

ConvertAllocateQuotaResponse(errors) ==
  IF errors = NoErrors THEN OK
  ELSE CASE Head(errors) = "UNSPECIFIED" -> OK
         [] Head(errors) = "RESOURCE_EXHAUSTED" -> RESOURCE_EXHAUSTED
         [] Head(errors) = "BILLING_NOT_ACTIVE" -> PERMISSION_DENIED
         [] Head(errors) \in {"PROJECT_DELETED", "API_KEY_INVALID", "API_KEY_EXPIRED"}
              -> INVALID_ARGUMENT
         [] OTHER -> INTERNAL

(* LogsMetricsLoader: labels, logs and metrics of the destinations of a      *)
(* service.  A label has a name and may be of a type ESP does not support;   *)
(* loaded labels are all of the supported type.                              *)
IsLabelSupported(l) == l.string /\ l.key \in SystemLabels \union UserLabels \union UnsetLabels
IsMetricSupported(m) ==
  m.delta /\ \E s \in supported_metrics : s.family = m.family /\ s.mark = m.mark

Conflict(descriptors, labels) == \E d \in descriptors : d.key \in labels /\ ~d.string
AddLabels(descriptors, acc) ==
  [acc EXCEPT !.labels = @ \union {d.key : d \in {x \in descriptors : IsLabelSupported(x)}}]

(* A destination with an unknown or conflicting resource is skipped, and so  *)
(* is one of its logs or metrics.                                            *)
AddLog(service, acc, log) ==
  IF log \notin DOMAIN service.logs \/ Conflict(service.logs[log], acc.labels) THEN acc
  ELSE [AddLabels(service.logs[log], acc) EXCEPT !.logs = @ \union {log}]
AddMetric(service, acc, metric) ==
  IF \/ metric \notin DOMAIN service.metrics
     \/ ~IsMetricSupported(service.metrics[metric])
     \/ Conflict(service.metrics[metric].labels, acc.labels)
  THEN acc
  ELSE [AddLabels(service.metrics[metric].labels, acc)
          EXCEPT !.metrics = @ \union {[family |-> service.metrics[metric].family,
                                        mark |-> service.metrics[metric].mark]}]
AddDestination(Add(_, _, _), service, acc, destination) ==
  IF \/ destination.resource \notin DOMAIN service.resources
     \/ Conflict(service.resources[destination.resource], acc.labels)
  THEN acc
  ELSE FoldLeft(LAMBDA a, item : Add(service, a, item),
                AddLabels(service.resources[destination.resource], acc), destination.items)
AddDestinations(Add(_, _, _), service, acc, destinations) ==
  FoldLeft(LAMBDA a, d : AddDestination(Add, service, a, d), acc, destinations)
LoadLogsMetrics(service) ==
  AddDestinations(AddMetric, service,
    AddDestinations(AddMetric, service,
      AddDestinations(AddLog, service, [logs |-> {}, metrics |-> {}, labels |-> {}],
                      service.logging),
      service.producer_monitoring),
    service.consumer_monitoring)
=============================================================================
