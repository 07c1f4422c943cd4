--------------------------- MODULE ServiceControl ---------------------------
(* The service control client of ESP (service_control/aggregated.cc): the    *)
(* check and the quota allocation of a request, the reports sent while it is *)
(* streamed and when it ends (context/request_context.cc), and the library   *)
(* behind it, which caches checks.  Requests share the client.               *)
EXTENDS ReportProto

CONSTANTS
  Request,        \* requests (model values)
  Service,        \* the service config, as LogsMetricsLoader reads it
  HttpAnswer,     \* what the HTTP client calls its continuation with
  CheckAnswer,    \* error lists of the check responses of the server
  QuotaAnswer,    \* error lists of its quota responses
  Costs,          \* metric_cost_vector of a method
  MaxBytes,       \* bound: bytes of a stream in one direction
  MaxReports      \* bound: intermediate reports of a request

Dir == {"request", "response"}

ASSUME ServiceControlAssumption ==
  /\ MaxBytes \in Nat /\ MaxReports \in Nat
  /\ HttpAnswer \subseteq Int
  /\ \A costs \in Costs : \A c \in costs : c.cost \in Int

VARIABLES
  client,         \* client_ is set
  fail_open,      \* network_fail_open_
  cache,          \* check responses of the library, at most one per key
  phase,          \* per request
  has_key,        \* the request carries an API key
  info,           \* check_response_info_ of the request
  asked,          \* history: the check and quota requests made
  told,           \* history: what a check or quota call of the request got
  status,         \* the status the request is answered with
  first,          \* is_first_report_
  last,           \* last_request_bytes_ and last_response_bytes_
  bytes,          \* gRPC bytes so far
  size,           \* history: the sizes in the final report
  reports         \* the requests handed to client_->Report

vars == <<client, fail_open, cache, phase, has_key, info, asked, told, status, first,
          last, bytes, size, reports>>

(* CheckResponseInfo(): by default the key is valid and the service active.  *)
DefaultInfo == [is_api_key_valid |-> TRUE, service_is_activated |-> TRUE,
                consumer_project |-> FALSE]

(* What told says of an answer the library had cached, and before any answer *)
(* (which lets nothing pass: Passed).                                        *)
Cached(response) == [code |-> OK, errors |-> response.errors, parsed |-> TRUE]
Untold == [code |-> OK, errors |-> NoErrors, parsed |-> FALSE]

proto == LET loaded == LoadLogsMetrics(Service)
         IN  Proto(loaded.logs, loaded.metrics, loaded.labels)

Init ==
  /\ client = FALSE
  /\ fail_open = FALSE
  /\ cache = {}
  /\ phase = [r \in Request |-> "new"]
  /\ has_key \in [Request -> BOOLEAN]
  /\ info = [r \in Request |-> DefaultInfo]
  /\ asked = [r \in Request |-> {}]
  /\ told = [r \in Request |-> Untold]
  /\ status = [r \in Request |-> OK]
  /\ first = [r \in Request |-> TRUE]
  /\ last = [r \in Request |-> [d \in Dir |-> 0]]
  /\ bytes = [r \in Request |-> [d \in Dir |-> 0]]
  /\ size = [r \in Request |-> [d \in Dir |-> 0]]
  /\ reports = [r \in Request |-> <<>>]

(* InitHttpRequestTimeoutRetries: requests pass when the server cannot be    *)
(* asked only if the server config says so.  (Timeouts and retries: see      *)
(* HttpClient.)                                                              *)
InitHttpRequestTimeoutRetries == fail_open' \in BOOLEAN

(* Aggregated::Init, in every worker; it may be called again.                *)
AggregatedInit ==
  /\ ~client /\ \A r \in Request : phase[r] = "new"
  /\ InitHttpRequestTimeoutRetries
  /\ client' = TRUE
  /\ UNCHANGED <<cache, phase, has_key, info, asked, told, status, first,
                 last, bytes, size, reports>>

(* Aggregated::Close destroys the client when the worker exits.              *)
Close ==
  /\ client /\ \E r \in Request : phase[r] # "new"
  /\ client' = FALSE
  /\ cache' = {}
  /\ UNCHANGED <<fail_open, phase, has_key, info, asked, told, status, first, last,
                 bytes, size, reports>>

Goto(r, p, s) == phase' = [phase EXCEPT ![r] = p] /\ status' = [status EXCEPT ![r] = s]

(* FillOperationInfo leaves out a key the check has found wanting.           *)
UsableKey(r) == has_key[r] /\ info[r].is_api_key_valid /\ info[r].service_is_activated

OperationInfo(r) == [has_key |-> has_key[r], api_key |-> UsableKey(r), referer |-> FALSE]

Ask(r, kind, request) ==
  asked' = [asked EXCEPT ![r] = @ \union {[kind |-> kind, request |-> request]}]

(* CheckServiceControl and Aggregated::Check up to client_->Check.  A        *)
(* request without a key is not checked: it depends on the method whether it *)
(* goes on.  A cached response answers the check at once.                    *)
OnCheckResponse(r, response) ==
  LET converted == ConvertCheckResponse(response) IN
  /\ info' = [info EXCEPT ![r] = [is_api_key_valid |-> converted.is_api_key_valid,
                                  service_is_activated |-> converted.service_is_activated,
                                  consumer_project |-> converted.consumer_project]]
  /\ Goto(r, IF converted.status = OK THEN "quota" ELSE "denied", converted.status)

Check(r) ==
  /\ phase[r] = "new"
  /\ \/ /\ ~has_key[r]
        /\ \E allow_unregistered_calls \in BOOLEAN :
             IF allow_unregistered_calls THEN Goto(r, "quota", OK)
             ELSE Goto(r, "denied", UNAUTHENTICATED)
        /\ UNCHANGED <<info, asked, told>>
     \/ /\ has_key[r] /\ ~client
        /\ Goto(r, "denied", INTERNAL)
        /\ UNCHANGED <<info, asked, told>>
     \/ /\ has_key[r] /\ client /\ cache = {}
        /\ Goto(r, "checking", OK)
        /\ Ask(r, "check", FillCheckRequest(OperationInfo(r)))
        /\ UNCHANGED <<info, told>>
     \/ /\ has_key[r] /\ client
        /\ Ask(r, "check", FillCheckRequest(OperationInfo(r)))
        /\ \E response \in cache :
             /\ OnCheckResponse(r, response)
             /\ told' = [told EXCEPT ![r] = Cached(response)]
  /\ UNCHANGED <<client, fail_open, cache, has_key, first, last, bytes, size, reports>>

(* The continuation of Aggregated::Call: what the library is told of a call. *)
CallStatus(code, parsed) ==
  IF IsOk(code) THEN (IF parsed THEN OK ELSE INVALID_ARGUMENT)
  ELSE IF code < 0 THEN UNAVAILABLE
  ELSE CanonicalCode(code)

StatusCodeIs5xxHttpCode(s) == s \in {UNAVAILABLE, INTERNAL, UNIMPLEMENTED, DEADLINE_EXCEEDED}

(* Faulty variant: the error of the call is passed on as it is.              *)
CheckFailedAsIs(r, s) ==
  /\ IF fail_open /\ StatusCodeIs5xxHttpCode(s) THEN Goto(r, "quota", OK)
     ELSE Goto(r, "denied", s)
  /\ info' = [info EXCEPT ![r] = DefaultInfo]

(* The callback of a check that the library could not make.                  *)
CheckFailed(r, s) ==
  /\ IF fail_open /\ StatusCodeIs5xxHttpCode(s) THEN Goto(r, "quota", OK)
     ELSE Goto(r, "denied", IF StatusCodeIs5xxHttpCode(s) THEN s ELSE INTERNAL)
  /\ info' = [info EXCEPT ![r] = DefaultInfo]

(* The answer to the call of a check; it may arrive when the client is gone, *)
(* whose callbacks are then still run.                                       *)
CheckAnswered(r) ==
  /\ phase[r] = "checking"
  /\ \E code \in HttpAnswer, errors \in CheckAnswer, parsed \in BOOLEAN, project \in BOOLEAN :
       LET response == [errors |-> errors, project |-> project]
           s == CallStatus(code, parsed)
       IN  /\ (IsOk(code) /\ parsed) \/ (errors = NoErrors /\ ~project)
           /\ told' = [told EXCEPT ![r] = [code |-> code, errors |-> errors, parsed |-> parsed]]
           /\ IF s = OK
              THEN /\ OnCheckResponse(r, response)
                   /\ cache' = IF client THEN {response} ELSE {}
              ELSE CheckFailed(r, s) /\ UNCHANGED cache
  /\ UNCHANGED <<client, fail_open, has_key, asked, first, last, bytes, size, reports>>

(* The check of another request of the worker, with the same key.            *)
OtherCheck ==
  /\ client /\ cache = {}
  /\ \E errors \in CheckAnswer, project \in BOOLEAN :
       cache' = {[errors |-> errors, project |-> project]}
  /\ UNCHANGED <<client, fail_open, phase, has_key, info, asked, told, status, first,
                 last, bytes, size, reports>>

(* The library drops a cached response when it expires.                      *)
Expire ==
  /\ cache # {}
  /\ cache' = {}
  /\ UNCHANGED <<client, fail_open, phase, has_key, info, asked, told, status, first,
                 last, bytes, size, reports>>

(* QuotaControl, Aggregated::Quota and its answer; a server that is not      *)
(* available does not hold the request up.                                   *)
Quota(r) ==
  /\ phase[r] = "quota"
  /\ \E costs \in Costs :
       \/ costs = {} /\ Goto(r, "serving", OK) /\ UNCHANGED asked
       \/ costs # {} /\ ~client /\ Goto(r, "over_quota", INTERNAL) /\ UNCHANGED asked
       \/ /\ costs # {} /\ client
          /\ Ask(r, "quota", FillAllocateQuotaRequest(OperationInfo(r), costs))
          /\ \E code \in HttpAnswer, errors \in QuotaAnswer, parsed \in BOOLEAN :
               LET s == IF CallStatus(code, parsed) = OK
                        THEN ConvertAllocateQuotaResponse(errors)
                        ELSE CallStatus(code, parsed)
               IN  IF s \in {OK, UNAVAILABLE} THEN Goto(r, "serving", OK)
                   ELSE Goto(r, "over_quota", s)
  /\ UNCHANGED <<client, fail_open, cache, has_key, info, told, first, last, bytes, size,
                 reports>>

Stream(r, d) ==
  /\ phase[r] = "serving" /\ bytes[r][d] < MaxBytes
  /\ bytes' = [bytes EXCEPT ![r][d] = @ + 1]
  /\ UNCHANGED <<client, fail_open, cache, phase, has_key, info, asked, told, status,
                 first, last, size, reports>>

-----------------------------------------------------------------------------
(* RequestContext::FillReportRequestInfo.                                    *)
ReportInfo(r, final, sizes, delta) ==
  [has_key |-> has_key[r], api_key |-> UsableKey(r),
   auth_issuer |-> FALSE, referer |-> FALSE, method_known |-> TRUE,
   frontend_protocol |-> "HTTP", backend_protocol |-> "GRPC",
   consumer_project |-> info[r].consumer_project,
   is_first_report |-> first[r], is_final_report |-> final,
   response_code |-> IF final THEN HttpCode(status[r]) ELSE 200,
   request_size |-> sizes["request"], response_size |-> sizes["response"],
   request_bytes |-> delta["request"], response_bytes |-> delta["response"],
   request_messages |-> 0, response_messages |-> 0, duration |-> 0,
   request_time |-> -1, backend_time |-> -1, overhead_time |-> -1]

NoSizes == [d \in Dir |-> -1]

(* Faulty variant: what has been reported is not remembered.                 *)
AdvanceNothing(r) == last

Advance(r) == [last EXCEPT ![r] = bytes[r]]

(* RequestHandler::AttemptIntermediateReport, once the interval is over.     *)
AttemptIntermediateReport(r) ==
  /\ phase[r] = "serving" /\ Len(reports[r]) < MaxReports
  /\ LET delta == [d \in Dir |-> bytes[r][d] - last[r][d]]
     IN  IF client
         THEN /\ reports' = [reports EXCEPT ![r] =
                   Append(@, FillReportRequest(ReportInfo(r, FALSE, NoSizes, delta), proto))]
              /\ first' = [first EXCEPT ![r] = FALSE]
         ELSE UNCHANGED <<reports, first>>
  /\ last' = Advance(r)
  /\ UNCHANGED <<client, fail_open, cache, phase, has_key, info, asked, told, status,
                 bytes, size>>

FinalDelta(r, sizes) ==
  [d \in Dir |-> IF sizes[d] < last[r][d] THEN 0 ELSE sizes[d] - last[r][d]]

(* RequestHandler::Report: the sizes are those of the HTTP exchange, which   *)
(* may be smaller than what has been counted in gRPC messages.               *)
Report(r) ==
  /\ phase[r] \in {"serving", "denied", "over_quota"}
  /\ \E sizes \in [Dir -> 0..(MaxBytes + 1)] :
       /\ size' = [size EXCEPT ![r] = sizes]
       /\ IF client
          THEN reports' = [reports EXCEPT ![r] =
                 Append(@, FillReportRequest(ReportInfo(r, TRUE, sizes, FinalDelta(r, sizes)),
                                             proto))]
          ELSE UNCHANGED reports
  /\ phase' = [phase EXCEPT ![r] = IF client THEN "reported" ELSE "unreported"]
  /\ UNCHANGED <<client, fail_open, cache, has_key, info, asked, told, status, first,
                 last, bytes>>

Next ==
  \/ AggregatedInit \/ Close \/ OtherCheck \/ Expire
  \/ \E r \in Request :
       \/ Check(r) \/ CheckAnswered(r) \/ Quota(r)
       \/ \E d \in Dir : Stream(r, d)
       \/ AttemptIntermediateReport(r) \/ Report(r)

Spec == Init /\ [][Next]_vars

-----------------------------------------------------------------------------
(* The value a report has for a metric, in its one or two operations, and    *)
(* the sum over all the reports of a request.                                *)
ValueIn(op, family, mark) ==
  LET found == {m \in op.metrics : m.family = family /\ m.mark = mark}
  IN  IF found = {} THEN 0 ELSE (CHOOSE m \in found : TRUE).value
ReportValue(report, family, mark) ==
  ValueIn(report[1], family, mark)
    + (IF Len(report) = 1 THEN 0 ELSE ValueIn(report[2], family, mark))
SumTo(v, n) ==
  LET sum[i \in 0..n] == IF i = 0 THEN 0 ELSE sum[i - 1] + v[i] IN sum[n]
Total(r, family, mark) ==
  SumTo([i \in 1..Len(reports[r]) |-> ReportValue(reports[r][i], family, mark)],
        Len(reports[r]))

(* The service asks for a metric.                                            *)
AsksFor(family, mark) == \E m \in proto.metrics : m.family = family /\ m.mark = mark

(* "In the final report, we send all metrics except request_count if it      *)
(* already sent": however many reports a request has, it is counted once for *)
(* the producer, once for a consumer with a usable key, and once by consumer *)
(* if the project is known; it is logged once, with the last report.         *)
LoggedOnce(rs) ==
  \A i \in 1..Len(rs) : \A j \in 1..Len(rs[i]) :
    {l.name : l \in rs[i][j].logs} = IF i = Len(rs) /\ j = 1 THEN proto.logs ELSE {}
CountsOnce(r) ==
  /\ AsksFor("request_count", "PRODUCER") => Total(r, "request_count", "PRODUCER") = 1
  /\ AsksFor("request_count", "CONSUMER") =>
       Total(r, "request_count", "CONSUMER") = IF UsableKey(r) THEN 1 ELSE 0
  /\ AsksFor("request_count", "PRODUCER_BY_CONSUMER") =>
       Total(r, "request_count", "PRODUCER_BY_CONSUMER")
         = IF info[r].consumer_project THEN 1 ELSE 0
  /\ LoggedOnce(reports[r])
CountedOnce == \A r \in Request : phase[r] = "reported" => CountsOnce(r)

(* The bytes of all the reports of a request add up to the size of the       *)
(* exchange, or to what was counted before when that is more: no byte is     *)
(* reported twice and none is missed.                                        *)
BytesOf == [request |-> "request_bytes", response |-> "response_bytes"]
BytesAddUp ==
  \A r \in Request : phase[r] = "reported" =>
    \A d \in Dir : AsksFor(BytesOf[d], "PRODUCER") =>
      Total(r, BytesOf[d], "PRODUCER")
        = IF size[r][d] < last[r][d] THEN last[r][d] ELSE size[r][d]

(* Nothing is billed to a consumer, and no key is named in operations or     *)
(* logs, when the server has said that the key is not valid or the service   *)
(* not enabled for it; quota is charged to the key of the request, if it has *)
(* one that passed the check.                                                *)
RefusesKey(t) ==
  /\ IsOk(t.code) /\ t.parsed /\ t.errors # NoErrors
  /\ Head(t.errors) \in KeyErrors \union {"SERVICE_NOT_ACTIVATED"}
NoBillWithoutKey ==
  /\ \A r \in Request : \A a \in asked[r] : a.request.consumer_id = has_key[r]
  /\ \A r \in Request : RefusesKey(told[r]) =>
       \A i \in 1..Len(reports[r]) : \A j \in 1..Len(reports[r][i]) :
         LET op == reports[r][i][j] IN
         /\ ~op.consumer_id /\ "credential_id" \notin op.labels
         /\ \A m \in op.metrics : m.mark # "CONSUMER"
         /\ \A l \in op.logs : ~l.api_key

(* A request with a key is served only if the server let it pass, now or in  *)
(* a cached answer, or could not be asked and the operator wants requests to *)
(* pass then.  A server that answers nonsense, or refuses ESP, is not a      *)
(* client's error: the client sees a 5xx.  A success other than 200 is not   *)
(* read and counts as an answer without errors (CanonicalCode makes it OK).  *)
Passed(t) ==
  \/ t.code \in 201..299
  \/ /\ IsOk(t.code) /\ t.parsed
     /\ t.errors = NoErrors \/ Head(t.errors) \in UnavailableErrors
CheckDecides ==
  \A r \in Request : has_key[r] =>
    /\ phase[r] \in {"quota", "serving"} =>
         Passed(told[r]) \/ (fail_open /\ StatusCodeIs5xxHttpCode(CallStatus(told[r].code, told[r].parsed)))
    /\ phase[r] = "denied" /\ CallStatus(told[r].code, told[r].parsed) # OK =>
         HttpCode(status[r]) >= 500

-----------------------------------------------------------------------------
Metric == [family : {m.family : m \in supported_metrics},
           mark : {m.mark : m \in supported_metrics}, value : Int]
LogEntry == [name : proto.logs, severity : {"ERROR", "INFO"}, api_key : BOOLEAN,
             error_cause : BOOLEAN]
ReportOperation == [consumer_id : BOOLEAN, labels : SUBSET (SystemLabels \union UserLabels),
                    metrics : SUBSET Metric, logs : SUBSET LogEntry]
AskedRequest ==
  [kind : {"check"}, request : [consumer_id : BOOLEAN,
                                labels : SUBSET {"user_agent", "service_agent", "referer"}]]
    \union
  [kind : {"quota"}, request : [consumer_id : BOOLEAN,
                                metrics : SUBSET [metric : {c.metric : c \in UNION Costs},
                                                  cost : Int]]]

TypeOK ==
  /\ client \in BOOLEAN /\ fail_open \in BOOLEAN
  /\ cache \subseteq [errors : CheckAnswer, project : BOOLEAN]
  /\ phase \in [Request -> {"new", "checking", "quota", "serving", "denied", "over_quota",
                            "reported", "unreported"}]
  /\ has_key \in [Request -> BOOLEAN]
  /\ info \in [Request -> [is_api_key_valid : BOOLEAN, service_is_activated : BOOLEAN,
                           consumer_project : BOOLEAN]]
  /\ asked \in [Request -> SUBSET AskedRequest]
  /\ told \in [Request -> [code : HttpAnswer \union {OK}, errors : CheckAnswer \union {NoErrors},
                           parsed : BOOLEAN]]
  /\ status \in [Request -> Int]
  /\ first \in [Request -> BOOLEAN]
  /\ last \in [Request -> [Dir -> Nat]]
  /\ bytes \in [Request -> [Dir -> Nat]]
  /\ size \in [Request -> [Dir -> Nat]]
  /\ reports \in [Request -> Seq(Seq(ReportOperation))]

(* What a check leaves behind: a key the server refused is not used, and a   *)
(* request that is not denied uses the key it carries, as its calls did.     *)
CheckInvariant ==
  \A r \in Request :
    /\ \A a \in asked[r] : a.request.consumer_id = has_key[r]
    /\ phase[r] \in {"new", "checking"} =>
         /\ info[r] = DefaultInfo /\ told[r] = Untold
         /\ first[r] /\ reports[r] = <<>> /\ \A d \in Dir : last[r][d] = 0
    /\ phase[r] \in {"quota", "serving", "over_quota"} => UsableKey(r) = has_key[r]
    /\ RefusesKey(told[r]) => ~UsableKey(r)

(* What an operation says of the consumer.                                   *)
NamesKey(op) ==
  \/ op.consumer_id \/ "credential_id" \in op.labels
  \/ \E m \in op.metrics : m.mark = "CONSUMER"
  \/ \E l \in op.logs : l.api_key

(* The reports so far hold what a request has counted, but for its end.      *)
CountsSoFar(r) ==
  /\ AsksFor("request_count", "PRODUCER") =>
       Total(r, "request_count", "PRODUCER") = IF first[r] THEN 0 ELSE 1
  /\ AsksFor("request_count", "CONSUMER") =>
       Total(r, "request_count", "CONSUMER") = IF first[r] \/ ~UsableKey(r) THEN 0 ELSE 1
  /\ Total(r, "request_count", "PRODUCER_BY_CONSUMER") = 0
  /\ \A d \in Dir : AsksFor(BytesOf[d], "PRODUCER") =>
       Total(r, BytesOf[d], "PRODUCER") = last[r][d]
  /\ \A i \in 1..Len(reports[r]) : \A j \in 1..Len(reports[r][i]) :
       reports[r][i][j].logs = {}

(* That is so as long as the client that sends them is there.                *)
ReportInvariant ==
  \A r \in Request :
    /\ \A d \in Dir : last[r][d] <= bytes[r][d]
    /\ \A i \in 1..Len(reports[r]) : Len(reports[r][i]) \in {1, 2}
    /\ \A i \in 1..Len(reports[r]) : \A j \in 1..Len(reports[r][i]) :
         NamesKey(reports[r][i][j]) => UsableKey(r)
    /\ client /\ phase[r] \notin {"reported", "unreported"} => CountsSoFar(r)

ServiceControlInvariant ==
  /\ TypeOK /\ CheckInvariant /\ ReportInvariant
  /\ CountedOnce /\ BytesAddUp /\ CheckDecides
=============================================================================
