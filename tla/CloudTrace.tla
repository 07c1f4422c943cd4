----------------------------- MODULE CloudTrace -----------------------------
(* Traces of requests for Cloud Trace: the headers that ask for one, the     *)
(* sampler that starts one now and then (cloud_trace/cloud_trace.cc,         *)
(* sampler.cc), and the aggregator that sends them in batches                *)
(* (aggregator.cc).  Optional values are sets with at most one element.      *)
EXTENDS Integers, SequencesExt

(* An item of the options of X-Cloud-Trace-Context: o says that it reads     *)
(* "o=", value is -1 if no number follows.                                   *)
Option == [o : BOOLEAN, value : Int]

kDefaultTraceOptions == <<[o |-> TRUE, value |-> 1]>>

GetNewTrace(trace_id, span_id, parent, now) ==
  [trace_id |-> trace_id, project_id |-> "", start |-> now,
   spans |-> <<[span_id |-> span_id, parent |-> parent, ended |-> FALSE]>>]

(* The trace a header asks for continues the caller's: its root span has the *)
(* caller's span as parent, unless that is 0.                                *)
Continues(h, span_id, now) ==
  GetNewTrace(h.trace_id, span_id, IF h.span_id = 0 THEN {} ELSE {h.span_id}, now)

(* The first "o=" item decides, whatever surrounds it; all of them are kept. *)
GetTraceFromCloudTraceContextHeader(h, span_id, now) ==
  LET named == {i \in DOMAIN h.items : h.items[i].o}
  IN  IF named # {} /\ h.items[Min(named)].value \in {1, 3} /\ h.trace_id_valid /\ h.span_id_valid
      THEN {[trace |-> Continues(h, span_id, now), options |-> h.items]}
      ELSE {}

(* grpc-trace-bin: base64 of 29 bytes with three field ids in their places.  *)
GetTraceFromGRpcTraceContextHeader(h, span_id, now) ==
  IF h.well_formed /\ h.enabled /\ h.trace_id_valid
  THEN {[trace |-> Continues(h, span_id, now), options |-> kDefaultTraceOptions]}
  ELSE {}

-----------------------------------------------------------------------------
(* Sampler: duration is {} if it is disabled; previous is when the last      *)
(* trace was started.                                                        *)
Sampler(duration) == [duration |-> duration, previous |-> {}]
On(s, now) == \E d \in s.duration : \A p \in s.previous : now - p > d
Refresh(s, now) == IF s.duration = {} THEN s ELSE [s EXCEPT !.previous = {now}]

(* CreateCloudTrace: a trace, if the header asks for one or the sampler is   *)
(* due, and the sampler afterwards.                                          *)
CreateCloudTrace(type, header, s, random, now) ==
  LET asked == UNION {IF type = "GRPC_TRACE_CONTEXT"
                      THEN GetTraceFromGRpcTraceContextHeader(h, random, now)
                      ELSE GetTraceFromCloudTraceContextHeader(h, random, now) : h \in header}
      found == IF asked # {} THEN asked
               ELSE IF On(s, now)
               THEN {[trace |-> GetNewTrace(random, random, {}, now), options |-> kDefaultTraceOptions]}
               ELSE {}
  IN  [cloud_trace |-> {[trace |-> t.trace, options |-> t.options, header_type |-> type] : t \in found},
       sampler |-> IF found = {} THEN s ELSE Refresh(s, now)]

(* The span of the backend call, and the header that passes it on.           *)
CreateSpan(t, span_id) ==
  [t EXCEPT !.trace.spans =
     Append(@, [span_id |-> span_id, parent |-> {@[1].span_id}, ended |-> FALSE])]
ToTraceContextHeader(t, span_id) ==
  [header_type |-> t.header_type, trace_id |-> t.trace.trace_id, span_id |-> span_id,
   options |-> IF t.header_type = "CLOUD_TRACE_CONTEXT" \/ t.options = kDefaultTraceOptions
               THEN t.options ELSE <<>>]

(* EndBackendSpan and EndRootSpan.                                           *)
EndSpans(t) ==
  [t EXCEPT !.trace.spans = [i \in DOMAIN @ |-> [@[i] EXCEPT !.ended = TRUE]]]

-----------------------------------------------------------------------------
(* The aggregator, unless tracing is disabled (CreateCloudTraceAggregator).  *)
CreateCloudTraceAggregator(config) ==
  IF config.force_disable THEN {}
  ELSE {[traces |-> <<>>, project_id |-> "", sampler |-> Sampler(config.duration),
         cache_max_size |-> config.cache_max_size, timer |-> config.time_millisec # 0,
         sent |-> <<>>]}

(* SendAndClearTraces: without a project the traces are dropped.  sent is    *)
(* the history of the requests made.                                         *)
SendAndClearTraces(a) ==
  [a EXCEPT
     !.sent = IF a.traces = <<>> \/ a.project_id = "" THEN @
              ELSE Append(@, [i \in DOMAIN a.traces |->
                                [a.traces[i] EXCEPT !.project_id = a.project_id]]),
     !.traces = <<>>]

(* Faulty variant: a full cache is sent and kept.                            *)
AppendTraceAndKeep(a, trace) ==
  LET full == [a EXCEPT !.traces = Append(@, trace)]
  IN  IF Len(full.traces) > a.cache_max_size
      THEN [SendAndClearTraces(full) EXCEPT !.traces = full.traces] ELSE full

AppendTrace(a, trace) ==
  LET full == [a EXCEPT !.traces = Append(@, trace)]
  IN  IF Len(full.traces) > a.cache_max_size THEN SendAndClearTraces(full) ELSE full
=============================================================================
