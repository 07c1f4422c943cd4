----------------------------- MODULE ProxyFlow -----------------------------
(* One proxied gRPC call: ProxyFlow (src/grpc/proxy_flow.cc) between the     *)
(* nginx request wrapped by NgxEspGrpcServerCall (src/nginx/                 *)
(* grpc_server_call.cc and its subclasses) and the backend reached through   *)
(* libgrpc.                                                                  *)
(*                                                                           *)
(* All the code of the flow and of the server call runs on the nginx main    *)
(* thread, so one action is one whole callback: a completion tag, a nginx    *)
(* read or write event, or the release of the request, with every            *)
(* continuation it invokes synchronously.  The backend and the client move   *)
(* between callbacks.                                                        *)
EXTENDS Naturals, Sequences

CONSTANTS
  MaxReq,      \* bound: messages the client sends
  MaxResp,     \* bound: messages the backend sends
  Transcoding  \* TRUE: NgxEspTranscodedGrpcServerCall, FALSE: pass-through

ASSUME BoundsAssumption == MaxReq \in Nat /\ MaxResp \in Nat
ASSUME TranscodingAssumption == Transcoding \in BOOLEAN

(* Operations the flow issues on the upstream call, each with a tag.         *)
OpKind == {"call", "initmeta", "read", "write", "writesdone", "finish"}

(* A completed operation: its tag and the ok its callback is called with.    *)
Tag == [op : OpKind, ok : BOOLEAN]

(* Status codes, as far as the properties tell them apart.  "ERR" and        *)
(* "CANCELLED" are made by the backend or by libgrpc, the others by ESP.     *)
Status == {"OK", "ERR", "CANCELLED", "UNAVAILABLE", "UNKNOWN", "INTERNAL",
           "READ_ERR", "CONVERT_ERR"}

VARIABLES
  (* ProxyFlow *)
  started,                    \* ProxyFlow::Start ran
  sent_upstream_writes_done,
  started_upstream_finish,
  sent_downstream_finish,
  status_from_upstream,       \* filled in by libgrpc when Finish completes
  wd_status,                  \* status captured by the WritesDone tag
  ops,                        \* tags made and not yet run, per operation
  tags,                       \* completed tags, waiting for the nginx thread
  req_buf,                    \* downstream_to_upstream_buffer_ (0: empty)
  resp_buf,                   \* upstream_to_downstream_buffer_
  (* NgxEspGrpcServerCall and the request's context *)
  request,                    \* "active", "lingering" (finalized, output not
                              \* flushed) or "freed": cln_.data = nullptr
  read_continuation, write_continuation,
  header_sent,
  read_handler,               \* "block", "readable" or "detached"
  write_handler,              \* "none", "esp" or "writer" (nginx's own)
  grpc_upstream_cancel,       \* ctx->grpc_upstream_cancel is set
  stale_use,                  \* history: the request was used after it was freed
  (* the client's side of the request *)
  slices,                     \* whole messages in downstream_slices_
  reading_body,               \* r->reading_body
  sock, sock_end,             \* messages and end of stream not read yet
  req_read,                   \* messages handed to the flow so far
  conn_error, read_event,     \* r->connection->error, its event not run yet
  delivered,                  \* response messages handed to nginx's output
  client_status,              \* final status the client is told
  finalized,                  \* calls of ngx_http_finalize_request
  (* the backend's side of the call *)
  b_sent, b_read, b_closed, b_got

flowVars == <<started, sent_upstream_writes_done, started_upstream_finish,
              sent_downstream_finish, status_from_upstream, wd_status>>
opVars == <<ops, tags, req_buf, resp_buf>>
callVars == <<request, read_continuation, header_sent,
              read_handler, write_handler, grpc_upstream_cancel>>
asideVars == <<write_continuation, stale_use>>
bodyVars == <<slices, reading_body, sock, sock_end, req_read>>
connVars == <<conn_error, read_event>>
outVars == <<delivered, client_status, finalized>>
backendVars == <<b_sent, b_read, b_closed, b_got>>
vars == <<flowVars, opVars, callVars, asideVars, bodyVars, connVars, outVars, backendVars>>

With(o, op) == [o EXCEPT ![op] = @ + 1]
Done(op) == [ops EXCEPT ![op] = @ - 1]
Completed(op) == \E i \in DOMAIN tags : tags[i].op = op

-----------------------------------------------------------------------------
(* The request direction: downstream reads, upstream writes.                 *)

(* Faulty variant: the once-guard is lost.                                   *)
WritesDoneEveryTime(o, st) ==
  /\ sent_upstream_writes_done' = TRUE
  /\ wd_status' = st
  /\ ops' = With(o, "writesdone")

(* StartUpstreamWritesDone, without the registration of the cancel function. *)
StartUpstreamWritesDone(o, st) ==
  IF sent_upstream_writes_done
  THEN ops' = o /\ UNCHANGED <<sent_upstream_writes_done, wd_status>>
  ELSE /\ sent_upstream_writes_done' = TRUE
       /\ wd_status' = st
       /\ ops' = With(o, "writesdone")

(* NgxEspGrpcServerCall::Cleanup, run when nginx frees the request: a pending*)
(* read (pending = TRUE) completes with (false, OK), a pending write is left.*)
(* The context, and the cancel function in it, die with the request.         *)
Cleanup(o, pending) ==
  /\ IF pending
     THEN StartUpstreamWritesDone(o, "OK")
     ELSE ops' = o /\ UNCHANGED <<sent_upstream_writes_done, wd_status>>
  /\ request' = "freed"
  /\ read_continuation' = FALSE
  /\ grpc_upstream_cancel' = FALSE
  /\ read_handler' = "detached"
  /\ write_handler' = "none"

(* ngx_http_finalize_request(r_, ...): nginx frees the request at once, or   *)
(* keeps it, with its own event handlers, until the output is flushed.  A    *)
(* handler may do so n times; the client is told the first status.           *)
Finalize(o, pending, st, n) ==
  /\ finalized' = finalized + n
  /\ client_status' = IF client_status = "none" THEN st ELSE client_status
  /\ \/ Cleanup(o, pending)
     \/ /\ ~conn_error
        /\ request' = "lingering"
        /\ read_handler' = "detached"
        /\ write_handler' = "writer"
        /\ read_continuation' = pending
        /\ ops' = o
        /\ UNCHANGED <<sent_upstream_writes_done, wd_status, grpc_upstream_cancel>>

(* Finish of the server call: nothing on a freed request; a header that can  *)
(* not be sent, or an output that does not translate, replaces the status.   *)
Finish(o, st) ==
  IF request = "freed"
  THEN /\ ops' = o
       /\ UNCHANGED <<callVars, outVars, sent_upstream_writes_done, wd_status>>
  ELSE /\ \/ Finalize(o, read_continuation, st, 1)
          \/ /\ ~header_sent /\ (Transcoding => st = "OK")
             /\ Finalize(o, read_continuation, "INTERNAL", 1)
          \/ /\ Transcoding /\ st = "OK"
             /\ Finalize(o, read_continuation, "CONVERT_ERR", 1)
       /\ header_sent' = TRUE
       /\ UNCHANGED delivered

(* Faulty variant: the backend's status is lost.                             *)
DownstreamFinishOwnStatus(o, st) ==
  IF sent_downstream_finish
  THEN /\ ops' = o
       /\ UNCHANGED <<sent_downstream_finish, callVars, outVars,
                      sent_upstream_writes_done, wd_status>>
  ELSE sent_downstream_finish' = TRUE /\ Finish(o, st)

StartDownstreamFinish(o, st) ==
  IF sent_downstream_finish
  THEN /\ ops' = o
       /\ UNCHANGED <<sent_downstream_finish, callVars, outVars,
                      sent_upstream_writes_done, wd_status>>
  ELSE /\ sent_downstream_finish' = TRUE
       /\ Finish(o, IF st = "OK" THEN status_from_upstream ELSE st)

(* Faulty variants: the once-guard is lost; Finish is not issued.            *)
UpstreamFinishEveryTime(o) ==
  started_upstream_finish' = TRUE /\ ops' = With(o, "finish")
UpstreamFinishNotIssued(o) ==
  started_upstream_finish' = TRUE /\ ops' = o

StartUpstreamFinish(o) ==
  /\ started_upstream_finish' = TRUE
  /\ ops' = IF started_upstream_finish THEN o ELSE With(o, "finish")

(* The continuation of a read that did not get a message.                    *)
ReadEnded(o, st) ==
  /\ StartUpstreamWritesDone(o, st)
  /\ read_continuation' = FALSE
  /\ read_handler' = "block"
  /\ grpc_upstream_cancel' =
       (grpc_upstream_cancel \/ ~sent_upstream_writes_done)
  /\ req_buf' = 0
  /\ UNCHANGED <<request, header_sent, write_handler,
                 outVars, req_read>>

(* A faulty variant: the buffer is cleared while the write is in progress.   *)
WriteMessageClearsBuffer(o, last) ==
  /\ IF last /\ sent_upstream_writes_done
     THEN ops' = o
     ELSE ops' = With(o, "write")
  /\ sent_upstream_writes_done' = (sent_upstream_writes_done \/ last)
  /\ grpc_upstream_cancel' =
       (grpc_upstream_cancel \/ (last /\ ~sent_upstream_writes_done))
  /\ req_read' = req_read + 1
  /\ req_buf' = 0
  /\ read_continuation' = FALSE
  /\ read_handler' = "block"
  /\ UNCHANGED <<request, header_sent, write_handler, outVars, wd_status>>

(* StartUpstreamWriteMessage: the message just read, last if the body ended. *)
StartUpstreamWriteMessage(o, last) ==
  /\ IF last /\ sent_upstream_writes_done
     THEN ops' = o
     ELSE ops' = With(o, "write")
  /\ sent_upstream_writes_done' = (sent_upstream_writes_done \/ last)
  /\ grpc_upstream_cancel' =
       (grpc_upstream_cancel \/ (last /\ ~sent_upstream_writes_done))
  /\ req_read' = req_read + 1
  /\ req_buf' = req_read + 1
  /\ read_continuation' = FALSE
  /\ read_handler' = "block"
  /\ UNCHANGED <<request, header_sent, write_handler,
                 outVars, wd_status>>

(* The outcome of TryReadDownstreamMessage once n messages are buffered and  *)
(* open tells whether the stream still is: a message, a message that does    *)
(* not decompress, the half-close, or a wait for the next read event.        *)
ReadBuffered(o, n, open) ==
  /\ reading_body' = open
  /\ \/ /\ n > 0
        /\ slices' = n - 1
        /\ StartUpstreamWriteMessage(o, ~open /\ n = 1)
     \/ n > 0 /\ slices' = n /\ ReadEnded(o, "INTERNAL")
     \/ n = 0 /\ ~open /\ slices' = 0 /\ ReadEnded(o, "OK")
     \/ /\ n = 0 /\ open
        /\ slices' = 0
        /\ read_continuation' = TRUE
        /\ read_handler' = "readable"
        /\ ops' = o
        /\ req_buf' = 0
        /\ UNCHANGED <<sent_upstream_writes_done, wd_status, req_read,
                       request, header_sent, write_handler,
                       grpc_upstream_cancel, outVars>>

(* RunPendingRead with a read pending: the buffered messages first, then     *)
(* what ngx_http_read_unbuffered_request_body gets from the connection.  A   *)
(* transcoder that failed (the request is finalized) keeps failing.          *)
RunPendingRead(o) ==
  \/ /\ Transcoding                    \* ConvertRequestBody -> HandleError
     /\ Finalize(o, TRUE, "CONVERT_ERR", 1)
     /\ header_sent' = TRUE
     /\ req_buf' = 0
     /\ UNCHANGED <<delivered, bodyVars>>
  \/ /\ finalized = 0
     /\ slices > 0 \/ ~reading_body
     /\ ReadBuffered(o, slices, reading_body)
     /\ UNCHANGED <<sock, sock_end>>
  \/ /\ finalized = 0
     /\ slices = 0 /\ reading_body /\ conn_error
     /\ ReadEnded(o, "READ_ERR")
     /\ UNCHANGED <<slices, reading_body, sock, sock_end>>
  \/ /\ finalized = 0
     /\ slices = 0 /\ reading_body /\ ~conn_error
     /\ \E k \in 0..sock, end \in BOOLEAN :
          /\ end => (sock_end /\ k = sock)
          /\ (k = 0 /\ ~end) => (sock = 0 /\ ~sock_end)
          /\ sock' = sock - k
          /\ ReadBuffered(o, k, ~end)
     /\ UNCHANGED sock_end

(* NgxEspGrpcServerCall::Read; on a freed request it fails at once.          *)
Read(o) ==
  IF request = "freed"
  THEN /\ StartUpstreamWritesDone(o, "OK")
       /\ req_buf' = 0
       /\ UNCHANGED <<callVars, outVars, bodyVars>>
  ELSE RunPendingRead(o)

StartDownstreamReadMessage(o) ==
  IF sent_downstream_finish
  THEN /\ ops' = o
       /\ req_buf' = 0
       /\ UNCHANGED <<sent_upstream_writes_done, wd_status, callVars, outVars,
                      bodyVars>>
  ELSE Read(o)

-----------------------------------------------------------------------------
(* The response direction: upstream reads, downstream writes.                *)

(* NgxEspGrpcServerCall::Write with its continuation: the request is gone,   *)
(* or the header, the conversion or the output failed (first disjunct); the  *)
(* transcoder failed, so HandleError finalizes the request and then the      *)
(* continuation does, unless it is freed; the message went to nginx's output *)
(* and was flushed (NGX_OK) or waits for a write event (NGX_AGAIN).          *)
Write(o) ==
  \/ StartDownstreamFinish(o, "UNKNOWN") /\ UNCHANGED write_continuation
  \/ /\ request # "freed" /\ Transcoding
     /\ \/ Finalize(o, read_continuation, "CONVERT_ERR", 1) /\ request' = "freed"
        \/ Finalize(o, read_continuation, "CONVERT_ERR", 2) /\ ~conn_error
     /\ sent_downstream_finish' = TRUE
     /\ header_sent' = TRUE
     /\ UNCHANGED <<write_continuation, delivered>>
  \/ /\ request # "freed" /\ ~conn_error
     /\ delivered' = Append(delivered, resp_buf)
     /\ header_sent' = TRUE
     /\ \/ /\ ops' = With(o, "read")
           /\ UNCHANGED <<write_continuation, write_handler>>
        \/ /\ ops' = o
           /\ write_continuation' = TRUE
           /\ write_handler' = "esp"
     /\ UNCHANGED <<sent_downstream_finish, sent_upstream_writes_done, wd_status,
                    request, read_continuation, read_handler,
                    grpc_upstream_cancel, client_status, finalized>>

(* StartDownstreamWriteMessage: UpdateResponseMessageStat dereferences the   *)
(* request without looking at cln_.data, then Write.                         *)
StartDownstreamWriteMessage(o) ==
  IF sent_downstream_finish
  THEN /\ ops' = o
       /\ UNCHANGED <<sent_downstream_finish, sent_upstream_writes_done,
                      wd_status, callVars, outVars, asideVars>>
  ELSE /\ stale_use' = (stale_use \/ request = "freed")
       /\ Write(o)

(* StartDownstreamWriteInitialMetadata, then StartUpstreamReadMessage.  The  *)
(* transcoded call delays the header until the first message.                *)
StartDownstreamWriteInitialMetadata(o) ==
  IF sent_downstream_finish
  THEN /\ ops' = o
       /\ UNCHANGED <<sent_downstream_finish, sent_upstream_writes_done,
                      wd_status, callVars, outVars>>
  ELSE \/ StartDownstreamFinish(o, "UNKNOWN")
       \/ /\ request # "freed"
          /\ header_sent' = (header_sent \/ ~Transcoding)
          /\ ops' = With(o, "read")
          /\ UNCHANGED <<sent_downstream_finish, sent_upstream_writes_done,
                         wd_status, request, read_continuation,
                         read_handler, write_handler,
                         grpc_upstream_cancel, outVars>>

-----------------------------------------------------------------------------
(* Callbacks on the nginx thread.                                            *)

Init ==
  /\ started = FALSE
  /\ sent_upstream_writes_done = FALSE
  /\ started_upstream_finish = FALSE
  /\ sent_downstream_finish = FALSE
  /\ status_from_upstream = "OK"
  /\ wd_status = "OK"
  /\ ops = [op \in OpKind |-> 0]
  /\ tags = <<>>
  /\ req_buf = 0 /\ resp_buf = 0
  (* ProcessPrereadRequestBody: a body the transcoder rejects is answered    *)
  (* before the flow starts                                                  *)
  /\ \/ /\ request = "active" /\ finalized = 0 /\ client_status = "none"
        /\ header_sent = FALSE
        /\ read_handler = "block" /\ write_handler = "none"
     \/ /\ Transcoding
        /\ request \in {"freed", "lingering"}
        /\ finalized = 1 /\ client_status = "CONVERT_ERR" /\ header_sent = TRUE
        /\ read_handler = "detached"
        /\ write_handler = IF request = "freed" THEN "none" ELSE "writer"
  /\ read_continuation = FALSE /\ write_continuation = FALSE
  /\ grpc_upstream_cancel = FALSE
  /\ stale_use = FALSE
  /\ slices \in 0..MaxReq /\ reading_body \in BOOLEAN
  /\ sock = 0 /\ sock_end = ~reading_body
  /\ req_read = 0
  /\ conn_error = FALSE /\ read_event = FALSE
  /\ delivered = <<>>
  /\ b_sent = 0 /\ b_read = 0 /\ b_closed = "open" /\ b_got = <<>>

(* ProxyFlow::Start: StartUpstreamCall, or the end of the call if a header   *)
(* does not decode.                                                          *)
Start ==
  /\ ~started
  /\ started' = TRUE
  /\ \/ /\ ops' = With(ops, "call")
        /\ UNCHANGED <<sent_downstream_finish, sent_upstream_writes_done,
                       wd_status, callVars, outVars>>
     \/ StartDownstreamFinish(ops, "INTERNAL")
  /\ UNCHANGED <<started_upstream_finish, status_from_upstream, tags, req_buf,
                 resp_buf, asideVars, bodyVars, connVars, backendVars>>

(* DrainPending runs the oldest completed tag.                               *)
RunTag(op, ok) ==
  /\ tags # <<>>
  /\ Head(tags) = [op |-> op, ok |-> ok]
  /\ tags' = Tail(tags)
  /\ UNCHANGED <<started, status_from_upstream, resp_buf, connVars, backendVars>>

OnCallTag ==
  \/ /\ RunTag("call", FALSE)
     /\ StartDownstreamFinish(Done("call"), "UNAVAILABLE")
     /\ UNCHANGED <<started_upstream_finish, req_buf, asideVars, bodyVars>>
  \/ /\ RunTag("call", TRUE)
     /\ StartDownstreamReadMessage(With(Done("call"), "initmeta"))
     /\ UNCHANGED <<started_upstream_finish, sent_downstream_finish, asideVars>>

OnInitialMetadataTag ==
  /\ \/ /\ RunTag("initmeta", FALSE)
        /\ StartDownstreamFinish(Done("initmeta"), "UNKNOWN")
     \/ /\ RunTag("initmeta", TRUE)
        /\ StartDownstreamWriteInitialMetadata(Done("initmeta"))
  /\ UNCHANGED <<started_upstream_finish, req_buf, asideVars, bodyVars>>

OnReadTag ==
  \/ /\ RunTag("read", FALSE)
     /\ StartUpstreamFinish(Done("read"))
     /\ UNCHANGED <<sent_downstream_finish, sent_upstream_writes_done, wd_status,
                    callVars, asideVars, outVars, req_buf, bodyVars>>
  \/ /\ RunTag("read", TRUE)
     /\ StartDownstreamWriteMessage(Done("read"))
     /\ UNCHANGED <<started_upstream_finish, req_buf, bodyVars>>

OnWriteTag ==
  \/ /\ RunTag("write", FALSE)
     /\ req_buf' = 0
     /\ StartUpstreamFinish(Done("write"))
     /\ UNCHANGED <<sent_downstream_finish, sent_upstream_writes_done, wd_status,
                    callVars, asideVars, outVars, bodyVars>>
  \/ /\ RunTag("write", TRUE)
     /\ StartDownstreamReadMessage(Done("write"))
     /\ UNCHANGED <<started_upstream_finish, sent_downstream_finish, asideVars>>

OnWritesDoneTag ==
  \/ /\ RunTag("writesdone", FALSE)
     /\ StartUpstreamFinish(Done("writesdone"))
     /\ UNCHANGED <<sent_downstream_finish, sent_upstream_writes_done, wd_status,
                    callVars, asideVars, outVars, req_buf, bodyVars>>
  \/ /\ RunTag("writesdone", TRUE)
     /\ IF wd_status = "OK"
        THEN /\ ops' = Done("writesdone")
             /\ UNCHANGED <<sent_downstream_finish, sent_upstream_writes_done,
                            wd_status, callVars, outVars>>
        ELSE StartDownstreamFinish(Done("writesdone"), wd_status)
     /\ UNCHANGED <<started_upstream_finish, req_buf, asideVars, bodyVars>>

OnFinishTag ==
  /\ \E ok \in BOOLEAN : RunTag("finish", ok)
  /\ StartDownstreamFinish(Done("finish"), "OK")
  /\ UNCHANGED <<started_upstream_finish, req_buf, asideVars, bodyVars>>

(* nginx calls OnDownstreamReadable: drive the read loop.                    *)
OnDownstreamReadable ==
  /\ read_handler = "readable"
  /\ sock > 0 \/ sock_end \/ read_event
  /\ read_event' = FALSE
  /\ RunPendingRead(ops)
  /\ UNCHANGED <<started, started_upstream_finish, sent_downstream_finish,
                 status_from_upstream, tags, resp_buf, asideVars, conn_error,
                 backendVars>>

(* A faulty variant: the event is consumed, the cancel function is not run.  *)
BlockReadingIgnoresCancel ==
  /\ read_handler = "block" /\ read_event
  /\ read_event' = FALSE
  /\ UNCHANGED <<flowVars, opVars, callVars, asideVars, bodyVars, conn_error,
                 outVars, backendVars>>

(* nginx calls OnHttpBlockReading for the connection error: the cancel       *)
(* function, if one is registered by now, is TryCancel and then              *)
(* StartUpstreamFinish.                                                      *)
OnHttpBlockReading ==
  /\ read_handler = "block"
  /\ read_event
  /\ read_event' = FALSE
  /\ IF grpc_upstream_cancel
     THEN /\ grpc_upstream_cancel' = FALSE
          /\ b_closed' = IF b_closed = "open" THEN "CANCELLED" ELSE b_closed
          /\ StartUpstreamFinish(ops)
     ELSE UNCHANGED <<grpc_upstream_cancel, b_closed, started_upstream_finish, ops>>
  /\ UNCHANGED <<started, sent_upstream_writes_done, sent_downstream_finish,
                 status_from_upstream, wd_status, tags, req_buf, resp_buf,
                 request, read_continuation, header_sent,
                 read_handler, write_handler, asideVars, bodyVars, conn_error,
                 outVars, b_sent, b_read, b_got>>

(* nginx calls OnDownstreamWriteable, and the output is flushed or failed.   *)
OnDownstreamWriteable ==
  /\ write_handler = "esp" /\ write_continuation
  /\ write_continuation' = FALSE
  /\ \/ /\ ~conn_error
        /\ write_handler' = "none"
        /\ ops' = IF sent_downstream_finish THEN ops ELSE With(ops, "read")
        /\ UNCHANGED <<sent_downstream_finish, sent_upstream_writes_done,
                       wd_status, request, read_continuation, header_sent,
                       read_handler, grpc_upstream_cancel, outVars>>
     \/ StartDownstreamFinish(ops, "UNKNOWN")
  /\ UNCHANGED <<started, started_upstream_finish, status_from_upstream, tags,
                 req_buf, resp_buf, stale_use, bodyVars, connVars, backendVars>>

(* nginx frees a finalized request: its output is flushed or has failed.     *)
FreeLingering ==
  /\ request = "lingering" /\ write_handler = "writer"
  /\ Cleanup(ops, read_continuation)
  /\ UNCHANGED <<started, started_upstream_finish, sent_downstream_finish,
                 status_from_upstream, tags, req_buf, resp_buf, header_sent,
                 asideVars, bodyVars, connVars, outVars, backendVars>>

(* Nothing refers to the flow any more: no tag, no continuation, no cancel   *)
(* function.  Its destruction drops the upstream call.                       *)
FlowReferenced ==
  \/ ~started
  \/ \E op \in OpKind : ops[op] > 0
  \/ read_continuation \/ write_continuation \/ grpc_upstream_cancel

DestroyFlow ==
  /\ ~FlowReferenced
  /\ b_closed = "open"
  /\ b_closed' = "CANCELLED"
  /\ UNCHANGED <<flowVars, opVars, callVars, asideVars, bodyVars, connVars,
                 outVars, b_sent, b_read, b_got>>

-----------------------------------------------------------------------------
(* The client, as nginx shows it.                                            *)

ClientSend ==
  /\ reading_body /\ ~sock_end /\ ~conn_error
  /\ req_read + slices + sock < MaxReq
  /\ sock' = sock + 1
  /\ UNCHANGED <<flowVars, opVars, callVars, asideVars, slices, reading_body,
                 sock_end, req_read, connVars, outVars, backendVars>>

ClientHalfClose ==
  /\ reading_body /\ ~sock_end /\ ~conn_error
  /\ sock_end' = TRUE
  /\ UNCHANGED <<flowVars, opVars, callVars, asideVars, slices, reading_body,
                 sock, req_read, connVars, outVars, backendVars>>

(* RST_STREAM or a closed connection: one read event.                        *)
ClientReset ==
  /\ ~conn_error /\ request # "freed"
  /\ conn_error' = TRUE /\ read_event' = TRUE
  /\ UNCHANGED <<flowVars, opVars, callVars, asideVars, bodyVars, outVars,
                 backendVars>>

Client == ClientSend \/ ClientHalfClose \/ ClientReset

-----------------------------------------------------------------------------
(* The backend and libgrpc.                                                  *)

BackendSend ==
  /\ b_closed = "open" /\ started /\ ops["call"] = 0
  /\ b_sent < MaxResp
  /\ b_sent' = b_sent + 1
  /\ UNCHANGED <<flowVars, opVars, callVars, asideVars, bodyVars, connVars,
                 outVars, b_read, b_closed, b_got>>

BackendClose ==
  /\ b_closed = "open" /\ started
  /\ b_closed' \in {"OK", "ERR"}
  /\ ops["call"] > 0 => b_closed' = "ERR"
  /\ UNCHANGED <<flowVars, opVars, callVars, asideVars, bodyVars, connVars,
                 outVars, b_sent, b_read, b_got>>

Backend == BackendSend \/ BackendClose

Complete(op, ok) ==
  /\ ops[op] > 0 /\ ~Completed(op)
  /\ tags' = Append(tags, [op |-> op, ok |-> ok])
  /\ UNCHANGED <<started, sent_upstream_writes_done, started_upstream_finish,
                 sent_downstream_finish, wd_status, ops, req_buf, callVars,
                 asideVars, bodyVars, connVars, outVars, b_sent, b_closed>>

Failed == b_closed \in {"ERR", "CANCELLED"}

CompleteCall ==
  /\ \E ok \in BOOLEAN : (~ok => Failed) /\ Complete("call", ok)
  /\ UNCHANGED <<status_from_upstream, resp_buf, b_read, b_got>>

CompleteInitialMetadata ==
  /\ \/ ~Failed /\ Complete("initmeta", TRUE)
     \/ Failed /\ \E ok \in BOOLEAN : Complete("initmeta", ok)
  /\ UNCHANGED <<status_from_upstream, resp_buf, b_read, b_got>>

(* A read gets the next message; it fails once there is none.                *)
CompleteRead ==
  /\ \/ /\ ~Failed /\ b_read < b_sent
        /\ Complete("read", TRUE)
        /\ resp_buf' = b_read + 1
        /\ b_read' = b_read + 1
     \/ /\ Failed \/ (b_closed = "OK" /\ b_read = b_sent)
        /\ Complete("read", FALSE)
        /\ UNCHANGED <<resp_buf, b_read>>
  /\ UNCHANGED <<status_from_upstream, b_got>>

CompleteWrite ==
  /\ \/ /\ b_closed = "open"
        /\ Complete("write", TRUE)
        /\ b_got' = Append(b_got, req_buf)
     \/ b_closed # "open" /\ Complete("write", FALSE) /\ UNCHANGED b_got
  /\ UNCHANGED <<status_from_upstream, resp_buf, b_read>>

CompleteWritesDone ==
  /\ Complete("writesdone", b_closed = "open")
  /\ UNCHANGED <<status_from_upstream, resp_buf, b_read, b_got>>

(* The status follows the messages on the stream: libgrpc reports it after   *)
(* the initial metadata and, unless the call failed, after the last message. *)
CompleteFinish ==
  /\ Failed \/ (b_closed = "OK" /\ b_read = b_sent)
  /\ \A op \in {"initmeta", "read"} : ops[op] > 0 => Completed(op)
  /\ Complete("finish", TRUE)
  /\ status_from_upstream' = b_closed
  /\ UNCHANGED <<resp_buf, b_read, b_got>>

CompleteOp ==
  \/ CompleteCall \/ CompleteInitialMetadata \/ CompleteRead
  \/ CompleteWrite \/ CompleteWritesDone \/ CompleteFinish

-----------------------------------------------------------------------------
OnTag ==
  \/ OnCallTag \/ OnInitialMetadataTag \/ OnReadTag
  \/ OnWriteTag \/ OnWritesDoneTag \/ OnFinishTag

OnEvent ==
  \/ OnDownstreamReadable \/ OnHttpBlockReading \/ OnDownstreamWriteable

Next ==
  \/ Start \/ OnTag \/ OnEvent \/ FreeLingering \/ DestroyFlow
  \/ Client \/ Backend \/ CompleteOp

Spec == Init /\ [][Next]_vars

(* The nginx loop serves its events and its tags, libgrpc completes what it  *)
(* can, and nginx gets rid of the output of a finalized request.  The client *)
(* sends and the backend answers, or even reads, only if they want to.       *)
Fairness ==
  /\ WF_vars(Start) /\ WF_vars(OnTag) /\ WF_vars(OnDownstreamReadable)
  /\ WF_vars(OnHttpBlockReading) /\ WF_vars(OnDownstreamWriteable)
  /\ WF_vars(FreeLingering) /\ WF_vars(DestroyFlow)
  /\ WF_vars(CompleteCall) /\ WF_vars(CompleteRead)
  /\ WF_vars((b_sent > 0 \/ b_closed # "open") /\ CompleteInitialMetadata)
  /\ WF_vars(b_closed # "open" /\ CompleteWrite)
  /\ WF_vars(CompleteWritesDone) /\ WF_vars(CompleteFinish)

FairSpec == Spec /\ Fairness

-----------------------------------------------------------------------------
(* Properties.                                                               *)

TypeOK ==
  /\ started \in BOOLEAN
  /\ sent_upstream_writes_done \in BOOLEAN
  /\ started_upstream_finish \in BOOLEAN
  /\ sent_downstream_finish \in BOOLEAN
  /\ status_from_upstream \in Status /\ wd_status \in Status
  /\ ops \in [OpKind -> Nat]
  /\ tags \in Seq(Tag)
  /\ req_buf \in Nat /\ resp_buf \in Nat
  /\ request \in {"active", "lingering", "freed"}
  /\ read_continuation \in BOOLEAN /\ write_continuation \in BOOLEAN
  /\ header_sent \in BOOLEAN
  /\ read_handler \in {"block", "readable", "detached"}
  /\ write_handler \in {"none", "esp", "writer"}
  /\ grpc_upstream_cancel \in BOOLEAN /\ stale_use \in BOOLEAN
  /\ slices \in Nat /\ sock \in Nat /\ req_read \in Nat
  /\ reading_body \in BOOLEAN /\ sock_end \in BOOLEAN
  /\ conn_error \in BOOLEAN /\ read_event \in BOOLEAN
  /\ delivered \in Seq(Nat)
  /\ client_status \in Status \cup {"none"}
  /\ finalized \in Nat
  /\ b_sent \in Nat /\ b_read \in Nat /\ b_got \in Seq(Nat)
  /\ b_closed \in {"open", "OK", "ERR", "CANCELLED"}

Flag(b) == IF b THEN 1 ELSE 0

(* Operations that move the request direction / the response direction on.   *)
RequestTokens ==
  ops["call"] + Flag(read_continuation) + ops["write"] + ops["writesdone"]
ResponseTokens ==
  ops["call"] + ops["initmeta"] + ops["read"] + Flag(write_continuation)

(* libgrpc allows one write-side and one read-side operation at a time on a  *)
(* call, and the flow has one buffer each way.  The chain of callbacks keeps *)
(* to that although both directions, the cancel function and the release of  *)
(* the request all start operations.                                         *)
OneOperationPerDirection ==
  /\ RequestTokens <= 1
  /\ ResponseTokens <= 1
  /\ ops["finish"] <= 1

(* The flow lives only in its tags and continuations.  It never lets go of   *)
(* the last one with the client still waiting: every chain of callbacks ends *)
(* in StartDownstreamFinish, whichever operation fails first.                *)
NoOrphanedRequest == ~FlowReferenced => sent_downstream_finish

(* The inductive strengthening of the two: a completed tag belongs to an     *)
(* operation that is outstanding, and no operation has two; nothing happens  *)
(* before Start; only a pending read waits for a read event; a half-closed   *)
(* request direction that still moves has nothing left to read; and until    *)
(* the client is told the end, the response direction or a Finish is under   *)
(* way.                                                                      *)
TagsOutstanding ==
  /\ \A i \in 1..Len(tags) : ops[tags[i].op] >= 1
  /\ \A i, j \in 1..Len(tags) : tags[i].op = tags[j].op => i = j
BeforeStart ==
  ~started =>
    /\ \A op \in OpKind : ops[op] = 0
    /\ ~read_continuation /\ ~write_continuation /\ ~grpc_upstream_cancel
    /\ ~sent_upstream_writes_done /\ ~started_upstream_finish
ReadableMeansPending == read_handler = "readable" => read_continuation
HalfCloseDrained ==
  sent_upstream_writes_done =>
    \/ ops["call"] + ops["write"] + Flag(read_continuation) = 0
    \/ slices = 0 /\ ~reading_body
ResponseUnderWay ==
  /\ started => \/ sent_downstream_finish
                \/ ResponseTokens >= 1
                \/ ops["finish"] >= 1
  /\ ops["finish"] >= 1 => started_upstream_finish
  /\ started_upstream_finish => \/ sent_downstream_finish
                                \/ ops["finish"] >= 1
FlowInvariant ==
  /\ TypeOK
  /\ TagsOutstanding
  /\ BeforeStart
  /\ ReadableMeansPending
  /\ OneOperationPerDirection
  /\ HalfCloseDrained
  /\ ResponseUnderWay

(* After the half-close (WritesDone, or Write with last_message) the flow    *)
(* gives the backend no further message and no second half-close.            *)
NothingAfterHalfClose ==
  [][sent_upstream_writes_done =>
       /\ ops'["write"] <= ops["write"]
       /\ ops'["writesdone"] <= ops["writesdone"]]_vars

(* The backend gets the client's messages in order, none lost in between and *)
(* none twice, although one buffer carries them all.                         *)
RequestInOrder == b_got = [i \in 1..Len(b_got) |-> i]

(* Its inductive strengthening: whoever may start the next read has seen the *)
(* backend take every message read so far, and a write that has not          *)
(* completed carries the message after the backend's last.                   *)
HasTag(op, ok) == \E i \in 1..Len(tags) : tags[i] = [op |-> op, ok |-> ok]
BufferKept ==
  /\ \/ ~started \/ ops["call"] > 0 \/ read_continuation
     \/ HasTag("write", TRUE)
     => Len(b_got) = req_read
  /\ ops["write"] > 0 /\ ~Completed("write") =>
       req_buf = req_read /\ req_read = Len(b_got) + 1
RequestInvariant == FlowInvariant /\ RequestInOrder /\ BufferKept

(* Once the backend has ended the call, or libgrpc has failed it, the client *)
(* is told, provided it takes its output or goes away.                       *)
BackendEndReachesClient ==
  (started /\ b_closed # "open") ~> sent_downstream_finish

(* A client that resets its stream while the proxy waits for more of the     *)
(* request, or after it has half-closed and the cancel function is there,    *)
(* ends the call, though the backend is silent and whatever callbacks run    *)
(* between: nothing else uses the one read event up, a read that finds the   *)
(* error ends the request, and the cancel function stays until it is run.    *)
(* (A reset between the two may be lost: ResetFinishesCall.)                 *)
CallOver == b_closed # "open" \/ request # "active"
ResetEndsCall ==
  /\ (conn_error /\ read_continuation) ~> CallOver
  /\ []((grpc_upstream_cancel /\ ~conn_error) => [](conn_error => <>CallOver))

(* Towards the client the pass-through flow is a relay: see RpcRelay.        *)
Relay == INSTANCE RpcRelay WITH sent <- b_sent, closed <- b_closed,
                                status <- client_status
RelaysFaithfully == Relay!RelaySpec

(* What it rests on in the pass-through flow: until the client is told the   *)
(* end, it has every response that was read but the one whose tag waits, and *)
(* a Finish that has completed holds the backend's status, with no response  *)
(* behind it in the queue.                                                   *)
ResponsesPassedOn ==
  ~sent_downstream_finish =>
    /\ request = "active" /\ client_status = "none"
    /\ IF HasTag("read", TRUE)
       THEN resp_buf = Len(delivered) + 1 /\ b_read = Len(delivered) + 1
       ELSE b_read = Len(delivered)
FinishIsLast ==
  \A j \in 1..Len(tags) : tags[j].op = "finish" =>
    /\ b_closed # "open" /\ status_from_upstream = b_closed
    /\ b_closed = "OK" => b_read = b_sent
    /\ \A i \in 1..Len(tags) : tags[i] = [op |-> "read", ok |-> TRUE] => i < j
RelayInvariant ==
  FlowInvariant /\ b_read <= b_sent /\ ResponsesPassedOn /\ FinishIsLast

(* "if the request is finalized/terminated the NgxEspGrpcServerCall will     *)
(* stop using it" (grpc_server_call.h, constructor).                         *)
NoUseOfFreedRequest == ~stale_use

(* "This causes currently outstanding and newly initiated operations to be   *)
(* completed with 'false'" (grpc_server_call.h, Cleanup).                    *)
CleanupCompletes == request = "freed" => ~read_continuation /\ ~write_continuation

(* "an additional mechanism to detect RST_STREAM and finish upstream         *)
(* properly" (proxy_flow.h, RegisterGrpcUpstreamCancel): a half-closed call  *)
(* whose client is gone comes to an end even if the backend stays silent.    *)
ResetFinishesCall ==
  (conn_error /\ sent_upstream_writes_done /\ request = "active")
     ~> (b_closed # "open" \/ request # "active")
=============================================================================
