----------------------------- MODULE GrpcBackend -----------------------------
(* The content handler of locations with grpc_pass (nginx/grpc.cc) and the   *)
(* bytes of the call it starts: how messages are cut out of the client's     *)
(* body and how responses are put together, for pass-through gRPC, gRPC-Web  *)
(* and transcoded calls.  The order of the calls' operations, their failures *)
(* and the release of the request are ProxyFlow's subject: here a read, once *)
(* begun, runs to its end or to a wait, and a write succeeds.                *)
EXTENDS Routing, MessageFraming, StatusCodes

CONSTANTS
  Chunks,           \* how many bytes of a body may arrive at once
  Replies,          \* the messages of the backend, as sequences of slices
  MaxReplies,       \* bound on the messages of a response
  Ends,             \* the status, message and trailers a call may end with
  Leftovers(_)      \* what so many bytes of memory may hold that nothing was written to

Byte == 0..(ByteValues - 1)

(* The length of a message fits its delimiter; sizes are natural numbers.    *)
Sized(bytes) == bytes \in Seq(Byte) /\ Len(bytes) < ByteValues * ByteValues * ByteValues * ByteValues
ASSUME MessageAssumption ==
  /\ \A message \in Replies : message \in Seq(Seq(Byte)) /\ Sized(FlattenSeq(message))
  /\ \A e \in Ends :
       /\ e.message \in Nat /\ Len(e.trailers) \in Nat /\ DOMAIN e.trailers = 1..Len(e.trailers)
       /\ \A i \in DOMAIN e.trailers : e.trailers[i].name_size \in Nat /\ e.trailers[i].value_size \in Nat

VARIABLE server     \* {} or the NgxEspGrpcServerCall of a request at hand
backendVars == <<vars, server>>

S == CHOOSE s \in server : TRUE
NGX_DECLINED == -5
NGX_HTTP_NOT_FOUND == 404
NGX_HTTP_REQUEST_ENTITY_TOO_LARGE == 413

(* Compression by libgrpc, some function that has an inverse.                *)
Decompress(bytes) == Reverse(bytes)

(* The body of a gRPC or gRPC-Web request, and of a JSON request: a document *)
(* is as many bytes as its message and one that ends it.                     *)
GrpcBody(messages) ==
  FlattenSeq([i \in DOMAIN messages |->
    Frame(messages[i].flag, IF messages[i].flag = 1 THEN Decompress(messages[i].payload)
                            ELSE messages[i].payload)])
JsonBody(messages) ==
  FlattenSeq([i \in DOMAIN messages |-> [b \in DOMAIN messages[i].payload |-> 1] \o <<0>>])

-----------------------------------------------------------------------------
(* GrpcGetBackendAddress: {} if there is none.                               *)
BackendAddress(grpc, found) ==
  LET own == {f.method.backend_address : f \in found} \ {<<>>}
  IN  IF grpc.override # <<>> THEN {grpc.override}
      ELSE IF own # {} THEN own
      ELSE {grpc.fallback} \ {<<>>}

(* CanBeTranscoded: the method has an RPC name and types; the handler gets a *)
(* transcoder factory for every config.                                      *)
CanBeTranscoded(found) ==
  \E f \in found : f.method.rpc_method_full_name # <<>> /\ f.method.typed
CallKind(req, found) ==
  CASE req.content_type = "grpc" -> "grpc"
    [] req.content_type = "grpc-web" /\ req.http_method = "POST" -> "grpc-web"
    [] OTHER -> IF CanBeTranscoded(found) THEN "transcoded" ELSE "none"

NewServerCall(kind, address, messages) ==
  [kind |-> kind, address |-> address, messages |-> messages,
   wire |-> IF kind = "transcoded" THEN JsonBody(messages) ELSE GrpcBody(messages),
   reading_body |-> TRUE, arrived |-> <<>>, request |-> NgxStream(<<>>), slices |-> <<>>,
   translated |-> 0, partial |-> FALSE, garbled |-> FALSE,
   pending |-> FALSE, reading |-> FALSE, try |-> FALSE, read |-> <<>>, end |-> "open",
   replied |-> <<>>, response |-> GrpcStream, header |-> {}, out |-> <<>>, trailers |-> <<>>,
   status |-> OK, backend_status |-> OK, finished |-> FALSE]

(* HandleError: the status becomes the HTTP status unless the header is out; *)
(* the pending read ends.                                                    *)
HandleError(s, code) ==
  [s EXCEPT !.status = code, !.finished = TRUE, !.pending = FALSE, !.reading = FALSE,
            !.end = IF s.end = "open" THEN "error" ELSE @,
            !.header = IF @ = {} THEN {HttpCode(code)} ELSE @]

(* GrpcFinish: the trailers are headers of their own, and the status is kept *)
(* for the report; GrpcWebFinish does not keep it.                           *)
GrpcFinish(s, e) ==
  [s EXCEPT !.status = e.code,
            !.trailers = <<[name |-> "grpc-status", value |-> CanonicalCode(e.code)]>>
              \o (IF IsOk(e.code) THEN <<>> ELSE <<[name |-> "grpc-message", value |-> e.message]>>)
              \o e.trailers]

(* ngx_esp_return_error of the handler: a gRPC client gets trailers too.     *)
ReturnError(kind, code) ==
  LET s == HandleError(NewServerCall(IF kind = "grpc" THEN kind ELSE "none", <<>>, <<>>), code)
  IN  IF kind = "grpc" THEN GrpcFinish(s, [code |-> code, message |-> 0, trailers |-> <<>>]) ELSE s

(* Data that nginx has for the call; used buffers are gone, and what is not  *)
(* sent when the stream ends never comes.                                    *)
Chained(stream, bufs) == [stream EXCEPT !.bufs = SelectSeq(@, LAMBDA b : b.data # <<>>) \o bufs]
Arrive(s, k, bufs, more) ==
  [s EXCEPT !.request = Chained(@, bufs),
            !.arrived = @ \o SubSeq(s.wire, 1, k),
            !.wire = IF more THEN SubSeq(@, k + 1, Len(@)) ELSE <<>>,
            !.reading_body = more]
Memory(s, k) == [file |-> FALSE, data |-> SubSeq(s.wire, 1, k)]
Sizes(s) == {k \in Chunks : k < Len(s.wire)} \union {Len(s.wire)}

(* ConvertRequestBody of pass-through calls: each buffer becomes a slice, an *)
(* empty one too.  How much of a file was read is not looked at: the rest of *)
(* the slice holds what the memory held, and garbled is the history of that. *)
GrpcSliceFromNginxBuffer(buf) ==
  LET n == Len(buf.data)
      Short(k) == {[data |-> SubSeq(buf.data, 1, k) \o rest, garbled |-> TRUE] : rest \in Leftovers(n - k)}
  IN  {[data |-> buf.data, garbled |-> FALSE]}
      \union (IF buf.file THEN UNION {Short(k) : k \in 0..(n - 1)} ELSE {})
BuffersToSlices(s) ==
  LET bufs == s.request.bufs
      Slices == UNION {GrpcSliceFromNginxBuffer(bufs[i]) : i \in DOMAIN bufs}
  IN  {[s EXCEPT !.slices = @ \o [i \in DOMAIN bufs |-> x[i].data],
                 !.garbled = @ \/ \E i \in DOMAIN bufs : x[i].garbled,
                 !.request = NgxStream(<<>>)] :
         x \in {x \in [DOMAIN bufs -> Slices] : \A i \in DOMAIN bufs : x[i] \in GrpcSliceFromNginxBuffer(bufs[i])}}

(* ConvertRequestBody of transcoded calls: the transcoder gives a frame for  *)
(* each document that is complete and refuses a body that ends within one.   *)
Documents(bytes) == Cardinality({i \in DOMAIN bytes : bytes[i] = 0})
Translate(s, n) ==
  LET frames == [i \in 1..Documents(n.data) |-> Frame(0, s.messages[s.translated + i].payload)]
  IN  [s EXCEPT !.request = n.stream, !.translated = @ + Documents(n.data), !.slices = @ \o frames,
                !.partial = IF n.data = <<>> THEN @ ELSE Last(n.data) # 0]
Verify(s) ==
  IF ~s.reading_body /\ s.partial THEN HandleError(s, INVALID_ARGUMENT)
  ELSE IF ~s.request.ok THEN HandleError(s, 500) ELSE s
ConvertRequestBody(s) ==
  IF s.kind = "transcoded" THEN {Verify(Translate(s, n)) : n \in NgxReadAll(s.request)}
  ELSE BuffersToSlices(s)

(* ProcessPrereadRequestBody: nginx has read nothing, some or all of the     *)
(* body, or had put all of it into a file before.                            *)
Preread(s) ==
  UNION {ConvertRequestBody(t) :
    t \in {s} \union {Arrive(s, k, <<Memory(s, k)>>, TRUE) : k \in Sizes(s)}
          \union {Arrive(s, Len(s.wire), <<[file |-> file, data |-> s.wire]>>, FALSE) : file \in BOOLEAN}}

(* What creating the server call may fail with: the bindings or the types do *)
(* not fit the message, or nginx refuses the body.                           *)
CreateErrors(kind) == {NGX_HTTP_REQUEST_ENTITY_TOO_LARGE} \union
                      (IF kind = "transcoded" THEN {INVALID_ARGUMENT} ELSE {})

(* The handler of the request c; one server call at a time, they share       *)
(* nothing.                                                                  *)
GrpcBackendHandler(c) ==
  /\ deployment.grpc # {} /\ c.stage = "passed" /\ server = {}
  /\ \E grpc \in deployment.grpc :
     LET kind == CallKind(c.req, c.found)
         addresses == BackendAddress(grpc, c.found)
         key == IF kind = "transcoded" THEN UNION {f.api_key_from_query : f \in c.found} ELSE {}
         headers == IF key = {} THEN c.headers
                    ELSE AddHeaderToBackend(c.headers, "x-api-key", CHOOSE k \in key : TRUE)
     IN  /\ GoesOn(c, RequestContext(c.slot, c.req, c.by, c.found, headers, "content",
                                     c.cloud_trace, c.trace_header))
         /\ IF kind = "none" THEN server' = {ReturnError(kind, NGX_HTTP_NOT_FOUND)}
            ELSE IF addresses = {} THEN server' = {ReturnError(kind, NGX_DECLINED)}
            ELSE \/ \E code \in CreateErrors(kind) : server' = {ReturnError(kind, code)}
                 \/ \E a \in addresses : \E s \in Preread(NewServerCall(kind, a, c.req.messages)) :
                      server' = {s}
  /\ UNCHANGED <<deployment, configs, counts_, served, destination, traceVars>>

-----------------------------------------------------------------------------
Live == server # {} /\ ~S.finished /\ ~S.reading
ServerStep(s) == server' = {s} /\ UNCHANGED vars

(* Read, which the flow calls for the next message; and the read event.      *)
Read ==
  /\ Live /\ ~S.pending /\ S.end = "open"
  /\ ServerStep([S EXCEPT !.pending = TRUE, !.reading = TRUE, !.try = TRUE])
OnDownstreamReadable ==
  /\ Live /\ S.pending
  /\ ServerStep([S EXCEPT !.reading = TRUE, !.try = TRUE])

(* CompletePendingRead: with the last message of a body that has ended goes  *)
(* the end of the stream.                                                    *)
CompletePendingRead(s, end) ==
  [s EXCEPT !.pending = FALSE, !.reading = FALSE,
            !.end = IF end = "open" /\ ~s.reading_body /\ s.slices = <<>> THEN "done" ELSE end]

(* The message is taken, decompressed if need be, which may fail.            *)
Deliver(s, x) ==
  LET Got(bytes) == CompletePendingRead([s EXCEPT !.read = Append(@, bytes), !.slices = x.rest], "open")
  IN  IF x.compressed_flag # 1 THEN {Got(x.message)}
      ELSE {Got(Decompress(x.message)), CompletePendingRead(s, "error")}

(* ngx_http_read_unbuffered_request_body: an error, nothing, more data, or   *)
(* the end of the stream, with or without data and an empty last buffer.     *)
ReadUnbuffered(s) ==
  LET Last0 == [file |-> FALSE, data |-> <<>>]
  IN  {CompletePendingRead(s, "error"), [s EXCEPT !.try = FALSE]}
      \union {[Arrive(s, k, <<Memory(s, k)>>, TRUE) EXCEPT !.try = TRUE] : k \in Sizes(s) \ {0}}
      \union {[Arrive(s, k, <<Memory(s, k)>> \o last, FALSE) EXCEPT !.try = k > 0] :
                k \in Sizes(s) \union {0}, last \in {<<>>, <<Last0>>}}

(* One turn of the loop of RunPendingRead.                                   *)
RunPendingRead ==
  /\ server # {} /\ S.reading
  /\ \E s \in ConvertRequestBody(S) :
       \/ s.finished /\ ServerStep(s)
       \/ /\ ~s.finished
          /\ \E x \in TryReadMessage(s.slices) : \E t \in Deliver(s, x) : ServerStep(t)
       \/ /\ ~s.finished /\ TryReadMessage(s.slices) = {}
          /\ \/ ~s.reading_body /\ ServerStep(CompletePendingRead(s, "half"))
             \/ s.reading_body /\ ~s.try /\ ServerStep([s EXCEPT !.reading = FALSE])
             \/ s.reading_body /\ s.try /\ \E t \in ReadUnbuffered(s) : ServerStep(t)

-----------------------------------------------------------------------------
(* WriteDownstreamHeaders; transcoded calls delay them until there is a      *)
(* message or the end (SendInitialMetadata).                                 *)
WithHeader(s) == [s EXCEPT !.header = IF @ = {} THEN {200} ELSE @]
SendInitialMetadata ==
  /\ Live /\ S.kind # "transcoded" /\ S.header = {}
  /\ ServerStep(WithHeader(S))

(* ReadTranslatedResponse: one buffer of what the transcoder makes of the    *)
(* response stream, empty if it has nothing.                                 *)
ReadTranslatedResponse(s) ==
  LET next == NextMessage(s.response)
  IN  IF next = {} THEN {s}
      ELSE {[s EXCEPT !.response = n.stream, !.out = Append(@, n.data)] : n \in next}

(* Write: ConvertResponseMessage of the two kinds.  The transcoder may       *)
(* refuse a message.                                                         *)
Write(message) ==
  /\ Live /\ Len(S.replied) < MaxReplies
  /\ LET s == [WithHeader(S) EXCEPT !.replied = Append(@, FlattenSeq(message))]
     IN  IF s.kind # "transcoded"
         THEN ServerStep([s EXCEPT !.out = Append(@, Frame(0, FlattenSeq(message)))])
         ELSE LET added == [s EXCEPT !.response.serializer = AddMessage(@, message)]
              IN  \E t \in ReadTranslatedResponse(added) \union {HandleError(added, INTERNAL)} : ServerStep(t)

(* GrpcWebFinish: they are lines in a frame of the body, whose length is     *)
(* summed up as the lines are written.  A line takes its name, its value, a  *)
(* colon, a space and the two bytes of the line's end.                       *)
Digits10(n) == IF n < 10 THEN 1 ELSE 2
StatusSize == 11
MessageSize == 12
LineSize(name, value) == name + value + 4
GrpcWebFinish(s, e) ==
  LET code == CanonicalCode(e.code)
      status == [line |-> "grpc-status", size |-> LineSize(StatusSize, Digits10(code))]
      message == [line |-> "grpc-message", size |-> LineSize(MessageSize, e.message)]
      custom == [i \in DOMAIN e.trailers |->
                   [line |-> e.trailers[i].name,
                    size |-> LineSize(e.trailers[i].name_size, e.trailers[i].value_size)]]
      length == status.size + (IF e.message > 0 THEN message.size ELSE 0)
                + Total([i \in DOMAIN custom |-> custom[i].size])
  IN  [s EXCEPT !.out = Append(@, NewFrame(ByteValues \div 2, length)),
                !.trailers = <<status>> \o (IF e.message > 0 THEN <<message>> ELSE <<>>) \o custom]

(* Finish of the three kinds.  A transcoder that has taken every message has *)
(* nothing left to refuse at the end.                                        *)
Finish(e) ==
  /\ Live
  /\ LET ended == [WithHeader(S) EXCEPT !.finished = TRUE, !.backend_status = e.code]
     IN  CASE S.kind = "grpc" -> ServerStep(GrpcFinish(ended, e))
           [] S.kind = "grpc-web" -> ServerStep(GrpcWebFinish(ended, e))
           [] OTHER ->
                IF ~IsOk(e.code) THEN ServerStep(HandleError([S EXCEPT !.backend_status = e.code], e.code))
                ELSE \E t \in ReadTranslatedResponse([ended EXCEPT !.response.finished = TRUE]) : ServerStep(t)

BackendInit == Init /\ server = {}

(* The request may end at any time, and takes the server call with it.       *)
BackendNext ==
  \/ /\ \/ AddAndDeployConfigs \/ AggregatorTimer \/ Close \/ Tick
        \/ \E c \in call : CheckPassed(c)
        \/ \E req \in Requests(deployment) : CreateRequestHandler(req)
        \/ \E uri \in Uris : RewriteUri(uri)
     /\ UNCHANGED server
  \/ \E c \in call : Report(c) /\ server' = IF c.stage = "content" THEN {} ELSE server
  \/ \E c \in call : GrpcBackendHandler(c)
  \/ Read \/ OnDownstreamReadable \/ RunPendingRead
  \/ SendInitialMetadata
  \/ \E message \in Replies : Write(message)
  \/ \E e \in Ends : Finish(e)
BackendSpec == BackendInit /\ [][BackendNext]_backendVars

-----------------------------------------------------------------------------
(* The messages that are complete in what has arrived of a body.             *)
Complete(s) ==
  CHOOSE k \in 0..Len(s.messages) :
    LET Bytes(n) == LET m == SubSeq(s.messages, 1, n)
                    IN  Len(IF s.kind = "transcoded" THEN JsonBody(m) ELSE GrpcBody(m))
    IN  Bytes(k) <= Len(s.arrived) /\ (k < Len(s.messages) => Bytes(k + 1) > Len(s.arrived))

(* However the client's bytes are cut into buffers, the backend gets the     *)
(* client's messages, whole and in order; a read that waits, or a stream     *)
(* that is closed, has left no complete message behind; the end goes with    *)
(* the last message only if the body ends with it.  A body that ends within  *)
(* a message is refused by the transcoder, and by the other calls taken for  *)
(* one that ends before that message.  All this unless the body was in a     *)
(* file of which a read failed or fell short, unnoticed by                   *)
(* GrpcSliceFromNginxBuffer; a transcoded call never goes on after that.     *)
RequestFramed ==
  \A s \in server :
    LET all == [i \in DOMAIN s.messages |-> s.messages[i].payload]
        whole == Len(s.arrived) = Len(IF s.kind = "transcoded" THEN JsonBody(SubSeq(s.messages, 1, Complete(s)))
                                      ELSE GrpcBody(SubSeq(s.messages, 1, Complete(s))))
    IN  IF s.garbled THEN s.kind # "transcoded"
        ELSE /\ s.read = SubSeq(all, 1, Len(s.read))
             /\ (s.pending /\ ~s.reading) \/ s.end \in {"done", "half"} => Len(s.read) = Complete(s)
             /\ s.end = "done" => ~s.reading_body /\ whole
             /\ s.end = "half" => ~s.reading_body /\ (s.kind = "transcoded" => whole)

(* The response so far, of each kind of call.                                *)
Answered(s) ==
  LET frames == [i \in DOMAIN s.replied |-> Frame(0, s.replied[i])]
      failed == s.finished /\ ~IsOk(s.status)
  IN  /\ s.kind = "grpc" => s.out = frames
      /\ s.kind = "grpc-web" =>
           IF ~s.finished THEN s.out = frames
           ELSE s.out = Append(frames, NewFrame(ByteValues \div 2,
                          Total([i \in DOMAIN s.trailers |-> s.trailers[i].size])))
      /\ s.kind = "transcoded" =>
           /\ ~failed => s.out = s.replied /\ BytesAvailable(s.response) = 0
           /\ failed => IsPrefix(s.out, s.replied)
           /\ failed /\ s.replied = <<>> => s.header = {HttpCode(s.status)}

(* What the client gets are the backend's messages in order, framed anew or  *)
(* one document each, with nothing left behind; a transcoded call that fails *)
(* before its first message fails with the HTTP status of the error, and a   *)
(* gRPC-Web trailer frame is as long as the lines in it.                     *)
ResponseFramed == \A s \in server : Answered(s)

(* What makes it so: between two responses of a transcoded call the stream   *)
(* is used up, but for empty slices behind the last message.                 *)
Fields == DOMAIN NewServerCall("none", <<>>, <<>>)
UsedUp(z) ==
  \/ z = Serializer
  \/ \E m \in Replies : \E i \in 0..Len(m) :
       z = SerializerState(<<m>>, TRUE, i, 0) /\ \A j \in (i + 1)..Len(m) : m[j] = <<>>
Drained(g) ==
  /\ g = StreamState(g.serializer, g.current_buffer, Len(g.current_buffer), g.bytes_read, g.finished)
  /\ g.current_buffer \in Seq(Byte) /\ g.bytes_read \in Nat /\ UsedUp(g.serializer)
Responding(s) ==
  /\ DOMAIN s = Fields
  /\ s.reading => ~s.finished
  /\ s.replied \in Seq(Seq(Byte))
  /\ s.kind = "transcoded" /\ ~s.finished =>
       s.status = OK /\ s.out = s.replied /\ Drained(s.response) /\ (s.replied = <<>> => s.header = {})
ResponseInvariant ==
  /\ \A s, t \in server : s = t
  /\ \A s \in server : Responding(s)
  /\ ResponseFramed

(* NgxEspResponse::GetResponseStatus, whose result the report carries:       *)
(* "Grpc backend status is also in ctx->status."                             *)
BackendStatusKept ==
  \A s \in server : ~IsOk(s.backend_status) => s.status = s.backend_status
=============================================================================
