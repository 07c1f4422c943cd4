----------------------------- MODULE HttpClient -----------------------------
(* The HTTP client that ESP builds from nginx's upstream module              *)
(* (src/nginx/http.cc): one request of a caller, the attempts made for it,   *)
(* the parsing of the answer, retries, and the pools of every attempt, which *)
(* a posted event destroys once no frame of nginx uses them any more.        *)
EXTENDS Integers, Sequences

CONSTANTS MaxRetries,   \* largest max_retries() of a request
          Status,       \* status codes a server answers with
          MaxBody       \* bound: pieces of a response body

ASSUME ClientAssumption ==
  MaxRetries \in Nat /\ MaxBody \in Nat /\ Status \subseteq 100..599

NGX_ERROR == -1
NoCode == 0            \* ngx_http_status_t::code of a zeroed structure
Attempt == 1..(MaxRetries + 1)
Pool == {"esp", "connection", "request"}

VARIABLES
  max_retries,   \* HTTPRequest::max_retries_, the budget that is left
  url_ok,        \* the URL has a known scheme and parses
  sent,          \* the caller has called ngx_esp_send_http_request
  answers,       \* arguments of the calls of HTTPRequest::OnComplete
  esp_request,   \* per attempt: http_connection->esp_request is set
  stage,         \* per attempt: where the upstream module is
  line,          \* per attempt: how far earlier calls have read the status line
  server,        \* the status code the server answers with
  code,          \* per attempt: response_status.code
  body,          \* per attempt: pieces in response_body
  frames,        \* call stack: attempts whose finalize handler is active
  posted,        \* attempts whose wakeup event is posted
  created,       \* per attempt: pools that allocate_pools has made
  destroyed,     \* per attempt and pool: number of ngx_destroy_pool calls
  refused        \* history: a request could not be created or set up

attempts == <<url_ok, esp_request, stage, line, server, code, body, created>>
vars == <<max_retries, url_ok, sent, answers, esp_request, stage, line, server, code,
          body, frames, posted, created, destroyed, refused>>

Init ==
  /\ max_retries \in 0..MaxRetries
  /\ url_ok \in BOOLEAN
  /\ sent = FALSE
  /\ answers = <<>>
  /\ esp_request = [a \in Attempt |-> FALSE]
  /\ stage = [a \in Attempt |-> "none"]
  /\ line = [a \in Attempt |-> "start"]
  /\ server \in Status
  /\ code = [a \in Attempt |-> NoCode]
  /\ body = [a \in Attempt |-> 0]
  /\ frames = <<>>
  /\ posted = {}
  /\ created = [a \in Attempt |-> {}]
  /\ destroyed = [a \in Attempt |-> [p \in Pool |-> 0]]
  /\ refused = FALSE

(* Outcomes of the phases of ngx_esp_create_http_request.  allocate_pools    *)
(* makes the pools one after the other; the request and the structures that  *)
(* hang on it take memory from them; the upstream structures also need a URL *)
(* that can be parsed.                                                       *)
allocate_pools == {{}, {"esp"}, {"esp", "connection"}, Pool}
allocate_ngx_http_request == BOOLEAN
initialize_request == BOOLEAN
ngx_esp_upstream_set_url == {ok \in BOOLEAN : ok => url_ok}
initialize_upstream_request == {FALSE} \union ngx_esp_upstream_set_url

ngx_esp_create_http_request ==
  {[pools |-> pools, ok |-> pools = Pool /\ request /\ initialized /\ upstream] :
     pools \in allocate_pools, request \in allocate_ngx_http_request,
     initialized \in initialize_request, upstream \in initialize_upstream_request}

(* Attempt a is created and ngx_http_upstream_init is called.  When a phase  *)
(* fails, the unique_ptr's release the pools made so far and the caller is   *)
(* answered, whatever its budget of retries.                                 *)
SendRequest(a, requests, stages) ==
  \E new \in ngx_esp_create_http_request :
    /\ created' = [created EXCEPT ![a] = new.pools]
    /\ IF new.ok
       THEN /\ esp_request' = [requests EXCEPT ![a] = TRUE]
            /\ stage' = [stages EXCEPT ![a] = "connecting"]
            /\ UNCHANGED <<answers, refused, destroyed>>
       ELSE /\ answers' = Append(answers, NGX_ERROR)
            /\ refused' = TRUE
            /\ destroyed' = [destroyed EXCEPT ![a] =
                               [p \in Pool |-> IF p \in new.pools THEN 1 ELSE 0]]
            /\ esp_request' = requests
            /\ stage' = stages

ngx_esp_send_http_request ==
  /\ ~sent
  /\ sent' = TRUE
  /\ SendRequest(1, esp_request, stage)
  /\ UNCHANGED <<max_retries, url_ok, line, server, code, body, frames, posted>>

(* The event loop calls into nginx only when no handler is on the stack.     *)
Idle == frames = <<>>

Active(a) == stage[a] \in {"connecting", "status", "header", "body"}

Goto(a, s) == stage' = [stage EXCEPT ![a] = s]

(* ngx_esp_upstream_create_request writes the request line, the headers and  *)
(* the body, and nginx sends them.                                           *)
CreateRequest(a) ==
  /\ Idle /\ stage[a] = "connecting"
  /\ Goto(a, "status")
  /\ UNCHANGED <<max_retries, url_ok, sent, answers, esp_request, line, server, code, body,
                 frames, posted, created, destroyed, refused>>

(* It returns NGX_ERROR when a buffer cannot be allocated.  nginx calls it   *)
(* before it registers its own clean-up, so the finalize handler is not      *)
(* called for this attempt.                                                  *)
CreateRequestFails(a) ==
  /\ stage[a] = "connecting"
  /\ Goto(a, "abandoned")
  /\ refused' = TRUE
  /\ UNCHANGED <<max_retries, url_ok, sent, answers, esp_request, line, server, code, body,
                 frames, posted, created, destroyed>>

(* One call of ngx_esp_upstream_process_status_line.  The structure the code *)
(* is parsed into is local and zeroed by every call, while the position of   *)
(* the parser is kept in the request: what an earlier call read of the code  *)
(* is lost (ngx_http_parse_status_line counts three digits in one call).     *)
StatusLineAgain(a) ==
  /\ Idle /\ stage[a] = "status" /\ line[a] = "start"
  /\ \E l \in {"digits", "code"} : line' = [line EXCEPT ![a] = l]
  /\ UNCHANGED <<max_retries, url_ok, sent, answers, esp_request, stage, server, code, body,
                 frames, posted, created, destroyed, refused>>

StatusLineDone(a) ==
  /\ Idle /\ stage[a] = "status" /\ line[a] # "digits"
  /\ code' = [code EXCEPT ![a] = IF line[a] = "start" THEN server ELSE NoCode]
  /\ Goto(a, "header")
  /\ UNCHANGED <<max_retries, url_ok, sent, answers, esp_request, line, server, body,
                 frames, posted, created, destroyed, refused>>

(* The line does not parse: NGX_OK, so nginx takes what follows for a body.  *)
StatusLineError(a) ==
  /\ Idle /\ stage[a] = "status"
  /\ Goto(a, "body")
  /\ UNCHANGED <<max_retries, url_ok, sent, answers, esp_request, line, server, code, body,
                 frames, posted, created, destroyed, refused>>

(* The end of the headers (NGX_HTTP_PARSE_HEADER_DONE).                      *)
ngx_esp_upstream_process_header(a) ==
  /\ Idle /\ stage[a] = "header"
  /\ Goto(a, "body")
  /\ UNCHANGED <<max_retries, url_ok, sent, answers, esp_request, line, server, code, body,
                 frames, posted, created, destroyed, refused>>

(* The filters append what nginx has read to response_body.                  *)
ngx_esp_upstream_pipe_input_filter(a) ==
  /\ Idle /\ stage[a] = "body" /\ body[a] < MaxBody
  /\ body' = [body EXCEPT ![a] = @ + 1]
  /\ UNCHANGED <<max_retries, url_ok, sent, answers, esp_request, stage, line, server, code,
                 frames, posted, created, destroyed, refused>>

(* The arguments of the finalize handler, as nginx ends an attempt: NGX_OK   *)
(* when the server closes the connection after its header, an error when the *)
(* connection fails, the header is invalid or a timer expires.  A connection *)
(* may be refused inside ngx_http_upstream_init, on the stack of the attempt *)
(* before.                                                                   *)
EndsWith(a, ok) ==
  /\ Active(a)
  /\ IF ok THEN Idle /\ stage[a] = "body"
     ELSE Idle \/ (stage[a] = "connecting" /\ frames # <<>> /\ Head(frames) = a - 1)

Result(a, ok) == IF ok THEN code[a] ELSE NGX_ERROR

Enter(a) == frames' = <<a>> \o frames

Finalized(a) == [stage EXCEPT ![a] = "finalized"]

(* What the handler does with the request it has taken out of the            *)
(* connection: the next attempt, made before the handler of this one         *)
(* returns, or the answer.                                                   *)
Retry(a, requests) ==
  /\ max_retries' = max_retries - 1
  /\ SendRequest(a + 1, requests, Finalized(a))
OnComplete(a, rc, requests) ==
  /\ answers' = Append(answers, rc)
  /\ esp_request' = requests
  /\ stage' = Finalized(a)
  /\ UNCHANGED <<max_retries, refused, created, destroyed>>

RetryBudget(rc) == rc = NGX_ERROR /\ max_retries > 0

(* Faulty variant: the request is left in the connection.                    *)
Kept(a) == esp_request

(* request.swap(http_connection->esp_request)                                *)
Swapped(a) == [esp_request EXCEPT ![a] = FALSE]

(* ngx_esp_upstream_finalize_request up to the wake-up event.  A second call *)
(* finds no request and only posts the event again.                          *)
ngx_esp_upstream_finalize_request(a, ok) ==
  /\ \/ EndsWith(a, ok)
     \/ ~ok /\ Idle /\ a \in posted /\ destroyed[a] = [p \in Pool |-> 0]
  /\ Enter(a)
  /\ IF ~esp_request[a]
     THEN UNCHANGED <<max_retries, answers, esp_request, stage, refused, created,
                      destroyed>>
     ELSE IF RetryBudget(Result(a, ok)) THEN Retry(a, Swapped(a))
     ELSE OnComplete(a, Result(a, ok), Swapped(a))
  /\ UNCHANGED <<url_ok, sent, line, server, code, body, posted>>

(* Faulty variants: the handler destroys the pools itself; it does not post  *)
(* the event when the request has been answered.                             *)
PostWakeupOnRetry ==
  /\ ~Idle /\ Head(frames) \notin posted
  /\ \E a \in Attempt : esp_request[a]
  /\ posted' = posted \union {Head(frames)}
  /\ UNCHANGED <<max_retries, sent, answers, frames, destroyed, refused, attempts>>

(* The end of the handler: ngx_post_event, which leaves an event that is     *)
(* already posted alone.                                                     *)
PostWakeup ==
  /\ ~Idle /\ Head(frames) \notin posted
  /\ posted' = posted \union {Head(frames)}
  /\ UNCHANGED <<max_retries, sent, answers, frames, destroyed, refused, attempts>>

(* nginx goes on with the request it finalizes and returns.  It may destroy  *)
(* the pools of the request and of the connection on the way; NgxPoolReset   *)
(* then clears the pointer that the wake-up handler would use.               *)
Return ==
  /\ ~Idle /\ Head(frames) \in posted
  /\ frames' = Tail(frames)
  /\ \E freed \in SUBSET {"connection", "request"} :
       /\ \A p \in freed : destroyed[Head(frames)][p] = 0
       /\ Head(frames) \notin {Tail(frames)[i] : i \in 1..Len(Tail(frames))}
       /\ destroyed' = [destroyed EXCEPT ![Head(frames)] =
                          [p \in Pool |-> IF p \in freed THEN 1 ELSE @[p]]]
  /\ UNCHANGED <<max_retries, sent, answers, posted, refused, attempts>>

(* Faulty variant: the pointers are not cleared by NgxPoolReset.             *)
DestroyAll(a) == [p \in Pool |-> destroyed[a][p] + 1]

(* The pools wakeup_event_handler destroys: the ones still set.              *)
DestroyRest(a) ==
  [p \in Pool |-> IF p = "esp" \/ destroyed[a][p] = 0 THEN destroyed[a][p] + 1
                  ELSE destroyed[a][p]]

wakeup_event_handler(a) ==
  /\ Idle /\ a \in posted
  /\ posted' = posted \ {a}
  /\ destroyed' = [destroyed EXCEPT ![a] = DestroyRest(a)]
  /\ stage' = [stage EXCEPT ![a] = "gone"]
  /\ line' = [line EXCEPT ![a] = "start"]      \* the connection is no more
  /\ code' = [code EXCEPT ![a] = NoCode]
  /\ body' = [body EXCEPT ![a] = 0]
  /\ UNCHANGED <<max_retries, url_ok, sent, answers, esp_request, server, frames,
                 created, refused>>

Upstream(a) ==
  \/ CreateRequest(a) \/ CreateRequestFails(a)
  \/ StatusLineAgain(a) \/ StatusLineDone(a) \/ StatusLineError(a)
  \/ ngx_esp_upstream_process_header(a)
  \/ ngx_esp_upstream_pipe_input_filter(a)

Next ==
  \/ ngx_esp_send_http_request
  \/ \E a \in Attempt :
       \/ Upstream(a)
       \/ \E ok \in BOOLEAN : ngx_esp_upstream_finalize_request(a, ok)
       \/ wakeup_event_handler(a)
  \/ PostWakeup \/ Return

Spec == Init /\ [][Next]_vars

-----------------------------------------------------------------------------
(* An attempt ends, if by a timer: ESP always sets one.  Handlers return and *)
(* posted events are run in every turn of the event loop.                    *)
Ends(a) == Active(a) /\ \E ok \in BOOLEAN : ngx_esp_upstream_finalize_request(a, ok)
Fairness ==
  /\ WF_vars(PostWakeup) /\ WF_vars(Return)
  /\ \A a \in Attempt : WF_vars(Ends(a)) /\ SF_vars(wakeup_event_handler(a))
FairSpec == Spec /\ Fairness

TypeOK ==
  /\ max_retries \in 0..MaxRetries
  /\ url_ok \in BOOLEAN /\ sent \in BOOLEAN /\ refused \in BOOLEAN
  /\ answers \in Seq(Status \union {NoCode, NGX_ERROR})
  /\ esp_request \in [Attempt -> BOOLEAN]
  /\ stage \in [Attempt -> {"none", "connecting", "status", "header", "body",
                            "abandoned", "finalized", "gone"}]
  /\ line \in [Attempt -> {"start", "digits", "code"}]
  /\ server \in Status
  /\ code \in [Attempt -> Status \union {NoCode}]
  /\ body \in [Attempt -> 0..MaxBody]
  /\ frames \in Seq(Attempt)
  /\ posted \subseteq Attempt
  /\ created \in [Attempt -> SUBSET Pool]
  /\ destroyed \in [Attempt -> [Pool -> Nat]]

(* The client keeps the promise of the interface: over all attempts, second  *)
(* calls of the finalize handler and failures on the stack of another        *)
(* attempt, the continuation is called at most once and with a code.         *)
Exchange == INSTANCE HttpExchange WITH Answer <- Status \union {NoCode, NGX_ERROR}
OneAnswer == Exchange!Spec

(* No handler returns into pools that are already destroyed, and no pool is  *)
(* destroyed twice, although nginx and the wake-up event both destroy them   *)
(* and handlers of successive attempts are nested.                           *)
PoolsOutliveHandlers ==
  /\ \A i \in 1..Len(frames) : destroyed[frames[i]] = [p \in Pool |-> 0]
  /\ \A a \in Attempt, p \in Pool : destroyed[a][p] <= 1

(* Why that is so: only the newest attempt can hold the caller's request,    *)
(* which then is not answered; the attempts after it are untouched.          *)
Untouched(a) == /\ stage[a] = "none" /\ ~esp_request[a]
                /\ destroyed[a] = [p \in Pool |-> 0]
Holding(a) == Active(a) \/ stage[a] = "abandoned"
RequestInvariant ==
  /\ ~sent => answers = <<>> /\ \A a \in Attempt : Untouched(a)
  /\ \A a \in Attempt : esp_request[a] =>
       /\ sent /\ answers = <<>>
       /\ Holding(a)
       /\ a + max_retries <= MaxRetries + 1
       /\ \A b \in Attempt : b > a => Untouched(b)
  /\ \A a \in Attempt :
       Holding(a) => esp_request[a] /\ destroyed[a] = [p \in Pool |-> 0]

(* A handler that is active, or whose wake-up is posted, is one of an        *)
(* attempt that has given the request up and still has the esp pool.         *)
PoolInvariant ==
  /\ \A i \in 1..Len(frames) : stage[frames[i]] = "finalized"
  /\ \A a \in posted : stage[a] = "finalized" /\ destroyed[a]["esp"] = 0

ClientInvariant ==
  TypeOK /\ RequestInvariant /\ PoolInvariant /\ PoolsOutliveHandlers

(* A request that was sent is answered, unless nginx had to give it up for   *)
(* want of memory, and every pool made for one of its attempts is destroyed, *)
(* the pools of an attempt that could not be set up included.                *)
AnsweredAndReclaimed ==
  /\ sent ~> (answers # <<>> \/ refused)
  /\ \A a \in Attempt :
       (created[a] # {}) ~> \/ stage[a] = "abandoned"
                            \/ \A p \in created[a] : destroyed[a][p] = 1

(* "Store the parsed response status for later (it will be passed to the     *)
(* continuation as a status)": an answer that is not an error is the status  *)
(* of the server.                                                            *)
AnswerIsServersStatus ==
  \A i \in 1..Len(answers) :
    answers[i] \in {NGX_ERROR, server}
=============================================================================
