--------------------------- MODULE RequestLifecycle ---------------------------
(* One client request through ESP's nginx module (src/nginx/module.cc): the  *)
(* access phase starts the check workflow (src/api_manager/check_workflow.cc,*)
(* request_handler.cc) and resumes when it answers, the log phase reports.   *)
(* A worker is single-threaded, but a handler of the workflow may wait for a *)
(* remote call; meanwhile the connection has write events, nginx may close   *)
(* the request, and the worker may close service control on its way out.     *)
EXTENDS Naturals, Sequences, FiniteSets

CONSTANTS
  MaxWriteEvents,   \* bound: write events while the request waits
  MaxMessages,      \* bound: messages of a streaming call
  MaxTests          \* bound: calls AuthzChecker makes for one ruleset

ASSUME BoundAssumption ==
  MaxWriteEvents \in Nat /\ MaxMessages \in Nat /\ MaxTests \in Nat

VARIABLES
  conf,           \* what the service config and the request say, see Conf
  phase,          \* where nginx is with the request; "gone" when it is freed
  handler_set,    \* ctx->current_access_handler is not null
  status,         \* ctx->status
  linked,         \* ctx->wakeup_context still refers to the request
  wakeup,         \* ctx->wakeup_event is posted
  continuation,   \* check_continuation_ is set
  frame,          \* what the worker is in: the access handler, the callback
                  \*   of a remote call, or (for this request) nothing
  index,          \* RunOneHandler's index + 1; 0 when no check is under way
  result,         \* the status CompleteCheck is called with
  call,           \* the remote call a handler waits for
  tests,          \* ruleset calls made
  verdict,        \* what each check found
  client,         \* Aggregated::client_ is not null
  first_report,   \* is_first_report_
  reports,        \* the reports handed to client_
  stale,          \* history: what used the request after it was freed
  crashed,        \* the worker died
  writes,         \* write events so far
  messages        \* messages of the streaming call so far

requestVars == <<phase, handler_set, status, linked, wakeup>>
checkVars   == <<continuation, frame, index, result, call, tests, verdict>>
reportVars  == <<client, first_report, reports>>
boundVars   == <<writes, messages>>
vars == <<conf, requestVars, checkVars, reportVars, stale, crashed, boundVars>>

(* method: the path matched a method of the service config.  An API key is   *)
(* looked for only if the method does not allow unregistered calls.  auth    *)
(* and rules include RequireAuth and IsRulesCheckEnabled, control is         *)
(* service_control() != nullptr.                                             *)
Conf ==
  {c \in [method : BOOLEAN, auth : BOOLEAN, rules : BOOLEAN, control : BOOLEAN,
          skip_service_control : BOOLEAN, costs : BOOLEAN,
          allow_unregistered_calls : BOOLEAN, api_key : BOOLEAN,
          network_fail_open : BOOLEAN] :
     /\ ~c.method => ~(\/ c.auth \/ c.skip_service_control \/ c.costs
                       \/ c.allow_unregistered_calls \/ c.api_key)
     /\ c.rules => c.auth
     /\ c.allow_unregistered_calls => ~c.api_key
     /\ c.network_fail_open => c.control}

Check == {"auth", "rules", "check", "quota"}

Init ==
  /\ conf \in Conf
  /\ phase = "new" /\ handler_set = FALSE /\ status = "OK" /\ linked = FALSE
  /\ wakeup = FALSE
  /\ continuation = FALSE /\ frame = "none" /\ index = 0 /\ result = "OK"
  /\ call = "none" /\ tests = 0 /\ verdict = [c \in Check |-> "none"]
  /\ client = TRUE /\ first_report = TRUE /\ reports = <<>>
  /\ stale = {} /\ crashed = FALSE
  /\ writes = 0 /\ messages = 0

-------------------------------------------------------------------------------
(* The check workflow                                                        *)

RegisterAll ==
  <<"account_token", "identity_token", "auth", "rules", "check", "quota">>

Runs(h) ==
  /\ frame # "none" /\ call = "none"
  /\ index \in 1 .. Len(RegisterAll) /\ RegisterAll[index] = h

(* The continuation RunOneHandler gives a handler.                           *)
RunOneHandler(st) ==
  /\ call' = "none"
  /\ IF st = "OK" /\ index < Len(RegisterAll)
     THEN index' = index + 1 /\ UNCHANGED result
     ELSE index' = Len(RegisterAll) + 1 /\ result' = st

(* The worker returns from the callback of a call; the access handler has    *)
(* more to do (CheckReturns).                                                *)
Unwind == IF frame = "answer" THEN "none" ELSE frame

Wait(c) == call' = c /\ frame' = Unwind /\ UNCHANGED <<index, result>>

Touch(who) == stale' = IF phase = "gone" THEN stale \cup {who} ELSE stale

(* A handler that has found v calls its continuation with st.                *)
Answer(c, v, st) ==
  /\ verdict' = [verdict EXCEPT ![c] = v]
  /\ RunOneHandler(st)

(* A service that is not configured is used through a null pointer.          *)
Crash ==
  /\ crashed' = TRUE /\ phase' = "gone" /\ linked' = FALSE /\ wakeup' = FALSE
  /\ frame' = "none" /\ index' = 0 /\ call' = "none"

FetchServiceAccountToken ==
  /\ Runs("account_token")
  /\ \/ \E st \in {"OK", "ERROR"} : RunOneHandler(st) /\ UNCHANGED frame
     \/ Wait("account_token")
  /\ UNCHANGED <<conf, requestVars, continuation, tests, verdict, reportVars,
                 stale, crashed, boundVars>>

FetchInstanceIdentityToken ==
  /\ Runs("identity_token")
  /\ \/ RunOneHandler("OK") /\ UNCHANGED frame
     \/ conf.method /\ RunOneHandler("ERROR") /\ UNCHANGED frame
     \/ conf.method /\ Wait("identity_token")
  /\ UNCHANGED <<conf, requestVars, continuation, tests, verdict, reportVars,
                 stale, crashed, boundVars>>

(* The fetch of a token ends; TokenFetch has the details.                    *)
TokenFetched ==
  /\ frame = "none" /\ call \in {"account_token", "identity_token"}
  /\ frame' = "answer"
  /\ \E st \in {"OK", "ERROR"} : RunOneHandler(st)
  /\ UNCHANGED <<conf, requestVars, continuation, tests, verdict, reportVars,
                 stale, crashed, boundVars>>

(* AuthChecker::Check: the token is missing or wrong, or known to the JWT    *)
(* cache, or its issuer's key is in the key cache, or the key (and perhaps   *)
(* its URI) has to be fetched.                                               *)
CheckAuth ==
  /\ Runs("auth")
  /\ \/ ~conf.auth /\ RunOneHandler("OK") /\ UNCHANGED <<frame, verdict, stale>>
     \/ /\ conf.auth /\ Touch("auth")
        /\ \/ Answer("auth", "ok", "OK") /\ UNCHANGED frame
           \/ Answer("auth", "denied", "ERROR") /\ UNCHANGED frame
           \/ \E c \in {"jwks_uri", "pub_key"} : Wait(c) /\ UNCHANGED verdict
  /\ UNCHANGED <<conf, requestVars, continuation, tests, reportVars, crashed,
                 boundVars>>

PostFetchJwksUri ==
  /\ frame = "none" /\ call = "jwks_uri"
  /\ \/ /\ call' = "pub_key"
        /\ UNCHANGED <<frame, index, result, verdict>>
     \/ frame' = "answer" /\ Answer("auth", "denied", "ERROR")
  /\ UNCHANGED <<conf, requestVars, continuation, tests, reportVars, stale,
                 crashed, boundVars>>

(* PostFetchPubKey, VerifySignature and PassUserInfoOnSuccess, which adds a  *)
(* header to the request (its return without an answer is taken only if      *)
(* grpc_json_dump_to_string fails, which it does not for strings).           *)
PostFetchPubKey ==
  /\ frame = "none" /\ call = "pub_key" /\ frame' = "answer"
  /\ \/ Touch("auth") /\ Answer("auth", "ok", "OK")
     \/ UNCHANGED stale /\ Answer("auth", "denied", "ERROR")
  /\ UNCHANGED <<conf, requestVars, continuation, tests, reportVars, crashed,
                 boundVars>>

(* AuthzChecker::Check: the answer is in the cache, or the release of the    *)
(* rules has to be fetched.                                                  *)
CheckSecurityRules ==
  /\ Runs("rules")
  /\ \/ ~conf.rules /\ RunOneHandler("OK") /\ UNCHANGED <<frame, verdict, stale>>
     \/ /\ conf.rules /\ Touch("rules")
        /\ \/ Answer("rules", "ok", "OK") /\ UNCHANGED frame
           \/ Answer("rules", "denied", "ERROR") /\ UNCHANGED frame
           \/ Wait("release") /\ UNCHANGED verdict
  /\ UNCHANGED <<conf, requestVars, continuation, tests, reportVars, crashed,
                 boundVars>>

(* The release is known: the ruleset is tested on the request.               *)
ReleaseFetched ==
  /\ frame = "none" /\ call = "release"
  /\ \/ /\ call' = "ruleset" /\ tests' = 1 /\ Touch("rules")
        /\ UNCHANGED <<frame, index, result, verdict>>
     \/ /\ frame' = "answer" /\ Answer("rules", "denied", "ERROR")
        /\ UNCHANGED <<tests, stale>>
  /\ UNCHANGED <<conf, requestVars, continuation, reportVars, crashed, boundVars>>

(* CallNextRequest: a test may ask for the result of another call; the final *)
(* answer is put into the cache, under the path of the request.              *)
RulesetTested ==
  /\ frame = "none" /\ call = "ruleset"
  /\ \/ /\ tests < MaxTests /\ tests' = tests + 1
        /\ UNCHANGED <<frame, index, result, call, verdict, stale>>
     \/ /\ frame' = "answer" /\ UNCHANGED tests
        /\ \/ Answer("rules", "ok", "OK") /\ Touch("rules")
           \/ Answer("rules", "denied", "ERROR") /\ Touch("rules")
           \/ Answer("rules", "unavailable", "ERROR") /\ UNCHANGED stale
  /\ UNCHANGED <<conf, requestVars, continuation, reportVars, crashed, boundVars>>

(* Aggregated::Check: a server error is no error with network_fail_open.     *)
CheckStatus(v) ==
  IF v = "ok" \/ (v = "unavailable" /\ conf.network_fail_open)
  THEN "OK" ELSE "ERROR"

(* The check is cached or sent to the service control server.                *)
CheckServiceControl ==
  /\ Runs("check")
  /\ \/ /\ \/ ~conf.method /\ RunOneHandler("ERROR")
           \/ /\ conf.method
              /\ \/ ~conf.control \/ conf.skip_service_control
                 \/ ~conf.api_key /\ conf.allow_unregistered_calls
              /\ RunOneHandler("OK")
           \/ /\ conf.method /\ conf.control /\ ~conf.skip_service_control
              /\ ~conf.api_key /\ ~conf.allow_unregistered_calls
              /\ RunOneHandler("ERROR")
        /\ UNCHANGED <<frame, verdict, stale>>
     \/ /\ conf.method /\ conf.control /\ ~conf.skip_service_control
        /\ conf.api_key /\ Touch("check")
        /\ \/ ~client /\ Answer("check", "denied", "ERROR") /\ UNCHANGED frame
           \/ /\ client /\ UNCHANGED frame
              /\ \E v \in {"ok", "denied", "unavailable"} :
                   Answer("check", v, CheckStatus(v))
           \/ client /\ Wait("check") /\ UNCHANGED verdict
  /\ UNCHANGED <<conf, requestVars, continuation, tests, reportVars, crashed,
                 boundVars>>

(* An answer that names the consumer's project adds a header to the request. *)
ServiceControlChecked ==
  /\ frame = "none" /\ call = "check" /\ frame' = "answer"
  /\ \E v \in {"ok", "denied", "unavailable"} :
       /\ Answer("check", v, CheckStatus(v))
       /\ \/ v # "unavailable" /\ Touch("check")
          \/ UNCHANGED stale
  /\ UNCHANGED <<conf, requestVars, continuation, tests, reportVars, crashed,
                 boundVars>>

QuotaStatus(v) == IF v \in {"ok", "unavailable"} THEN "OK" ELSE "ERROR"

QuotaControl ==
  /\ Runs("quota")
  /\ \/ /\ conf.method /\ (~conf.costs \/ conf.skip_service_control)
        /\ RunOneHandler("OK")
        /\ UNCHANGED <<phase, linked, wakeup, frame, verdict, stale, crashed>>
     \/ /\ conf.method /\ conf.costs /\ ~conf.skip_service_control
        /\ conf.control /\ Touch("quota")
        /\ \/ ~client /\ Answer("quota", "denied", "ERROR") /\ UNCHANGED frame
           \/ /\ client /\ UNCHANGED frame
              /\ \E v \in {"ok", "denied", "unavailable"} :
                   Answer("quota", v, QuotaStatus(v))
           \/ client /\ Wait("quota") /\ UNCHANGED verdict
        /\ UNCHANGED <<phase, linked, wakeup, crashed>>
     \/ /\ ~conf.method \/ (/\ conf.costs /\ ~conf.skip_service_control
                            /\ ~conf.control)
        /\ Crash
        /\ UNCHANGED <<result, verdict, stale>>
  /\ UNCHANGED <<conf, handler_set, status, continuation, tests, reportVars,
                 boundVars>>

QuotaAllocated ==
  /\ frame = "none" /\ call = "quota" /\ frame' = "answer"
  /\ \E v \in {"ok", "denied", "unavailable"} : Answer("quota", v, QuotaStatus(v))
  /\ UNCHANGED <<conf, requestVars, continuation, tests, reportVars, stale,
                 crashed, boundVars>>

(* Faulty variants: the request is not woken up; the check is completed once *)
(* more.                                                                     *)
CompleteCheckNoWakeup ==
  /\ frame # "none" /\ index = Len(RegisterAll) + 1 /\ continuation
  /\ continuation' = FALSE /\ index' = 0 /\ frame' = Unwind
  /\ status' = IF linked THEN result ELSE status
  /\ UNCHANGED <<conf, phase, handler_set, linked, wakeup, result, call, tests,
                 verdict, reportVars, stale, crashed, boundVars>>

CompleteCheckAgain ==
  /\ frame # "none" /\ index = Len(RegisterAll) + 1 /\ continuation
  /\ continuation' = FALSE
  /\ status' = IF linked THEN result ELSE status
  /\ wakeup' = (wakeup \/ (linked /\ handler_set))
  /\ UNCHANGED <<conf, phase, handler_set, linked, frame, index, result, call,
                 tests, verdict, reportVars, stale, crashed, boundVars>>

(* RequestContext::CompleteCheck, the interception of RequestHandler::Check  *)
(* (which reads the request handler of a passed check, also when it was      *)
(* freed) and the continuation of the access handler: the status is stored,  *)
(* and a wake-up posted unless the access handler is still on the stack.     *)
CompleteCheck ==
  /\ frame # "none" /\ index = Len(RegisterAll) + 1 /\ continuation
  /\ continuation' = FALSE /\ index' = 0 /\ frame' = Unwind
  /\ status' = IF linked THEN result ELSE status
  /\ wakeup' = (wakeup \/ (linked /\ handler_set))
  /\ stale' = stale \cup
       (IF phase = "gone" /\ result = "OK" THEN {"interception"} ELSE {}) \cup
       (IF phase = "gone" /\ linked THEN {"continuation"} ELSE {})
  /\ UNCHANGED <<conf, phase, handler_set, linked, result, call, tests, verdict,
                 reportVars, crashed, boundVars>>

-------------------------------------------------------------------------------
(* The access phase                                                          *)

(* ngx_http_esp_access_wrapper, once current_access_handler is set: nginx    *)
(* waits, goes on to the content phase, or the error is sent.                *)
AccessResult(st) ==
  CASE st = "AGAIN" -> "access"
    [] st = "OK"    -> "content"
    [] OTHER        -> "finalizing"

(* Faulty variant: the status is left as it was while the check runs.        *)
AccessHandlerStatusKept ==
  /\ phase = "new"
  /\ phase' = "access" /\ linked' = TRUE
  /\ continuation' = TRUE /\ index' = 1 /\ frame' = "access"
  /\ UNCHANGED <<conf, handler_set, status, wakeup, result, call, tests, verdict,
                 reportVars, stale, crashed, boundVars>>

(* ngx_http_esp_access_handler the first time: Check is called.              *)
AccessHandler ==
  /\ phase = "new"
  /\ phase' = "access" /\ status' = "AGAIN" /\ linked' = TRUE
  /\ continuation' = TRUE /\ index' = 1 /\ frame' = "access"
  /\ UNCHANGED <<conf, handler_set, wakeup, result, call, tests, verdict,
                 reportVars, stale, crashed, boundVars>>

(* Check has returned, with an answer or without.                            *)
CheckReturns ==
  /\ frame = "access" /\ (index = 0 \/ call # "none")
  /\ handler_set' = TRUE /\ frame' = "none"
  /\ phase' = AccessResult(status)
  /\ UNCHANGED <<conf, status, linked, wakeup, continuation, index, result, call,
                 tests, verdict, reportVars, stale, crashed, boundVars>>

(* wakeup_event_handler: nginx's write handler of the request, which runs    *)
(* the phases as long as the access phase lasts.  The event lies in the      *)
(* memory of the request.                                                    *)
WakeupEvent ==
  /\ frame = "none" /\ wakeup
  /\ wakeup' = FALSE
  /\ phase' = IF phase = "access" THEN AccessResult(status) ELSE phase
  /\ Touch("wakeup_event")
  /\ UNCHANGED <<conf, handler_set, status, linked, checkVars, reportVars,
                 crashed, boundVars>>

(* A write event of the connection runs the phases, too.                     *)
WriteEvent ==
  /\ frame = "none" /\ phase = "access" /\ writes < MaxWriteEvents
  /\ writes' = writes + 1
  /\ phase' = AccessResult(status)
  /\ UNCHANGED <<conf, handler_set, status, linked, wakeup, checkVars, reportVars,
                 stale, crashed, messages>>

-------------------------------------------------------------------------------
(* Content phase, reports and the end of the request                         *)

Report(final) == Append(reports, [first |-> first_report, final |-> final])

(* A message of a streaming call updates the statistics; when the last       *)
(* report is long ago, AttemptIntermediateReport sends one.                  *)
StreamMessage ==
  /\ frame = "none" /\ phase = "content" /\ messages < MaxMessages
  /\ messages' = messages + 1
  /\ \/ UNCHANGED <<phase, linked, wakeup, frame, index, call, first_report,
                    reports, crashed>>
     \/ /\ conf.control
        /\ reports' = IF client THEN Report(FALSE) ELSE reports
        /\ first_report' = IF client THEN FALSE ELSE first_report
        /\ UNCHANGED <<phase, linked, wakeup, frame, index, call, crashed>>
     \/ ~conf.control /\ Crash /\ UNCHANGED <<first_report, reports>>
  /\ UNCHANGED <<conf, handler_set, status, continuation, result, tests, verdict,
                 client, stale, writes>>

(* Faulty variant: the context of a freed request stays linked.              *)
FreeRequestLinked ==
  /\ reports' = IF conf.control /\ ~conf.skip_service_control /\ client
                THEN Report(TRUE) ELSE reports
  /\ phase' = "gone"
  /\ UNCHANGED <<conf, handler_set, status, linked, wakeup, checkVars, client,
                 first_report, stale, crashed, boundVars>>

(* nginx frees the request: the log phase reports it, and the destructor of  *)
(* the context cuts the wake-up context off.                                 *)
FreeRequest ==
  /\ reports' = IF conf.control /\ ~conf.skip_service_control /\ client
                THEN Report(TRUE) ELSE reports
  /\ phase' = "gone" /\ linked' = FALSE
  /\ UNCHANGED <<conf, handler_set, status, wakeup, checkVars, client,
                 first_report, stale, crashed, boundVars>>

(* The response is sent.                                                     *)
RequestDone == frame = "none" /\ phase = "finalizing" /\ FreeRequest

(* nginx closes the connection of the request, whatever it is doing.         *)
TerminateRequest ==
  frame = "none" /\ phase \in {"access", "content"} /\ FreeRequest

BackendDone ==
  /\ frame = "none" /\ phase = "content"
  /\ phase' = "finalizing"
  /\ UNCHANGED <<conf, handler_set, status, linked, wakeup, checkVars, reportVars,
                 stale, crashed, boundVars>>

(* The worker exits and does not wait for the request any longer             *)
(* (kWaitCloseTime): ngx_esp_attempt_shutdown closes service control.        *)
AttemptShutdown ==
  /\ frame = "none" /\ client
  /\ client' = FALSE
  /\ UNCHANGED <<conf, requestVars, checkVars, first_report, reports, stale,
                 crashed, boundVars>>

Handler ==
  \/ FetchServiceAccountToken \/ FetchInstanceIdentityToken \/ CheckAuth
  \/ CheckSecurityRules \/ CheckServiceControl \/ QuotaControl \/ CompleteCheck
  \/ AccessHandler \/ CheckReturns

CallAnswered ==
  \/ TokenFetched \/ PostFetchJwksUri \/ PostFetchPubKey \/ ReleaseFetched
  \/ RulesetTested \/ ServiceControlChecked \/ QuotaAllocated

Next ==
  \/ Handler \/ CallAnswered \/ WakeupEvent \/ WriteEvent
  \/ StreamMessage \/ BackendDone \/ RequestDone \/ TerminateRequest
  \/ AttemptShutdown

Spec == Init /\ [][Next]_vars

(* The worker runs on, nginx runs its posted events, and the HTTP client     *)
(* ends every call, by an answer or by a timeout.                            *)
FairSpec ==
  /\ Spec
  /\ WF_vars(Handler) /\ WF_vars(CallAnswered) /\ WF_vars(WakeupEvent)

-------------------------------------------------------------------------------
(* Properties                                                                *)

(* The values of the variables.                                              *)
TypeOK ==
  /\ conf \in Conf
  /\ phase \in {"new", "access", "content", "finalizing", "gone"}
  /\ handler_set \in BOOLEAN /\ status \in {"OK", "ERROR", "AGAIN"}
  /\ linked \in BOOLEAN /\ wakeup \in BOOLEAN
  /\ continuation \in BOOLEAN /\ frame \in {"none", "access", "answer"}
  /\ index \in 0 .. 7 /\ result \in {"OK", "ERROR"}
  /\ call \in {"none", "account_token", "identity_token", "jwks_uri", "pub_key",
               "release", "ruleset", "check", "quota"}
  /\ tests \in Nat
  /\ verdict \in [Check -> {"none", "ok", "denied", "unavailable"}]
  /\ client \in BOOLEAN /\ first_report \in BOOLEAN
  /\ reports \in Seq([first : BOOLEAN, final : BOOLEAN])
  /\ stale \subseteq {"auth", "rules", "check", "quota", "interception",
                      "continuation", "wakeup_event"}
  /\ crashed \in BOOLEAN
  /\ writes \in Nat /\ messages \in Nat

(* What the service config asks of a request has been found true.            *)
AuthAllowed  == conf.auth => verdict["auth"] = "ok"
RulesAllowed == conf.rules => verdict["rules"] = "ok"
CheckAllowed ==
  /\ conf.method
  /\ conf.control /\ ~conf.skip_service_control =>
       \/ conf.allow_unregistered_calls
       \/ verdict["check"] = "ok"
       \/ verdict["check"] = "unavailable" /\ conf.network_fail_open
QuotaAllowed ==
  conf.control /\ conf.costs /\ ~conf.skip_service_control =>
    verdict["quota"] \in {"ok", "unavailable"}

(* A request reaches the backend only if every check the service config asks *)
(* for was made and allowed it, however the check's answer and the events of *)
(* the connection are interleaved (module.cc access_handler, access_wrapper).*)
ContentOnlyIfAllowed ==
  phase = "content" => AuthAllowed /\ RulesAllowed /\ CheckAllowed /\ QuotaAllowed

(* CompleteCheck is called at most once: GOOGLE_CHECK(check_continuation_)   *)
(* never fails.                                                              *)
CompletedOnce == index = Len(RegisterAll) + 1 => continuation

(* QuotaControl dereferences the method without looking; no request without  *)
(* a method gets there.                                                      *)
QuotaKnowsMethod == crashed => conf.method

(* While nginx waits in the access phase with the check answered, a wake-up  *)
(* is posted: the continuation saw correctly whether the access handler was  *)
(* still on the stack.                                                       *)
WakeupPosted ==
  phase = "access" /\ frame = "none" /\ status # "AGAIN" => wakeup

(* The continuation of a check that outlives its request leaves the freed    *)
(* context alone (wakeup_context is cut off by its destructor).              *)
CancelledCheckIgnored == "continuation" \notin stale

(* The access phase ends: with the content phase, an error or the request.   *)
AccessPhaseEnds == phase = "access" ~> phase # "access"

(* Method::skip_service_control() and ServiceControlConfig.force_disable     *)
(* turn service control off: nothing calls it then.                          *)
ServiceControlOff ==
  ~conf.control \/ conf.skip_service_control => ~crashed /\ reports = <<>>

(* The destructor of the context cancels the wake-up of a request that goes  *)
(* away: nothing uses the request after it was freed.                        *)
NoUseOfFreedRequest == stale = {}

-------------------------------------------------------------------------------
(* The inductive invariant behind the safety properties: a call belongs to   *)
(* the handler that waits for it, what the handlers before index found       *)
(* stands, and the status is NGX_AGAIN exactly until the check is complete.  *)
Position ==
  [account_token |-> 1, identity_token |-> 2, jwks_uri |-> 3, pub_key |-> 3,
   release |-> 4, ruleset |-> 4, check |-> 5, quota |-> 6]

CallPosition ==
  /\ call # "none" => index = Position[call]
  /\ call = "check" => conf.method

(* The check has got past the handler at position i.                         *)
Past(i) == (index > i /\ index < 7) \/ (index = 7 /\ result = "OK")

Standing ==
  /\ Past(3) => AuthAllowed
  /\ Past(4) => RulesAllowed
  /\ Past(5) => CheckAllowed
  /\ Past(6) => QuotaAllowed

Admitted ==
  status = "OK" /\ phase # "new" =>
    AuthAllowed /\ RulesAllowed /\ CheckAllowed /\ QuotaAllowed

Waiting ==
  /\ index # 0 => status = "AGAIN" /\ continuation
  /\ phase = "content" => status = "OK"
  /\ phase = "new" => index = 0 /\ frame = "none" /\ call = "none"

Linked ==
  /\ linked <=> phase \notin {"new", "gone"}
  /\ frame = "access" => phase = "access"
  /\ frame # "access" /\ linked => handler_set

LifecycleInvariant ==
  /\ TypeOK /\ CallPosition /\ Standing /\ Admitted /\ Waiting /\ Linked
  /\ WakeupPosted /\ QuotaKnowsMethod /\ CancelledCheckIgnored
===============================================================================
