# Extensible Service Proxy: a TLA+ verification project

ESP is an nginx module that checks API calls (keys, JWTs, quota, security
rules), proxies them to an HTTP or gRPC backend, and reports them to Google
Service Control. This directory holds TLA+ models of its stateful parts, the
TLC configurations that check them, and TLAPS proofs. All paths below are paths
of the repository (`src/...` stands for `src/src/...` in `PROJECT.json`).

An nginx worker is one thread: a callback runs to its end before the next one
starts. The hard behaviour is therefore in the *order* of callbacks (timers,
completions, responses, the release of a request), plus the one real thread, the
gRPC completion-queue worker. One TLA+ action is one whole callback, with
everything it calls synchronously.

## Inventory

| Component | State | Operations | Interacts with | Hard part | What makes it correct |
|---|---|---|---|---|---|
| gRPC proxy flow (`src/grpc/proxy_flow.cc`) | three flags (half-closed, finish started, client told), two message buffers, status | `Start...` functions, one tag callback per upstream operation | server call (continuations), completion queue (tags), libgrpc | both directions run at once, anything may fail first | one operation per direction; the client is always told, once; nothing after the half-close; order kept |
| gRPC server call (`src/nginx/grpc_server_call.cc` and subclasses) | the nginx request, pending read, pending write, event handlers, cancel function | `Read`, `Write`, `Finish`, `OnDownstreamReadable/Writeable`, `OnHttpBlockReading`, `Cleanup` | nginx events, flow | nginx frees the request at any time; the transcoder finalizes it from inside a read | no use of a freed request; pending operations end |
| gRPC completion queue (`src/nginx/grpc_queue.cc`) | `pending_`, `notified_`, worker thread | `MakeTag`, `WorkerThread`, `NginxTagHandler`/`DrainPending`, destructor | libgrpc, `ngx_notify` | two threads, a flag that suppresses notifications, shutdown | no lost wake-up, FIFO, clean join |
| Tokens (`src/api_manager/fetch_metadata.cc`, `auth/service_account_token.*`) | fetch state, token, expiry, time of last failure | `GlobalFetchServiceAccountToken`, response callback | every request, config manager, HTTP client | shared by all requests, concurrent fetches answered in any order | a request goes on with a valid token only; back-off; every request is answered |
| Config rollouts (`src/api_manager/config_manager.cc`, `api_manager_impl.cc`) | current rollout id, fetch timer, throttle window, fetches, service contexts, selector | `SetLatestRolloutId`, timers, response callbacks, `AddAndDeployConfigs` | Service Control responses, Service Management, tokens | overlapping chains of calls, partial failure | whole deployments, throttling, convergence |
| Request lifecycle (`src/nginx/module.cc`, `request.cc`) | per-request context, wake-up context, access handler | access phase, wake-up, log phase, shutdown | nginx phases, request handler | the check's continuation runs synchronously, later, or after the request is gone | resumed once, reported once, never used after it is freed |
| Check workflow (`src/api_manager/request_handler.cc`, `check_*.cc`, `quota_control.cc`) | request context, position in the chain | the chain of checks, reports | token, auth, service control | each check suspends | the continuation is called exactly once, in order |
| Authentication (`check_auth.cc`, `auth/`) | cache of verified tokens, keys per issuer, discovered URIs | `AuthChecker` steps, `JwtValidator` | HTTP client | three caches, expiry, keys that rotate while a fetch is under way | only entitled, unexpired tokens pass; a withdrawn key runs out |
| Security rules (`check_security_rules.cc`, `firebase_rules/`, `auth/authz_cache.cc`) | cache of decisions, the calls and results of a test | test, call functions, test again | authentication, HTTP client | a loop driven by another service, each call may fail | only the service allows or denies; the loop ends |
| Service control client (`service_control/`) | cached checks, aggregated reports (in a submodule), first-report flag, bytes reported so far | `Check`, `Quota`, `Report`, intermediate reports, `Close` | HTTP client | fail-open, which metric goes into which report | counted once, bytes add up, nobody billed without a valid key |
| HTTP client (`src/nginx/http.cc`) | attempts with a connection, a parser and pools each; retries left | send, parse, finalize, retry, wake-up | nginx upstream | a retry starts inside the finalization of the attempt before it | one answer; pools outlive their handlers and are reclaimed |
| Configuration (`config.cc`, `method_impl.cc`) | methods with their rules, the path matcher | the `Load...` functions of `Config::Create` | path matcher | eight sections refer to methods by selector | each rule applies to its method and to no other |
| Path matching, weighted selection, rewrite rules | tries, counts per config, rules | register, lookup, select, rewrite | request handler | algorithms with edge cases | agree with a reference definition |
| Cloud trace (`cloud_trace/`) | sampler, spans of a trace, the batch | headers, sampling, aggregation | request handler, HTTP client | limit, timer and exit each send the batch | a trace is sent at most once, the batch stays bounded |
| gRPC locations and framing (`src/nginx/grpc.cc`, `zero_copy_stream.cc`, `grpc_finish.cc`, `grpc_web_finish.cc`, `src/grpc/`) | buffers, slices, streams between nginx, the transcoder and libgrpc | choose the call and the backend; cut messages out of bytes and join them | server call, transcoder | bytes cut anywhere; slices shared by messages | messages whole and in order, both ways |
| Status page, error bodies, `start_esp`, nginx directives | - | formatting, generation | - | - | not modelled |

`PROJECT.json` lists the same components with their sources, and the hazards,
each at its line with the properties that watch it.

## Modules

| Module | Models |
|---|---|
| `ProxyFlow` | one proxied call: `ProxyFlow` and `NgxEspGrpcServerCall` together, with the client and the backend |
| `RpcRelay` | what a client may see of a call: the abstract specification `ProxyFlow` refines |
| `GrpcQueue` | `NgxEspGrpcQueue`: nginx thread and worker thread |
| `CallbackQueue` | its interface: a FIFO of callbacks, until it is closed |
| `TokenFetch` | the shared token of a process |
| `ConfigRollout`, `MCConfigRollout` | `ConfigManager` and the deployment in `ApiManagerImpl`; rollouts for TLC |
| `RequestLifecycle` | one client request: access phase, check workflow, wake-up, reports, release, with the handlers of `src/api_manager` |
| `HttpClient` | one outgoing HTTP request with all its attempts |
| `HttpExchange` | what `RunHTTPRequest` promises: the specification `HttpClient` refines |
| `ServiceControl`, `MCServiceControl` | the service control client, from the check of a request to its last report; a service for TLC |
| `ReportProto` | `proto.cc` and `logs_metrics_loader.cc`: what a report carries and what an answer means |
| `StatusCodes` | `utils/status.cc`: the three kinds of codes and their conversions |
| `JwtValidator` | `auth_jwt_validator.cc`, `auth_token.cc`: parsing, verification, ESP's own tokens |
| `AuthCheck` | `AuthChecker` with the token cache, the key cache and discovery |
| `SecurityRules`, `MCSecurityRules` | extends `AuthCheck` by `AuthzChecker` and `FirebaseRequest`; tokens, methods and documents for TLC |
| `PathMatcher` | templates, the trie, lookup and bindings |
| `ServiceConfig` | `Config::Create`, using `PathMatcher` |
| `RewriteRule` | parsing and applying rewrite rules |
| `CloudTrace` | trace headers, sampler, spans, aggregator |
| `Routing` | composes the four: from the URL to the config, the method, the bindings, the API key and the backend path, with the trace of the request |
| `MessageFraming` | bytes, slices and streams: the client's body, the serializer, the zero-copy streams |
| `GrpcBackend`, `MCRouting` | extends `Routing` by locations with `grpc_pass`: the choice of the call and the bytes of request and response; deployments and requests for TLC |
| `ProxyFlowProofs` (with `GrpcQueue`), `RequestLifecycleProofs`, `HttpClientProofs`, `SecurityRulesProofs` (with `AuthCheck`), `ServiceControlProofs` | theorems and proofs about the module each is named after |
| `ApiManagerProofs` | theorems and proofs about `TokenFetch` and `ConfigRollout` |
| `RoutingProofs` | theorems and proofs about `Routing` and `CloudTrace`, for the composition with `GrpcBackend` that the run checks |
| `GrpcBackendProofs` | theorems and proofs about `GrpcBackend` and `MessageFraming` |

### ProxyFlow

The variables keep the code's names: `sent_upstream_writes_done`,
`started_upstream_finish`, `sent_downstream_finish`, `read_continuation`,
`write_continuation`, `grpc_upstream_cancel`. `ops` counts the tags made and not
run, `tags` the completed ones in the order the queue hands them over (the FIFO
that `GrpcQueue` provides). A message is its number. `request` says whether
nginx still has the request: *active*, *lingering* (finalized, error output not
flushed, so nginx keeps it) or *freed*. `Finalize` leaves open which of the two
a finalization leads to.

Actions: `Start`; one `On...Tag` per upstream operation; `OnDownstreamReadable`,
`OnHttpBlockReading`, `OnDownstreamWriteable` for nginx's events;
`FreeLingering` for the release of a finalized request; `DestroyFlow` for the
end of the last `shared_ptr`, which cancels the upstream call. A continuation
the code calls synchronously is an operator with the pending tag counts as its
argument (`StartDownstreamReadMessage(o)`), so a chain such as *write done, read
the next message, body ended, WritesDone* is one step. The client (`Client...`),
the backend (`Backend...`) and libgrpc (`Complete...`) are external. libgrpc
reports the final status after the messages that precede it, unless the call
failed.

`Transcoding` chooses the subclass. In the transcoded call every read and write
may fail in the transcoder, whose `HandleError` finalizes the request on the
spot. Framing, compression and trailers are the subject of `GrpcBackend`; here
they only may fail.

### GrpcQueue

Everything between two lock operations is one action: `WorkerNext`,
`WorkerPush` (under `mu_`), `WorkerNotify` (after it), `NginxTagHandler` (the
swap under `mu_`), `RunCallback`. `Destructor` shuts the completion queue down
and `Join` is the return of `join`. `completed` and `ran` are histories.

### TokenFetch

One token shared by `Request`; `identity` and `skip` choose the kind of token.
`GlobalFetchServiceAccountToken(r)` is the whole function up to the HTTP call,
`FetchFailed`, `ParseFailed` and `Fetched` are its callback. Every request may
have a fetch of its own under way. The specification is `TokenSpec`. `expires` is
what the code believes, `valid_until` when the token really expires: an access token
is taken to expire a margin early, and an identity token, which the code does not
parse, `IdentityExpiration` after it arrived, whatever its own lifetime. So
`GoesOnWithValidToken` excepts the identity tokens whose fixed time is longer than
their life (`ValidMeansValid` is the claim, and a finding).

### ConfigRollout

`fetch` holds the chains of calls under way (token, rollouts, configs); two may
overlap. `AddAndDeployConfigs` adds configs in the order they arrived and stops
at the first that is rejected. A config is its id; percentages are left out.
`outage` says whether calls to other services may fail.

### RequestLifecycle

`conf` is what the service config asks of the request (does a method match, is
authentication required, are there security rules, is service control on, ...),
in every consistent combination. `phase` is where nginx is with the request,
`handler_set` is `current_access_handler != nullptr`, `status` is `ctx->status`
(an error is `"ERROR"`, `NGX_AGAIN` is `"AGAIN"`), `linked` says that
`wakeup_context` still points to the request.

`frame` is the call stack of the worker as far as this request is concerned: in
the access handler (`"access"`), in the callback of a remote call (`"answer"`)
or in the event loop (`"none"`). While it is not `"none"` the handlers of the
workflow run one after the other without anything in between; a handler that
needs a remote call sets `call` and returns to the event loop, where other events
may come first. So one action is one handler up to its continuation or its call
(`CheckAuth`, `CheckServiceControl`, ...) or the callback of the call
(`PostFetchPubKey`, `ServiceControlChecked`, ...). What a check finds is kept in
`verdict`. `CompleteCheck` is `RequestContext::CompleteCheck` with the
interception and the access handler's continuation; `CheckReturns` is the rest
of the access handler. `FreeRequest` is the log phase and the destructor of the
context, which nginx runs together. `stale` is a history variable: who used the
request, its context or its handler after that.

### HttpClient

An attempt is one connection with its nginx request; `max_retries` is what is
left of the budget. `stage[a]` is where nginx's upstream module is with attempt
`a`, and `Upstream(a)` is one of its callbacks into `http.cc`: `CreateRequest`,
the status line (which may arrive in pieces, `line`), the header, the body
filters, or an end by error, time-out or a closed connection.
`ngx_esp_upstream_finalize_request` hands the request over, starts a retry from
inside, or answers. `frames` is the stack of finalize handlers that are active,
because a retry may fail at once and finalize inside the handler of the attempt
before it; `PostWakeup` and `Return` unwind it. `wakeup_event_handler` destroys
the pools. `HttpExchange` is the promise the other modules rely on.

### ServiceControl and ReportProto

`Check`, `CheckAnswered`, `Quota`, `AttemptIntermediateReport` and `Report` are
the calls a request makes (`Check` denies one without a key where unregistered calls
are not allowed); `Stream` is a message of a streaming call, `OtherCheck`
and `Expire` stand for other requests and for time in the shared cache, `Close`
for the exit. The client library is in a submodule: it is modelled by how
`aggregated.cc` uses it (a check is answered from the cache or sent on, a report
is taken). `ReportProto` has the tables and functions of `proto.cc`: which metric
goes into a first, an intermediate or a final report, with which labels and
which consumer, and what each error of a check or quota response means. Names,
costs and latencies are left out; sizes and bytes are numbers. `told` is what the
service answered: before any answer it is `Untold`, which lets nothing pass.

### AuthCheck, JwtValidator and SecurityRules

`pc[r]` is the step of the checker of request `r`; each HTTP call it makes ends
its action and its callback is another. `published` is what the issuer's server
serves, and rotates, per issuer; `seen` is the history of when each issuer last
published each key; `FirstKey` is what each starts with, and
`Discovered` are the issuers whose `jwks_uri` OpenID discovery has to find. A token is the record of what its parts decode to;
a method has `providers`, the audiences of the provider of each issuer it allows
(`issuer_provider_map_`), and `isAudienceAllowed` looks at those of the token's issuer.
`JwtValidator` keeps the order of the checks and the selection of keys;
cryptography is "signed by this key over this hash". `VerifySignature` and the
tokens ESP signs itself are compared with reference statements by the
assumptions `SignatureNeedsKey` and `GeneratedTokensPass` of `MCSecurityRules`,
which TLC evaluates over small sets of tokens and key documents of all four forms.
`SecurityRules` continues with the release, the test, the function calls
(`calls`, `iter`, `funcs_with_result`) and the cache of decisions. A document that
cannot be written as JSON ends the check with the error of the conversion.

### Routing

A deployment (services with weights, rewrite rules, tracing, `grpc_pass`) is
chosen once. `AddAndDeployConfigs` builds every `Config`; `CreateRequestHandler`
selects one, looks up the method and starts the trace; `CheckPassed(c)` is the end of
a check: the backend span, what authentication found out (`PassUserInfo`), ESP's own
token; `Report(c)` ends the request and its trace; `AggregatorTimer`, `Close` and
`Tick` drive the aggregator; `RewriteUri` is the rewriting of a URI. `call` holds the
requests that are open, at most `MaxOpen` of the deployment: they share the selector,
the sampler and the aggregator, so those with tracing overlap. `RequestContext` is what
a request keeps, with how far it is (`stage`); `Select` is the loop over the scores, as
a function of how many entries it has seen. `served` and `traced` are histories.

Headers and query parameters are sequences, since a client may send a name twice:
`FindHeader` and `FindQuery` look at the first of the name and report none if it is
empty, `AddHeaderToBackend` replaces the first or appends. Templates are
sequences of tokens, paths sequences of segments, replacements sequences of
characters, since their scanning is what can go wrong. What a regular expression
matches and what an escape stands for are tables.

`RoutesToBestRule` compares the trie with the rules that are in force (`InForce`):
`LoadHttpMethods` skips the additional bindings of a rule that it refuses, because it is
invalid or its URL is taken by an RPC or by an earlier rule, and those are the only
bindings that are exempt.

### GrpcBackend and MessageFraming

`server` is the server call of a request; there is one at a time, since two server
calls share nothing that these modules model. Creating it may fail (`CreateErrors`):
the transcoder refuses the method or the bindings, or nginx the body. The body
(`wire`) reaches it in pieces cut anywhere; `RunPendingRead` is one turn of the loop that converts
buffers, tries to take a message, or reads on. `MessageFraming` has the slices,
the two zero-copy streams and the serializer, byte by byte, with bytes of
`ByteValues` values. For JSON, a document is as many bytes as its message and an
end mark: the transcoder gives a frame for each complete document. A response is
framed anew (gRPC, gRPC-Web) or added to the serializer and read back by the
transcoder's message reader; `Finish` adds trailers, or the trailer frame whose
length is summed up as its lines are written. The order of operations, failing
writes and the release of the request belong to `ProxyFlow`. `GrpcSliceFromNginxBuffer`
does not look at how much of a file was read: it returns the whole data or, for a file,
any shorter beginning of it followed by what the memory held (`Leftovers`); `garbled`
is the history of that, and what `RequestFramed` promises ends there, for calls that
are not transcoded.

## Runs

| Run | Bounds | States | Shows |
|---|---|---|---|
| `proxy_passthrough` | 2 messages each way | 122,259 | one operation per direction, client never stranded, nothing after the half-close, refinement of `RpcRelay`; the backend's end reaches the client, and a reset ends the call while a read waits or the cancel function is registered, whatever runs in between |
| `proxy_transcoded` | 2 requests, 1 response | 106,910 | the request messages keep their order when the transcoder finalizes the request from inside a read or a write; the other invariants are proved for both kinds of call |
| `grpc_queue` | 4 operations | 5,789 | wake-ups, order, shutdown, refinement of `CallbackQueue` |
| `token_fetch` | 4 requests, 8 time units, lifetimes below the margin and above the window | 134,579 | tokens that are valid as far as the code knows, back-off |
| `config_rollout` | 3 new rollouts (one with a rejected config, one without traffic), 2 overlapping fetches | 100,972 | whole deployments, the id shown is the one deployed, convergence |
| `request_lifecycle` | 1 write event while waiting, 2 streamed messages, 2 ruleset calls, all 111 configurations | 64,795 | only allowed requests reach the backend, the check is completed once, no wake-up is lost, a cancelled check leaves the context alone, the access phase ends |
| `request_control_off` | as `request_lifecycle` | | *violation*: quota and intermediate reports use service control that is off or skipped |
| `http_client` | 2 retries, 1 piece of a body | 186,027 | refinement of `HttpExchange` (one answer), pools destroyed once and after their handlers, every request answered and every pool reclaimed |
| `service_control` | 1 request, 2 bytes each way, 2 intermediate reports, 5 HTTP results, 5 check and 2 quota answers | 1,765,165 | calls counted once over all reports, bytes add up, no bill without a valid key, the check's result is the service's or the fail-open |
| `auth_check` | 2 requests, 2 issuers that rotate 2 keys, a token of each, 2 methods, 4 time units | 1,473,570 | only unexpired tokens with an audience of their own issuer's provider pass, and only by a key that issuer publishes, or did until the answers under way and the caches have run out |
| `security_rules` | 2 requests, 2 paths, 2 functions, 2 calls per test | 271,426 | only the rules service decides, and every request is answered |
| `routing` | 800 services of two rules out of ten templates, services with every kind of rule, 8 weightings, 288 rewrite configurations, 6 tracing deployments with two requests at a time and 4 gRPC deployments | 835,205 | best rule, bindings, rules of the method, shares of traffic, rewriting, traces; framing of requests and responses |

Why the bounds are enough: the flow has one buffer per direction, so two
messages reach every state of a buffer between a first, a middle and a last
message; with the preread body (`slices`), data on the socket and the end of
stream in every combination, all branches of the read loop occur. The queue's
four places for a tag are all occupied at once with four operations. With four
requests, three fetches overlap after a first token was stored. Two overlapping
fetches and three rollouts give an old valid rollout that is applied after a
newer one. A second write event while a request waits
finds what the first one found, since neither changes anything the access
handler looks at; two messages make a first, a middle and, with the log phase,
a last report; two ruleset calls make one repetition of the loop. Two retries
give a retry inside a retry. In `auth_check`, four units are one more than an
answer that is one unit late (`Lag`, assumed of the HTTP client's time-out) and the
two caches that follow each other take together; each of the two methods takes an
audience from the provider of one issuer and not of the other, and either issuer may
come to publish the key that signed the other's token, so that a token or a key of the
wrong one shows. Discovery is in `security_rules`, where the issuer has no `jwks_uri`.
In `service_control`
a second request would share the cache only, which `OtherCheck` already fills.
Nine selections are more than the sum of the weights, so that each config's
turn comes again. A body of two messages with pieces of 1, 4 and 6 bytes is cut
inside the delimiter, at its end, inside the payload and over two messages;
payloads of 4 bytes carry into the second digit of the length when a byte has
4 values. Two requests that are open at once (`MaxOpen`), with a sampler and a timer,
start in one order and end in the other, and the timer runs between any two of their
steps; in the other deployments requests share nothing but the counts of the selector,
which are counted when a request starts. Headers come once, twice, and behind an empty
one of the name. `Leftovers` are all zeros or all ones, so that a length read from them
is zero or more than the body has.

Deadlock checking is off where the system may stop: a finished call, a
destroyed queue, requests that are all answered or gone. `ConfigRollout` never stops.

Eleven more configurations reproduce findings and are not among the runs:
`ProxyFlowStaleUse`, `ProxyFlowCleanup` and `ProxyFlowReset` (with `ProxyFlow`),
`TokenFetchWindow` and `TokenIdentity` (with `TokenFetch`), `ConfigRolloutStatus`
(with `MCConfigRollout`), `RequestStaleUse` (with `RequestLifecycle`),
`HttpClientStatus` (with `HttpClient`), and `GrpcWebStatus`, `RoutingUserInfo` and
`RoutingDollar` (with `MCRouting`). TLC reports the property each of them names as
violated.

### Fairness

The nginx loop serves posted notifications, completed tags and events
(`WF` on each callback); the worker thread runs; timers fire; `RunHTTPRequest`
calls back, because it has a timeout (`HttpClient` shows that it does, under
weak fairness of nginx's events). Nothing makes a client send, a backend
answer or read, a request arrive or the process exit. A rollout's report is
answered only while there is no outage, and `ConvergesToLatest` speaks of
behaviours in which outages end. A client that takes no output and stays
connected is excluded by fairness of `OnDownstreamWriteable`: nginx's
`send_timeout`, not ESP, ends that wait. In `RequestLifecycle` the handlers run to
their end once they have started, every remote call is answered (again the HTTP
client's timeout) and posted events are run; write events, messages, the release
of the request and the shutdown are not promised. `HttpClient` has strong
fairness of the wake-up event: it is disabled while a handler is on the stack,
and nginx runs posted events in every turn of its loop. `SecurityRules` has weak
fairness of each request's next step only.

## Proofs

Eight modules named `...Proofs` prove their theorems for every value of the
constants: any number of messages, operations, events, requests, retries,
rollouts, reports, keys and tokens, and all lifetimes. Each theorem rests on an
inductive invariant that is defined in the model's own module, so that TLC can check
it too, and each such invariant was model-checked on the instance of its run
before it was proved.

Every safety invariant, action property and refinement that a passing run checks is
proved, except the comparisons of `Routing` with reference definitions, the framing
of requests (both below) and, for transcoded calls, `RelaysFaithfully`.

The assumptions, all evaluated by TLC in the runs:

| Module | Assumed of the constants |
|---|---|
| `ProxyFlow`, `GrpcQueue`, `RequestLifecycle` | the bounds are natural numbers, `Transcoding` is a Boolean |
| `TokenFetch` (`WindowAssumption`) | lifetimes, the fixed lifetime of identity tokens, margin, windows are natural numbers |
| `ConfigRollout` (`RolloutAssumption`) | finitely many configs; the initial rollout has configs and all of them load, as the start-up requires |
| `HttpClient` (`ClientAssumption`) | bounds are natural numbers, status codes are between 100 and 599 |
| `AuthCheck` (`AuthAssumption`) | times to live, skew and lag are natural numbers; the issuers of a method are issuers of the config, and each starts with a key; a key document holds only keys its issuer published, and one of a secret is not empty |
| `SecurityRules` (`RulesAssumption`) | bounds and time to live are natural numbers |
| `ServiceControl` (`ServiceControlAssumption`) | bounds are natural numbers, HTTP results and costs are integers |
| `Routing` (`BoundAssumption`) | bounds are natural numbers, and at most 2^23 requests are counted: the scores are floats, which up to there tell an entry that has had its part of a round from one that has not |
| `Routing` (`WeightAssumption`) | the list is not empty (the deployment of an empty one is refused) and weights are natural numbers (percentages, rounded) |
| `Routing` (`TraceAssumption`) | the configs of a deployment are of one service and name one producer project; tracing is configured by numbers; a trace header is there at most once; ids drawn by ESP are not those of callers (64 random bits) |
| `MessageFraming` (`ByteAssumption`), `GrpcBackend` (`MessageAssumption`) | a byte has more than one value; a message of the backend is a sequence of slices of bytes, whose length fits the four bytes of its delimiter; the lengths of trailers are natural numbers |

**ProxyFlow.** Neither `OneOperationPerDirection` nor `NoOrphanedRequest` is
inductive. `FlowInvariant` adds: a completed tag belongs to an outstanding
operation and no operation has two (`TagsOutstanding`), so that running a tag
takes exactly one token away; nothing happens before `Start` (`BeforeStart`);
only a pending read waits for a read event (`ReadableMeansPending`), so that an
event never starts a second read; once half-closed, the request direction either
has no token or nothing left to read (`HalfCloseDrained`), so that the early
returns in `StartUpstreamWriteMessage` cannot hide a second write; and until the
client is told, the response direction or a Finish is under way
(`ResponseUnderWay`). Lemmas describe each synchronous continuation as a
contract on the token counts (`Read`, `Write`, `Finish`, `Cleanup`, ...); the
step theorem has one case per action. Theorems: `TypeCorrect`, `OneOperation`,
`NoOrphan`, and with the same lemmas `HalfCloseIsFinal`: no step issues a write or
a second half-close after the first half-close.

`RequestInOrder` needs to know when the one message buffer may be reused.
`BufferKept` says that whoever may start the next read (the start of the call, a
pending read, a completed write) has seen the backend take every message read so
far, and that a write under way carries the message after the backend's last.
Theorem: `MessagesInOrder`.

`PassThroughRelays` is the refinement of `RpcRelay`, one case per action. Its
invariant `RelayInvariant` says what the client has got before it is told the end
(`ResponsesPassedOn`: every response read, but the one whose tag waits) and that a
completed Finish holds the backend's status and has no response behind it in the
queue (`FinishIsLast`), so a status never overtakes a message. The theorem is about
calls that are not transcoded: the transcoder may answer a call with an error of
its own, before the backend is even asked, and a relay never does.

**GrpcQueue.** `WakeupInvariant` says that `notified_` is true exactly while a
notification is posted or about to be sent; with the places of the tags and the
lifecycle it is inductive. Theorems: `WakeupNeverLost`, `TagsAccountedFor`,
`FreedQueueUnused`. `QueueImplementsInterface` is the refinement of `CallbackQueue`:
the abstract queue is the concatenation of the four places a completed tag can be
in, and lemmas on concatenation show that moving tags from one place to the next
is a stutter.

**RequestLifecycle.** `ContentOnlyIfAllowed` needs to know why `status` is OK.
`LifecycleInvariant` adds: a call belongs to the handler at `index`
(`CallPosition`); the handlers before `index` were satisfied, and all of them were
if the chain ended with OK (`Standing`); an OK status after the start means all
checks were (`Admitted`); while a check is under way the status is `NGX_AGAIN` and
the continuation is set (`Waiting`), so a write event cannot let a request pass
and `CompleteCheck` cannot run twice; the wake-up context is linked exactly while
the request exists and the access handler is set once its frame is left
(`Linked`), so `CompleteCheck` posts a wake-up exactly when nobody else would look
at the status. One lemma describes what running a handler to its continuation
does to this, and there is a lemma per group of handlers. Theorems: `TypeCorrect`,
`OnlyAllowedRequestsPass`, `NoLostWakeup`, `CheckEndsWell`, `CancelledCheckHarmless`.

**TokenFetch.** `TokenInvariant`: an access token is not kept past its end
(`expires <= valid_until`; nothing of the kind holds of an identity token, which is
stored for a fixed time), and a failure that the window still covers is
remembered by `state` and `last_failed`, also when older fetches are answered
later. Both properties are action properties. Theorems: `TokenValidWhenUsed`,
`FailureHoldsFetchesBack`.

**ConfigRollout.** `OnConfig` compares only numbers: it deploys when as many configs
have arrived as were asked for. That this is the whole rollout needs `FetchSound`:
the configs a chain of calls holds are of the rollout it is after, each once, and
none of them is still awaited, so that equal cardinality makes them equal sets.
Theorems: `TrafficOnWholeRollout`, `CurrentIdDeployed`.

**HttpClient.** `RequestInvariant`: an attempt that holds the caller's request is
the newest one, its request is not answered, and the attempts after it are
untouched; the retries left bound how many of those there are. `PoolInvariant`: a handler
on the stack, or a posted wake-up, belongs to an attempt that has given the request
up. So a nested retry cannot destroy the pools of the handlers below it and nobody
can answer twice. Theorems: `PoolsSafe`, and `ImplementsExchange`, the refinement of
`HttpExchange` on which the other models rely.

**AuthCheck and SecurityRules.** `KeyInvariant` follows a key through answers under
way, the key cache and the token cache: what each holds for an issuer rests on a
key that this issuer published, at most so long ago (`Recent`), and an answer is
under way only while its request waits for that issuer. `RequestInvariant` says that a request is
entitled from the moment its token is parsed, wherever it waits;
`DecisionInvariant` that a cached decision is one the service made and is not kept past
its time to live. A request that is entitled has a token of an issuer the method
allows, with the service's name or an audience of that issuer's provider, whatever
providers other issuers have. Theorems: `OnlyEntitledPass`, `RevokedKeyRunsOut`,
`ServiceDecides`.

**ServiceControl.** `CountedOnce` and `BytesAddUp` are sums over all operations of all
reports of a request. `CountsSoFar` is their inductive form: before the last report
the sum of the counts is 0 or 1 as `first` says, and the sum of the bytes is `last`,
what the code remembers to have reported. `CheckInvariant` relates the answer of
the check to the key the reports name. The sums range over sequences of any
length; `SumTo` is a recursive function, and what adding a report does to it is
proved with an induction over a set of numbers (`NatSetInduction`: the least number outside
the set does not exist, from the well-foundedness of `<`), which needs no operator
as a parameter. Theorems: `RequestsCountedOnce`,
`ReportedBytesAddUp`, `RefusedKeyNotBilled`, `CheckDecidesRequests`.

**Routing: weights.** `WeightsKept` speaks of the moments when a round is over.
`WeightInvariant` is what holds in between: there is a number of rounds `q` such that
every config has been selected at least `q` and at most `q + 1` times its weight
(`WithinRound`). The entry with the least score is one that has not had all of its
part of round `q + 1`, unless all have, and then `q + 1` takes the place of `q`; so
no entry ever gets ahead of another by more than a round. `Select` and `Total` are
recursive functions; that the loop ends at a least entry, and what an increment
does to a sum, are proved by the same induction over a set of numbers. When the
number of requests is a multiple of the sum of the weights, bounds that add up to
the sum from below and from above leave equality only. The theorem is about scores
as exact fractions; `BoundAssumption` is what makes the code's floats agree with them.
Theorem: `WeightsAreKept`.

**Routing: traces.** `TraceInvariant` has three ideas. Ids stay apart: the first span
of a trace has a number no other trace has, neither one that waits, nor one that was
sent, nor one of another open request (`BatchesSound`, `StartedSound`). Traces wait
only under one project, so that a batch that is sent is sent under the project of all its
traces and none is dropped (`AggregatorSound`, `EndedSound`). And the sampler remembers a
start at least as late as that of every trace so far, ended or open (`Known`,
`Remembered`), so that a trace nobody asked for starts later than all that started
before it by the sampling period (`Later`, `InOrder`): the order is that of the starts,
since requests that overlap may end in any order. The lemmas
follow a trace through `CreateCloudTrace`, `CreateSpan`, `EndSpans`, `AppendTrace` and
`SendAndClearTraces`. Theorem: `TracesAreSentOnce`.

**GrpcBackend: responses.** A transcoded response goes through a serializer that hands
out a delimiter and slices, skipping empty ones, a stream that hands out what is
left of a buffer, and a reader that asks it for five bytes and then for as many as
they say. `ResponseInvariant` says that between two messages this machine is used up
(`Drained`): all buffers were taken, and behind the last message there are at most
empty slices (`UsedUp`). `MessageFound` is the lemma that matters: a message added in such a
state is read back, whole, by one turn of the reader, which leaves it used up
again, wherever the message is cut into slices. It rests on what the loops do, each by
induction over a set of numbers: `FlattenIs` (the folds that join slices), `SliceFound`
(the loop that skips empty ones), `MessageRead` (the calls of `Next`), and on
`DelimiterIs`: four divisions and four products by the number of byte values give a length below its
fourth power back. For gRPC-Web, `LinesAdded` sums the lines of the trailer frame in two
ways. Reads of the body leave all of this alone (`OnlyRead`). Theorem:
`ResponsesAreFramed`.

`TypeOK` of `ProxyFlow` and `RequestLifecycle`, `QuotaKnowsMethod` and
`NothingUsesFreedQueue` are parts of these arguments and are not checked by a run
of their own, and neither are the inductive invariants, which are proved.
`ProxyFlowTranscoded.cfg` leaves out what `OneOperation`, `NoOrphan` and
`HalfCloseIsFinal` prove for transcoded calls.

Only model-checked:

- all liveness properties (`BackendEndReachesClient`, `ResetEndsCall`,
  `DestructorReturns`, `ConvergesToLatest`, `AccessPhaseEnds`,
  `AnsweredAndReclaimed`, `EveryRequestAnswered`) and the fairness they rest on:
  the provers know neither fairness nor `ENABLED`;
- `RoutesToBestRule`, `BindingsAreWhatMatched`, `RulesOfTheMethodApply` and
  `RewritesAsWritten` of `Routing`, `RequestFramed` of `GrpcBackend`. What the trie, the templates, the rewrite rules and the cutting of
  a body into messages compute is compared with reference definitions over bounded inputs: nested folds
  and recursions over tries, templates and runs of bytes, for which the set induction
  used above would have to be carried through every level.

## Findings

1. `UpdateResponseMessageStat` uses the request without checking that it still
   exists. After a transcoding error freed the request, the next response
   message does so (`ProxyFlowStaleUse.cfg`).
2. `Cleanup` completes a pending read and leaves a blocked write, against its comment;
   the write's continuation keeps the flow in memory (`ProxyFlowCleanup.cfg`).
3. A reset whose read event arrives before the half-close is lost, since the
   cancel function is registered at the half-close and does not look back
   (`ProxyFlowReset.cfg`).
4. A failed prefetch of the token turns requests away for five seconds although
   the old token is valid (`TokenFetchWindow.cfg`).
5. An identity token is stored for 3500 seconds whatever its own lifetime, so that
   `is_access_token_valid` may hold of one that has expired (`TokenIdentity.cfg`).
6. The current rollout id is set although deploying the rollout failed
   (`ConfigRolloutStatus.cfg`).
7. `QuotaControl` and `AttemptIntermediateReport` use service control without
   asking whether it is configured (`force_disable`) or, for the report, skipped
   (the run `request_control_off`).
8. The destructor of the request context does not remove a posted wake-up event,
   and a check that outlives its request uses it through the raw pointers that
   `RequestHandler::Check` and the handlers hold (`RequestStaleUse.cfg`).
9. The HTTP client loses the first digits of a status code when the status line
   arrives in two pieces: the structure nginx's parser keeps them in is zeroed on
   every call (`HttpClientStatus.cfg`).
10. `GrpcWebFinish` does not keep the backend's status in the request context, so
    a failed gRPC-Web call is reported with the HTTP status 200 (`GrpcWebStatus.cfg`).
11. Of several `X-Endpoint-API-UserInfo` headers of a client only the first is
    looked at and blanked; the others reach the backend (`RoutingUserInfo.cfg`).
12. A lone `$` at the end of a replacement is dropped, while the header says that what
    is not a variable is text (`RoutingDollar.cfg`).

### Observations

Behaviour met while modelling that contradicts no document, or is not observable
in the models. The models have it as the code does.

- A pass-through body that ends inside a message is taken for one that ends
  before it (`RequestFramed` says so); the transcoder refuses such a body. After a
  failed decompression released slices stay in `downstream_slices_`.
  `GrpcSliceFromNginxBuffer` does not look at the result of reading a file: after a
  failed or short read the backend gets what the memory held (`garbled`).
- If `ngx_esp_upstream_create_request` has no memory, the request is never answered.
- A 2xx other than 200 from service control counts as a passed check;
  `ConvertCheckResponse` looks at the first error only; quota fails open for
  `UNAVAILABLE` only; `streaming_durations` is in microseconds.
- `PassUserInfoOnSuccess` does not answer if the request context is gone; one failed
  OpenID discovery holds for the life of the config, and a late failure wipes a
  URI another request discovered; `test_results(0)` is read before the number of
  results is checked.
- `ExtractRequestParts` drops trailing slashes only, while its comment speaks of
  all empty segments; `/a/**/b` does not match `/a/b`; a template with a verb also
  matches the verb as a segment of its own; a variable behind `**` without a
  wildcard in it is bound by its absolute position (the exception
  in `BindingsAreWhatMatched`).
- A config of weight 0 that is first gets one request. `ProcessBackendRule` splits `host/path` without a scheme.
  `OPTIONS` of a URL with a rule for all methods goes to the CORS method. A
  rewritten URL without `?` leaves the arguments as they were.
- The trace that fills the batch is sent with it, so that one request to the trace
  service may carry one trace more than `cache_max_size`; what waits never exceeds it.
  Traces of methods that skip service control are never sent; a trace header that
  turns tracing off still lets the sampler start a trace.

## Not modelled

The transcoder, the Service Control cache and aggregation, libgrpc and nginx
themselves (outside the repository; modelled by how ESP uses them). Cryptography,
base64, JSON and regular expressions (outcomes or tables). Eviction by size from the
caches, statistics, client-IP extraction, header and metadata contents, channel
credentials, time stamps and labels of spans, spans of checks that outlive their
request. Parsing of nginx directives and of configuration files, the status page,
the bodies of error responses and `start_esp`: formatting and generation of text
without state of their own. Responses to `HEAD` requests, whose body nginx leaves out
(`header_only`). Allocation failures outside `HttpClient`.

## Plan

1. More proofs: the framing of requests; that transcoded calls, too, give the client no
   message out of order.
2. The exit timer of `module.cc` and the GCE metadata; error responses with the
   authorization URL.
3. `ProxyFlow` with the framing of `GrpcBackend` in place of whole messages.
