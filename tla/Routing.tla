------------------------------- MODULE Routing -------------------------------
(* How a request finds its service configuration and its method: the URL is  *)
(* rewritten (module.cc, rewrite_rule.cc), one of the deployed               *)
(* configurations is selected by weight (weighted_selector.cc), and the      *)
(* RequestContext looks up the method, its bindings, the API key and the     *)
(* path at the backend (service_context.cc, request_context.cc).  It also    *)
(* starts the trace of the request, which ends with it (request_handler.cc). *)
EXTENDS ServiceConfig, RewriteRule, CloudTrace

CONSTANTS
  Deployments,      \* what may be deployed: a list of services with weights, rewrite
                    \* rules, the tracing configuration and the project of the server
  Requests(_),      \* the requests that may arrive at a deployment
  Uris,             \* the URIs that may be rewritten
  Escapes,          \* the escaped segments and values, with what they stand for
  MaxOpen(_),       \* bound on the requests open at a time at a deployment
  MaxSelections,    \* bound on the requests served by several services
  MaxTraces,        \* bound on the traces started
  MaxTime           \* bound on the time

(* The scores are floats: up to 2^23 selections they tell an entry that has  *)
(* had its part of a round from one that has not.                            *)
ASSUME BoundAssumption == MaxSelections \in 0..8388608 /\ MaxTraces \in Nat /\ MaxTime \in Nat

(* The weights are the traffic percentages, rounded; an empty list is not    *)
(* deployed.                                                                 *)
ASSUME WeightAssumption ==
  \A d \in Deployments :
    /\ Len(d.list) \in Nat \ {0} /\ DOMAIN d.list = 1..Len(d.list)
    /\ \A i \in DOMAIN d.list : d.list[i].weight \in Nat

(* The configurations deployed are of one service and name its project.      *)
(* Tracing is configured by numbers, durations are at most one.  Of a trace  *)
(* header the first counts; callers' ids stand below 0, apart from the       *)
(* numbers ESP draws.                                                        *)
ASSUME TraceAssumption ==
  \A d \in Deployments :
    /\ \A i \in DOMAIN d.list :
         d.list[i].service.producer_project_id = d.list[1].service.producer_project_id
    /\ ~d.tracing.force_disable =>
         /\ d.tracing.cache_max_size \in Nat
         /\ d.tracing.duration \subseteq Nat /\ \A m, n \in d.tracing.duration : m = n
    /\ \A r \in Requests(d) :
         /\ \A g, h \in r.grpc_trace : g = h
         /\ \A g, h \in r.cloud_trace : g = h /\ h.items \in Seq(Option)
         /\ \A h \in r.grpc_trace \union r.cloud_trace : h.trace_id \in Int \ Nat /\ h.span_id \in Int

VARIABLES
  deployment,       \* the deployment, chosen once
  configs,          \* service_context_map_: the Config of every service deployed
  counts_,          \* WeightedSelector::counts_
  served,           \* ghost: how often each service was selected
  call,             \* the requests at hand, as their RequestContexts
  destination,      \* {} or the last URI and what it was rewritten to
  aggregator,       \* {} or the cloud_trace_aggregator_
  traced,           \* history: the traces of the requests that ended
  ids,              \* the random numbers drawn for traces and spans
  now               \* the time
vars == <<deployment, configs, counts_, served, call, destination, aggregator, traced, ids, now>>
traceVars == <<aggregator, traced, ids, now>>

List == deployment.list
Total(v) ==
  LET sum[n \in 0..Len(v)] == IF n = 0 THEN 0 ELSE sum[n - 1] + v[n]
  IN  sum[Len(v)]

-----------------------------------------------------------------------------
(* Faulty variant: the one used least is taken, whatever its weight.         *)
ScoreLessByCount(list, counts, i, j) == list[i].weight # 0 /\ counts[i] < counts[j]

(* score(i) < score(j), where a weight of 0 divides by zero: the score is    *)
(* not a number at count 0 and infinite after.                               *)
ScoreLess(list, counts, i, j) ==
  /\ list[i].weight # 0
  /\ IF list[j].weight = 0 THEN counts[j] > 0
     ELSE counts[i] * list[j].weight < counts[j] * list[i].weight

(* Select: min_idx[n] is min_idx when the loop has seen n entries; a single  *)
(* entry is not counted.                                                     *)
Select(list, counts) ==
  LET min_idx[n \in 1..Len(list)] ==
        IF n = 1 THEN 1
        ELSE IF ScoreLess(list, counts, n, min_idx[n - 1]) THEN n ELSE min_idx[n - 1]
  IN  min_idx[Len(list)]
Count(list, counts, i) == IF Len(list) = 1 THEN counts ELSE [counts EXCEPT ![i] = @ + 1]

(* GetMethodCallInfo: HEAD is served as GET if there is no rule for it.      *)
FindMethod(config, http_method, path) ==
  FirstHit([i \in 1..(IF http_method = "HEAD" THEN 2 ELSE 1) |->
              Lookup(config.matcher, <<http_method, "GET">>[i], path)])

(* GetRequestHTTPMethodWithOverride                                          *)
HttpMethod(req) == IF req.override = "" THEN req.http_method ELSE req.override

(* FindHeader and FindQuery: the first of the name, {} if its value is       *)
(* empty.  A query parameter without "=" is not seen.                        *)
FirstValue(pairs, name) ==
  LET named == {i \in DOMAIN pairs : pairs[i].name = name}
  IN  IF named = {} THEN {} ELSE {pairs[Min(named)].value} \ {""}
FindHeader(headers, name) == FirstValue(headers, name)
FindQuery(query_params, name) == FirstValue(SelectSeq(query_params, LAMBDA q : q.equals), name)

(* ExtractApiKey: the query parameters and headers the method names, or the  *)
(* default ones, in this order; {} is no key.                                *)
Params(parameters) == [i \in DOMAIN NamesOf(parameters) |-> NamesOf(parameters)[i].param]
QueryKeys(mi) ==
  IF Params(mi.url_query_parameters) # <<>> \/ Params(mi.http_header_parameters) # <<>>
  THEN Params(mi.url_query_parameters) ELSE <<"key", "api_key">>
HeaderKeys(mi) ==
  IF Params(mi.url_query_parameters) # <<>> \/ Params(mi.http_header_parameters) # <<>>
  THEN Params(mi.http_header_parameters) ELSE <<"x-api-key">>
KeyInQuery(mi, req) ==
  FirstHit([i \in DOMAIN QueryKeys(mi) |-> FindQuery(req.query_params, QueryKeys(mi)[i])])
KeyInHeader(mi, req) ==
  FirstHit([i \in DOMAIN HeaderKeys(mi) |-> FindHeader(req.headers, HeaderKeys(mi)[i])])
ExtractApiKey(mi, req) == FirstHit(<<KeyInQuery(mi, req), KeyInHeader(mi, req)>>)

(* GetBackendPath: {} leaves the path alone.                                 *)
JsonName(config, name) ==
  IF name \in DOMAIN config.snake_path_to_json THEN config.snake_path_to_json[name] ELSE name
GetBackendPath(config, mi, bindings, path) ==
  CASE mi.backend_path_translation = "APPEND_PATH_TO_ADDRESS" /\ mi.backend_path # <<>> ->
         {[path |-> mi.backend_path \o path.segments, parameters |-> <<>>]}
    [] mi.backend_path_translation = "CONSTANT_ADDRESS" ->
         {[path |-> mi.backend_path,
           parameters |-> [i \in DOMAIN bindings |->
             [name |-> [n \in DOMAIN bindings[i].field_path |-> JsonName(config, bindings[i].field_path[n])],
              value |-> bindings[i].value]]]}
    [] OTHER -> {}

(* The constructor of RequestContext.                                        *)
MethodCall(config, req) ==
  LET InfoOf(x) ==
        LET mi == config.methods[x.data.selector]
            keep == mi.backend_path_translation = "CONSTANT_ADDRESS"
            parts == ExtractRequestParts(req.path, config.matcher.custom_verbs)
            bindings == ExtractBindingsFromPath(Escapes, x.ht.variables, parts, keep)
                        \o ExtractBindingsFromQueryParameters(Escapes, req.query_params,
                                                              mi.system_query_parameter_names, keep)
        IN  [method |-> mi, body |-> x.data.body, ht |-> x.ht, registered_for |-> x.http_method,
             bindings |-> bindings,
             api_key |-> IF mi.allow_unregistered_calls THEN {} ELSE ExtractApiKey(mi, req),
             api_key_from_query |-> IF mi.allow_unregistered_calls THEN {} ELSE KeyInQuery(mi, req),
             backend_path |-> GetBackendPath(config, mi, bindings, req.path)]
  IN  {InfoOf(x) : x \in FindMethod(config, HttpMethod(req), req.path)}

(* A RequestContext: which of the open requests it belongs to, the request,  *)
(* the service that was selected, the method found, the headers for the      *)
(* backend, how far it is ("check", "passed", "content"), the trace, and the *)
(* header that hands it on.                                                  *)
RequestContext(slot, req, by, found, headers, stage, cloud_trace, trace_header) ==
  [slot |-> slot, req |-> req, by |-> by, found |-> found, headers |-> headers, stage |-> stage,
   cloud_trace |-> cloud_trace, trace_header |-> trace_header]

(* Faulty variant: the new header comes behind the one that is there.        *)
HeaderAppended(headers, key, value) == Append(headers, [name |-> key, value |-> value])

(* AddHeaderToBackend replaces the first header of that name or adds one.    *)
AddHeaderToBackend(headers, key, value) ==
  LET named == {i \in DOMAIN headers : headers[i].name = key}
  IN  IF named = {} THEN Append(headers, [name |-> key, value |-> value])
      ELSE [headers EXCEPT ![Min(named)].value = value]

(* The constructor of RequestHandler: what the client says of itself is not  *)
(* passed on as what ESP has verified.                                       *)
UserInfo == "x-endpoint-api-userinfo"
WithoutUserInfo(headers) ==
  IF FindHeader(headers, UserInfo) # {} THEN AddHeaderToBackend(headers, UserInfo, "") ELSE headers

(* PassUserInfoOnSuccess, which a check of the client's token ends with.     *)
PassUserInfo(found, headers) ==
  IF \E f \in found : f.method.auth THEN AddHeaderToBackend(headers, UserInfo, "verified") ELSE headers

(* AddInstanceIdentityToken: a backend with an audience gets ESP's token,    *)
(* and the client's, if any, beside it.                                      *)
AddInstanceIdentityToken(found, headers, token) ==
  LET own == FindHeader(headers, "authorization")
      kept == IF own = {} THEN headers
              ELSE AddHeaderToBackend(headers, "x-forwarded-authorization", CHOOSE v \in own : TRUE)
  IN  IF token = "" \/ \A f \in found : f.method.backend_jwt_audience = "" THEN headers
      ELSE AddHeaderToBackend(kept, "authorization", token)

(* The trace of a RequestContext; the gRPC header comes first.               *)
CreateTrace(req, sampler) ==
  IF req.grpc_trace # {}
  THEN CreateCloudTrace("GRPC_TRACE_CONTEXT", req.grpc_trace, sampler, ids + 1, now)
  ELSE CreateCloudTrace("CLOUD_TRACE_CONTEXT", req.cloud_trace, sampler, ids + 1, now)

(* ServiceContext::project_id                                                *)
project_id(i) ==
  IF deployment.project_id # "" THEN deployment.project_id
  ELSE List[i].service.producer_project_id

-----------------------------------------------------------------------------
Init ==
  /\ deployment \in Deployments
  /\ configs = <<>>
  /\ counts_ = [i \in DOMAIN deployment.list |-> 0]
  /\ served = counts_
  /\ call = {}
  /\ destination = {}
  /\ aggregator = CreateCloudTraceAggregator(deployment.tracing)
  /\ traced = <<>> /\ ids = 0 /\ now = 0

(* AddAndDeployConfigs: one invalid service refuses the deployment.          *)
AddAndDeployConfigs ==
  /\ configs = <<>>
  /\ \E created \in {[i \in DOMAIN List |-> Create(List[i].service)]} :
       /\ \A i \in DOMAIN List : created[i] # {}
       /\ configs' = [i \in DOMAIN List |-> CHOOSE c \in created[i] : TRUE]
  /\ UNCHANGED <<deployment, counts_, served, call, destination, traceVars>>

(* CreateRequestHandler: SelectService, then RequestContext.  Requests       *)
(* overlap: between here and Report others start and end.                    *)
FreeSlots == 1..MaxOpen(deployment) \ {c.slot : c \in call}
Known == Range(traced) \union UNION {c.cloud_trace : c \in call}
CreateRequestHandler(req) ==
  /\ configs # <<>> /\ FreeSlots # {} /\ Cardinality(Known) < MaxTraces
  /\ \E i \in {Select(List, counts_)} :
     /\ Total(served) < MaxSelections
     /\ counts_' = Count(List, counts_, i)
     /\ served' = Count(List, served, i)
     /\ LET started == {CreateTrace(req, a.sampler) : a \in aggregator}
             cloud_trace == UNION {x.cloud_trace : x \in started}
        IN  /\ call' = call \union
                       {RequestContext(Min(FreeSlots), req, i, MethodCall(configs[i], req),
                                       WithoutUserInfo(req.headers), "check", cloud_trace, {})}
            /\ aggregator' = {[a EXCEPT !.sampler = CreateTrace(req, @).sampler] : a \in aggregator}
            /\ ids' = ids + Cardinality(cloud_trace)
  /\ UNCHANGED <<deployment, configs, destination, traced, now>>

(* The request c goes on as d.                                               *)
GoesOn(c, d) == call' = (call \ {c}) \union {d}

(* The interception of RequestHandler::Check: the request goes on to the     *)
(* backend, in a span of its own (StartBackendSpanAndSetTraceContext), with  *)
(* what authentication found out, if it is not switched off.                 *)
CheckPassed(c) ==
  /\ c.stage = "check"
  /\ \E token \in {"", "esp"}, verified \in {c.headers, PassUserInfo(c.found, c.headers)} :
       GoesOn(c, RequestContext(c.slot, c.req, c.by, c.found,
                                AddInstanceIdentityToken(c.found, verified, token), "passed",
                                {CreateSpan(t, ids + 1) : t \in c.cloud_trace},
                                {ToTraceContextHeader(t, ids + 1) : t \in c.cloud_trace}))
  /\ ids' = ids + Cardinality(c.cloud_trace)
  /\ UNCHANGED <<deployment, configs, counts_, served, destination, aggregator, traced, now>>

(* A trace of the history, with the project it is for.                       *)
EndedFor(t, project) == [t EXCEPT !.trace.project_id = project]

(* RequestHandler::Report, with which the request ends: it hands the trace   *)
(* over, unless service control is skipped for the method.                   *)
Report(c) ==
  /\ call' = call \ {c}
  /\ LET skip == \E f \in c.found : f.method.skip_service_control
         t == CHOOSE x \in c.cloud_trace : TRUE
     IN  /\ aggregator' =
              IF skip \/ c.cloud_trace = {} THEN aggregator
              ELSE {AppendTrace([a EXCEPT !.project_id = project_id(c.by)], EndSpans(t).trace) : a \in aggregator}
         /\ traced' =
              IF c.cloud_trace = {} THEN traced
              ELSE Append(traced, EndedFor(t, IF skip THEN "" ELSE project_id(c.by)))
  /\ UNCHANGED <<deployment, configs, counts_, served, destination, ids, now>>

(* The timer of the aggregator; and ApiManagerImpl::Close.                   *)
AggregatorTimer ==
  /\ \E a \in aggregator : a.timer /\ aggregator' = {SendAndClearTraces(a)}
  /\ UNCHANGED <<deployment, configs, counts_, served, call, destination, traced, ids, now>>
Close ==
  /\ call = {}
  /\ aggregator' = {SendAndClearTraces(a) : a \in aggregator}
  /\ UNCHANGED <<deployment, configs, counts_, served, call, destination, traced, ids, now>>

Tick ==
  /\ aggregator # {} /\ now < MaxTime
  /\ now' = now + 1
  /\ UNCHANGED <<deployment, configs, counts_, served, call, destination, aggregator, traced, ids>>

(* ngx_esp_rewrite_uri                                                       *)
RewriteUri(uri) ==
  /\ deployment.rewrite # <<>>
  /\ destination' = {[uri |-> uri, to |-> ReWriteURL(RewriteRules(deployment.rewrite), uri)]}
  /\ UNCHANGED <<deployment, configs, counts_, served, call, traceVars>>

Next ==
  \/ AddAndDeployConfigs
  \/ \E req \in Requests(deployment) : CreateRequestHandler(req)
  \/ \E c \in call : CheckPassed(c) \/ Report(c)
  \/ AggregatorTimer \/ Close \/ Tick
  \/ \E uri \in Uris : RewriteUri(uri)
Spec == Init /\ [][Next]_vars

-----------------------------------------------------------------------------
(* What the templates of a service promise, without the trie.                *)

(* A template and the parts of a path: ** at the end takes any number of     *)
(* parts, elsewhere at least one; * takes one.                               *)
PartMatches(t, part) == t = part \/ t = "*"
Matches(ht, parts) ==
  LET path == TransformHttpTemplate(ht)
      wild == {i \in DOMAIN path : path[i] = "**"}
      k == IF wild = {} THEN Len(path) + 1 ELSE Min(wild)
      after == Len(path) - k
  IN  IF wild = {} THEN Len(parts) = Len(path) /\ \A i \in DOMAIN path : PartMatches(path[i], parts[i])
      ELSE /\ Len(parts) >= k - 1 + after + (IF after = 0 THEN 0 ELSE 1)
           /\ \A i \in 1..(k - 1) : PartMatches(path[i], parts[i])
           /\ \A j \in 1..after : path[k + j] = parts[Len(parts) - after + j]

(* The precedence of two templates that match the same path: a literal, then *)
(* *, then the end of the template, then **; after a **, the longer one.     *)
Rank(path, i) == IF i > Len(path) THEN 3 ELSE CASE path[i] = "**" -> 4 [] path[i] = "*" -> 2 [] OTHER -> 1
Before(p, q) ==
  LET differ == {i \in 1..(Max({Len(p), Len(q)})) : i > Len(p) \/ i > Len(q) \/ p[i] # q[i]}
      d == Min(differ)
  IN  /\ differ # {}
      /\ IF \E i \in 1..(d - 1) : p[i] = "**" THEN Len(p) > Len(q) ELSE Rank(p, d) < Rank(q, d)

Bindings(service) ==
  {[selector |-> r.selector, http_method |-> r.http_method, url |-> r.url] : r \in Range(service.http)}
  \union UNION {{[selector |-> r.selector, http_method |-> b.http_method, url |-> b.url] :
                   b \in Range(r.additional_bindings)} : r \in Range(service.http)}
  \union {[selector |-> RpcSelector(a), http_method |-> "POST", url |-> <<"/", a.api, "/", a.name>>] :
            a \in {x \in Range(service.apis) : x.api # ""}}
Serves(http_method, asked) == http_method \in {asked, "*"}
Candidates(service, asked, parts) ==
  {b \in Bindings(service) : /\ Serves(b.http_method, asked)
                             /\ \E ht \in HttpTemplateParse(b.url) : Matches(ht, parts)}
PathOf(b) == TransformHttpTemplate(CHOOSE ht \in HttpTemplateParse(b.url) : TRUE)

Service(c) == List[c.by].service
Parts(c) == ExtractRequestParts(c.req.path, configs[c.by].matcher.custom_verbs)
Asked(c) ==
  IF HttpMethod(c.req) = "HEAD" /\ Candidates(Service(c), "HEAD", Parts(c)) = {} THEN "GET"
  ELSE HttpMethod(c.req)
IsCors(c, f) == \A b \in Bindings(Service(c)) : b.selector # f.method.selector
(* The rules that are registered for certain: RPCs, rules, and the           *)
(* additional bindings of a rule that doubles no RPC and no earlier rule.     *)
PathsOf(url) == {TransformHttpTemplate(ht) : ht \in HttpTemplateParse(url)}
Doubles(b, r) == b.http_method = r.http_method /\ PathsOf(b.url) \intersect PathsOf(r.url) # {}
Rpcs(service) ==
  {[http_method |-> "POST", url |-> <<"/", a.api, "/", a.name>>] : a \in {x \in Range(service.apis) : x.api # ""}}
EarlierRules(service, k) ==
  Rpcs(service) \union UNION {{service.http[j]} \union Range(service.http[j].additional_bindings) : j \in 1..(k - 1)}
Has(rules, b) == \E r \in rules : r.http_method = b.http_method /\ r.url = b.url
InForce(service, b) ==
  \/ Has(Rpcs(service) \union Range(service.http), b)
  \/ \E k \in DOMAIN service.http :
       LET r == service.http[k] IN
       /\ Has(Range(r.additional_bindings), b)
       /\ r.http_method # "" /\ PathsOf(r.url) # {}
       /\ \A e \in EarlierRules(service, k) : ~Doubles(e, r)

(* A request goes to the best of the rules of the service that match it: the *)
(* method found has a rule that matches, and one is found if a registered    *)
(* rule matches; no registered rule that matches comes before it in the      *)
(* precedence of templates, nor, for the same template, names the HTTP       *)
(* method where the chosen one only has the wildcard                         *)
(* (PathMatcherNode::LookupPath searches a trie with backtracking instead).  *)
(* Additional bindings of a rule that is refused are not registered, and     *)
(* exempt from the latter (Config::LoadHttpMethods).  Only OPTIONS requests  *)
(* may go to the methods added for CORS.                                     *)
RoutesToBestRule ==
  \A c \in call :
    LET rules == Candidates(Service(c), Asked(c), Parts(c)) IN
    /\ c.found = {} => \A b \in rules : ~InForce(Service(c), b)
    /\ \A f \in c.found :
         LET path == TransformHttpTemplate(f.ht) IN
         /\ Matches(f.ht, Parts(c))
         /\ IF IsCors(c, f) THEN Asked(c) = "OPTIONS" /\ Service(c).allow_cors
            ELSE \E b \in rules : b.selector = f.method.selector /\ PathOf(b) = path
         /\ \A b \in rules : InForce(Service(c), b) =>
              /\ ~Before(PathOf(b), path)
              /\ PathOf(b) = path /\ b.http_method = Asked(c) => f.registered_for = Asked(c)

(* The parts that segment i of a template takes, as the first and the last.  *)
FirstPart(path, i, n) == IF "**" \in Range(SubSeq(path, 1, i - 1)) THEN n - Len(path) + i ELSE i
LastPart(path, i, n) == IF "**" \in Range(SubSeq(path, 1, i)) THEN n - Len(path) + i ELSE i

(* What variable v of the template is to be bound to.                        *)
Value(path, v, parts, keep) ==
  LET several == v.end_segment - v.start_segment > 1 \/ v.has_wildcard_path
  IN  [i \in 1..(LastPart(path, v.end_segment, Len(parts)) - FirstPart(path, v.start_segment + 1, Len(parts)) + 1) |->
         LET part == parts[FirstPart(path, v.start_segment + 1, Len(parts)) + i - 1]
         IN  IF keep THEN part ELSE UrlUnescapeString(Escapes, part, ~several)]

SystemNames(service, selector) ==
  {p.url_query_parameter : p \in UNION {Range(r.parameters) : r \in
     {q \in Range(service.system_parameters) : q.selector = selector}}}

(* Every variable of the template is bound to exactly the parts that its     *)
(* segments match (ExtractBindingsFromPath computes them from positions      *)
(* counted from either end), unless it stands after a **, and an escaped     *)
(* separator is decoded only where the value is a single part.  A query      *)
(* parameter is bound if it is not a system parameter, and never when the    *)
(* method takes its API key from it: the key does not reach the backend as a *)
(* field of the message.                                                     *)
BindingsAreWhatMatched ==
  \A c \in call : \A f \in c.found :
    LET path == TransformHttpTemplate(f.ht)
        n == Len(f.ht.variables)
        keep == f.method.backend_path_translation = "CONSTANT_ADDRESS"
        inQuery == {f.bindings[i].field_path[1] : i \in (n + 1)..Len(f.bindings)}
    IN  /\ \E b \in Bindings(Service(c)) :
             /\ HttpTemplateParse(b.url) = {f.ht}
             /\ \A i \in 1..n :
                  LET v == ParseTemplate(b.url).variables[i] IN
                  "**" \notin Range(SubSeq(path, 1, v.start_segment))
                    => f.bindings[i].value = Value(path, v, Parts(c), keep)
        /\ inQuery \intersect Range(QueryKeys(f.method)) = {}
        /\ \A q \in Range(c.req.query_params) :
             q.name # "" /\ q.equals
               /\ q.name \notin DefaultKeyNames \union SystemNames(Service(c), f.method.selector)
             => q.name \in inQuery

(* The rules that name a method decide whether it asks for authentication,   *)
(* for a key and for service control, the last of them where there are       *)
(* several, and nothing else does: in particular not the methods that are    *)
(* added for CORS, which ask for nothing (AddOptionsMethodForAllUrls).  The  *)
(* backend gets ESP's own token only if the first rule with an address names *)
(* an audience, and then the client's, the first one if it is not empty, is  *)
(* not lost.  The first header with the user's identity is never the         *)
(* client's claim, and ESP's own only where the method asks for              *)
(* authentication; headers of that name behind the first are the client's    *)
(* (UserInfoRemoved).                                                        *)
LastRule(rules, selector) ==
  LET named == {i \in DOMAIN rules : rules[i].selector = selector}
  IN  IF named = {} THEN {} ELSE {rules[Max(named)]}
Audience(rules, selector) ==
  LET named == {i \in DOMAIN rules : rules[i].selector = selector /\ rules[i].address # <<>>}
  IN  IF named = {} THEN "" ELSE rules[Min(named)].jwt_audience
RulesOfTheMethodApply ==
  \A c \in call : \A f \in c.found :
    LET auth == LastRule(Service(c).authentication.rules, f.method.selector)
        usage == LastRule(Service(c).usage, f.method.selector)
    IN  /\ f.method.auth = (\E r \in auth : r.requirements # <<>>)
        /\ f.method.allow_unregistered_calls =
             IF usage = {} THEN IsCors(c, f) ELSE \E r \in usage : r.allow_unregistered_calls
        /\ f.method.skip_service_control = (\E r \in usage : r.skip_service_control)
        /\ [name |-> "authorization", value |-> "esp"] \in Range(c.headers) =>
             /\ c.stage # "check"
             /\ FindHeader(c.headers, "authorization") = {"esp"}
             /\ Audience(Service(c).backend, f.method.selector) # ""
             /\ FindHeader(c.req.headers, "authorization") \subseteq
                  FindHeader(c.headers, "x-forwarded-authorization")
        /\ FindHeader(c.headers, UserInfo) \subseteq
             (IF auth # {} /\ c.stage # "check" THEN {"verified"} ELSE {})

(* What the constructor of RequestHandler says it does:                      *)
(* "Remove x-endponts-api-userinfo from downstream client.                   *)
(* It should be set by the last Endpoint proxy to prevent users spoofing."   *)
UserInfoRemoved ==
  \A c \in call : \A i \in DOMAIN c.headers :
    c.headers[i].name = UserInfo => c.headers[i].value \in {"", "verified"}

(* Whenever a whole number of rounds is over, every configuration has been   *)
(* selected exactly as often as its weight says (WeightedSelector::Select).  *)
(* One with weight 0 is selected once if it comes first, and otherwise never,*)
(* unless all weights are 0.                                                 *)
Weights == [i \in DOMAIN List |-> List[i].weight]
Selected == [i \in DOMAIN List |-> IF Weights[i] = 0 THEN 0 ELSE served[i]]
WeightsKept ==
  Len(List) > 1 /\ Total(Weights) > 0 =>
    /\ \A i \in DOMAIN List : Weights[i] = 0 => served[i] <= (IF i = 1 THEN 1 ELSE 0)
    /\ Total(Selected) % Total(Weights) = 0 =>
         \A i \in DOMAIN List : Selected[i] = Weights[i] * (Total(Selected) \div Total(Weights))

(* What makes it so: no entry is ahead of another by more than one round.    *)
WithinRound(q) ==
  \A i \in DOMAIN List :
    IF Weights[i] = 0 THEN served[i] <= (IF i = 1 THEN 1 ELSE 0)
    ELSE q * Weights[i] <= served[i] /\ served[i] <= (q + 1) * Weights[i]
WeightInvariant ==
  /\ deployment \in Deployments
  /\ served = counts_ /\ served \in [DOMAIN List -> Nat]
  /\ Len(List) > 1 /\ (\E i \in DOMAIN List : Weights[i] # 0) => \E q \in Nat : WithinRound(q)

(* Every trace of a request that has ended, unless service control is        *)
(* skipped for its method or no project is known, is sent once or waits to   *)
(* be, whatever other requests are open meanwhile: with the caller's trace   *)
(* id and span, all spans ended and linked to their parents, in a batch with *)
(* at most the trace that did not fit and the cache_max_size that wait.      *)
(* The backend is told of the same trace, and of a span in it.  A trace      *)
(* nobody asked for starts only when none has started for the sampling       *)
(* period.                                                                   *)
IdOf(trace) == trace.spans[1].span_id
AskedFor(t) == t.trace.trace_id # IdOf(t.trace)
Batches(a) == Append(a.sent, a.traces)
SameTrace(trace, t) == trace.trace_id = t.trace.trace_id /\ trace.spans = EndSpans(t).trace.spans
SentOnce(batches) ==
  \A i, j \in DOMAIN batches : \A k \in DOMAIN batches[i], l \in DOMAIN batches[j] :
    IdOf(batches[i][k]) = IdOf(batches[j][l]) => i = j /\ k = l
SentFits(a) ==
  \A i \in DOMAIN a.sent :
    Len(a.sent[i]) \in 1..(a.cache_max_size + 1) /\ \A j \in DOMAIN a.sent[i] : a.sent[i][j].project_id # ""
Fits(a) == Len(a.traces) <= a.cache_max_size /\ SentFits(a)
Kept(batches, t) == \E i \in DOMAIN batches : \E k \in DOMAIN batches[i] : SameTrace(batches[i][k], t)
Later(t, u, s) == ~AskedFor(t) => \A d \in s.duration : t.trace.start - u.trace.start > d
InOrder(s) == \A t, u \in Known : IdOf(u.trace) < IdOf(t.trace) => Later(t, u, s)
HandedOn(h, t) ==
  /\ h.trace_id = t.trace.trace_id
  /\ \E i \in DOMAIN t.trace.spans :
       t.trace.spans[i].span_id = h.span_id /\ t.trace.spans[i].parent = {IdOf(t.trace)}
  /\ h.options # <<>> /\ t.header_type = h.header_type
TracesSentOnce ==
  \A a \in aggregator :
    /\ SentOnce(Batches(a)) /\ Fits(a)
    /\ \A n \in DOMAIN traced : traced[n].trace.project_id # "" => Kept(Batches(a), traced[n])
    /\ InOrder(a.sampler)
    /\ \A c \in call : \A t \in c.cloud_trace, h \in c.trace_header : HandedOn(h, t)

(* Spans, Traces, the CloudTrace of a request, Samplers and Aggregators.     *)
ProjectIds == {""} \union {d.project_id : d \in Deployments}
              \union UNION {{d.list[i].service.producer_project_id : i \in DOMAIN d.list} : d \in Deployments}
Span == [span_id : Nat, parent : SUBSET Int, ended : BOOLEAN]
Trace == [trace_id : Int, project_id : ProjectIds, start : Nat, spans : Seq(Span)]
RequestTrace == [trace : Trace, options : Seq(Option),
                 header_type : {"GRPC_TRACE_CONTEXT", "CLOUD_TRACE_CONTEXT"}]
SamplerState == [duration : SUBSET Nat, previous : SUBSET Nat]
AggregatorState == [traces : Seq(Trace), project_id : ProjectIds, sampler : SamplerState,
                    cache_max_size : Nat, timer : BOOLEAN, sent : Seq(Seq(Trace))]

(* What makes it so: ids stay apart, also those of the requests at hand;     *)
(* traces wait only for a project that does not change; and the sampler      *)
(* knows when the last trace was started.                                    *)
Spanned(trace) == trace \in Trace /\ trace.spans # <<>> /\ IdOf(trace) <= ids
Started(t) == t \in RequestTrace /\ Spanned(t.trace) /\ t.trace.start <= now
Remembered(t, s) == s.duration # {} => \E p \in s.previous : t.trace.start <= p
CallTraced(c) ==
  /\ c.by \in DOMAIN List
  /\ \A t, u \in c.cloud_trace : t = u
  /\ \A t \in c.cloud_trace :
       /\ Started(t) /\ t.trace.project_id = ""
       /\ t.options # <<>> /\ (t.header_type = "GRPC_TRACE_CONTEXT" => t.options = kDefaultTraceOptions)
       /\ \A h \in c.trace_header : HandedOn(h, t)
SamplerSound(s) ==
  /\ \A d, e \in s.duration : d = e
  /\ \A p, q \in s.previous : p = q
  /\ \A p \in s.previous : p <= now
BatchesSound(a) ==
  /\ SentOnce(Batches(a)) /\ Fits(a)
  /\ \A i \in DOMAIN Batches(a) : \A k \in DOMAIN Batches(a)[i] : Spanned(Batches(a)[i][k])
  /\ a.traces # <<>> => a.project_id = project_id(1)
EndedSound(batches) ==
  \A n \in DOMAIN traced :
    /\ traced[n].trace.project_id \in {"", project_id(1)}
    /\ traced[n].trace.project_id # "" => Kept(batches, traced[n])
StartedSound(batches) ==
  \A c \in call : \A t \in c.cloud_trace :
    /\ \A i \in DOMAIN batches : \A k \in DOMAIN batches[i] : IdOf(batches[i][k]) # IdOf(t.trace)
    /\ \A d \in call : \A u \in d.cloud_trace : IdOf(u.trace) = IdOf(t.trace) => d = c
KnownSound(s) == (\A t \in Known : Started(t) /\ Remembered(t, s)) /\ InOrder(s)
AggregatorSound(a) ==
  /\ a \in AggregatorState
  /\ SamplerSound(a.sampler)
  /\ BatchesSound(a)
  /\ EndedSound(Batches(a))
  /\ StartedSound(Batches(a))
  /\ KnownSound(a.sampler)
TraceInvariant ==
  /\ ids \in Nat /\ now \in Nat
  /\ traced \in Seq(RequestTrace)
  /\ \A c \in call : CallTraced(c)
  /\ \A a, b \in aggregator : a = b
  /\ \A a \in aggregator : AggregatorSound(a)

(* A URI is rewritten by the first valid rule whose pattern matches it, and  *)
(* to what the rule was written to mean: the scanner of the replacement      *)
(* tells text, dollars and references to groups apart.  A dollar that ends   *)
(* the replacement is lost.                                                  *)
Meaning(parts, groups) ==
  FlattenSeq([i \in DOMAIN parts |->
    CASE parts[i].type = "TEXT" -> parts[i].text
      [] parts[i].index < Len(groups) -> groups[parts[i].index + 1]
      [] OTHER -> <<>>])
Dollar == Text(<<"$">>)
WithoutLastDollar(parts) == IF parts # <<>> /\ Last(parts) = Dollar THEN Front(parts) ELSE parts
RewrittenTo(Means(_)) ==
  \A d \in destination :
    LET rules == deployment.rewrite
        first == {i \in DOMAIN rules : ValidateRewriteRule(rules[i]) /\ d.uri \in DOMAIN rules[i].pattern}
    IN  d.to = IF first = {} THEN {}
               ELSE {Meaning(Means(rules[Min(first)]), rules[Min(first)].pattern[d.uri])}
RewritesAsWritten == RewrittenTo(LAMBDA rule : WithoutLastDollar(rule.means))

(* What the header says of the parts of a replacement:                       *)
(* "Parts matched to "(\$[0-9]+)" are REPLACEMENT, others are TEXT".         *)
RewritesAsDocumented == RewrittenTo(LAMBDA rule : rule.means)
=============================================================================
