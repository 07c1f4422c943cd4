---------------------------- MODULE ServiceConfig ----------------------------
(* What Config::Create (config.cc) makes of a service configuration: the     *)
(* methods with their rules (method_impl.cc) and the path matcher.  A rule   *)
(* that cannot be used is logged and skipped; only a quota rule without a    *)
(* method refuses the configuration.                                         *)
EXTENDS PathMatcher, FiniteSets, FiniteSetsExt, TLC

(* typed: the type URLs of the request and the response are set.             *)
MethodInfoImpl(selector, rpc_method_full_name) ==
  [selector |-> selector, rpc_method_full_name |-> rpc_method_full_name, typed |-> FALSE,
   auth |-> FALSE, providers |-> {}, allow_unregistered_calls |-> FALSE,
   skip_service_control |-> FALSE, http_header_parameters |-> <<>>,
   url_query_parameters |-> <<>>, system_query_parameter_names |-> {},
   backend_address |-> <<>>, backend_path |-> <<>>,
   backend_path_translation |-> "UNSPECIFIED", backend_jwt_audience |-> "",
   metric_cost |-> <<>>]

EmptyConfig == [methods |-> <<>>, matcher |-> EmptyMatcher, all_urls |-> {},
                issuer_jwks_uri |-> <<>>, snake_path_to_json |-> <<>>]

GetOrCreateMethodInfoImpl(c, selector, path) ==
  [c EXCEPT !.methods = @ @@ (selector :> MethodInfoImpl(selector, path))]

(* What a step that may refuse gives: its result, or what was there before.  *)
OrKeep(results, old) == IF results = {} THEN old ELSE CHOOSE r \in results : TRUE

(* For the rules that name a method: utils::FindOrNull in method_map_.       *)
Update(c, selector, Set(_)) ==
  IF selector \in DOMAIN c.methods THEN [c EXCEPT !.methods[selector] = Set(@)] ELSE c

-----------------------------------------------------------------------------
(* PathMatcherBuilder::Register of a method; {} if it is refused.            *)
RegisterMethod(c, selector, http_method, url, body) ==
  {[c EXCEPT !.matcher = m] :
     m \in Register(c.matcher, http_method, url, [selector |-> selector, body |-> body])}

(* LoadRpcMethods: every method of an API is a POST to /api/method.          *)
RpcSelector(rpc) == rpc.api \o "." \o rpc.name
LoadRpcMethods(c, apis) ==
  LET Path(rpc) == <<"/", rpc.api, "/", rpc.name>>
      Typed(d, rpc) == [d EXCEPT !.methods[RpcSelector(rpc)].typed = TRUE]
      Add(d, rpc) == OrKeep(RegisterMethod(d, RpcSelector(rpc), "POST", Path(rpc), ""), d)
      Load(d, rpc) == IF rpc.api = "" THEN d
                      ELSE Add(Typed(GetOrCreateMethodInfoImpl(d, RpcSelector(rpc), Path(rpc)), rpc), rpc)
  IN  FoldLeft(Load, c, apis)

(* RegisterHttpRule: the URLs of OPTIONS rules are not candidates for CORS.  *)
RegisterHttpRule(c, selector, rule) ==
  IF rule.http_method = "" \/ rule.url = <<>> THEN {}
  ELSE {[d EXCEPT !.all_urls = @ \union (IF rule.http_method = "OPTIONS" THEN {} ELSE {rule.url})] :
          d \in RegisterMethod(c, selector, rule.http_method, rule.url, rule.body)}

CorsSelector(c) ==
  LET Name(n) == IF n = 0 THEN "CORS" ELSE "CORS." \o ToString(n)
  IN  Name(Min({n \in 0..Cardinality(DOMAIN c.methods) : Name(n) \notin DOMAIN c.methods}))

(* AddOptionsMethodForAllUrls; a URL with an OPTIONS rule keeps it.          *)
AddOptionsMethodForAllUrls(c) ==
  LET selector == CorsSelector(c)
      created == Update(GetOrCreateMethodInfoImpl(c, selector, <<selector>>), selector,
                        LAMBDA mi : [mi EXCEPT !.auth = FALSE, !.allow_unregistered_calls = TRUE])
      AddOptions(url, d) == OrKeep(RegisterMethod(d, selector, "OPTIONS", url, ""), d)
  IN  FoldSet(AddOptions, created, c.all_urls)

(* LoadHttpMethods: the additional bindings of a rule that was refused are   *)
(* not registered.                                                           *)
LoadHttpMethods(c, http, allow_cors) ==
  LET Add(d, rule, bindings) ==
        FoldLeft(LAMBDA e, b : OrKeep(RegisterHttpRule(e, rule.selector, b), e), d, bindings)
      Load(d, rule) ==
        LET e == GetOrCreateMethodInfoImpl(d, rule.selector, <<rule.selector>>)
        IN  OrKeep({Add(f, rule, rule.additional_bindings) : f \in RegisterHttpRule(e, rule.selector, rule)}, e)
      Finish(d) == IF allow_cors THEN AddOptionsMethodForAllUrls(d) ELSE d
  IN  Finish(FoldLeft(Load, c, http))

-----------------------------------------------------------------------------
(* SetJwksUri; an issuer is known by its URL without scheme.                 *)
SetJwksUri(c, issuer, jwks_uri) ==
  [c EXCEPT !.issuer_jwks_uri = (issuer :> [jwks_uri |-> jwks_uri, openid_valid |-> jwks_uri = ""]) @@ @]

(* addAuthProvider: audiences add up, the last authorization URL stays.      *)
AddAuthProvider(mi, provider, audiences) ==
  LET same == {p \in mi.providers : p.issuer = provider.issuer}
  IN  [mi EXCEPT !.providers = (@ \ same) \union
         {[issuer |-> provider.issuer, authorization_url |-> provider.authorization_url,
           audiences |-> audiences \union UNION {p.audiences : p \in same}]}]

(* LoadAuthentication: a rule whose providers are all unknown still asks for *)
(* authentication.                                                           *)
LoadAuthentication(c, authentication) ==
  LET usable == SelectSeq(authentication.providers, LAMBDA p : p.id # "" /\ p.issuer # "")
      Issuer(d, p) == SetJwksUri(d, p.issuer, p.jwks_uri)
      Provider(id) == {usable[i] : i \in {j \in DOMAIN usable :
                         usable[j].id = id /\ \A k \in DOMAIN usable : usable[k].id = id => k <= j}}
      Require(mi, requirement) ==
        LET found == Provider(requirement.provider_id) IN
        IF found = {} THEN mi
        ELSE LET p == CHOOSE q \in found : TRUE
             IN  AddAuthProvider(mi, p, IF p.audiences = {} THEN requirement.audiences ELSE p.audiences)
      Rule(d, rule) ==
        Update(d, rule.selector,
               LAMBDA mi : FoldLeft(Require, [mi EXCEPT !.auth = rule.requirements # <<>>],
                                    rule.requirements))
  IN  FoldLeft(Rule, FoldLeft(Issuer, c, usable), authentication.rules)

LoadUsage(c, usage) ==
  FoldLeft(LAMBDA d, rule :
             Update(d, rule.selector,
                    LAMBDA mi : [mi EXCEPT !.allow_unregistered_calls = rule.allow_unregistered_calls,
                                           !.skip_service_control = rule.skip_service_control]),
           c, usage)

(* api_key_http_headers, api_key_url_query_parameters: <<>> for nullptr.     *)
NamesOf(parameters) == SelectSeq(parameters, LAMBDA p : p.name = "api_key")
DefaultKeyNames == {"key", "api_key"}

ProcessSystemQueryParameterNames(mi) ==
  [mi EXCEPT !.system_query_parameter_names =
     {p.param : p \in Range(mi.url_query_parameters)} \union
     (IF NamesOf(mi.http_header_parameters) = <<>> /\ NamesOf(mi.url_query_parameters) = <<>>
      THEN DefaultKeyNames ELSE {})]

LoadSystemParameters(c, system_parameters) ==
  LET Add(mi, p) ==
        IF p.name = "" THEN mi
        ELSE [mi EXCEPT !.http_header_parameters =
                          IF p.http_header = "" THEN @
                          ELSE Append(@, [name |-> p.name, param |-> p.http_header]),
                        !.url_query_parameters =
                          IF p.url_query_parameter = "" THEN @
                          ELSE Append(@, [name |-> p.name, param |-> p.url_query_parameter])]
      Rule(d, rule) == Update(d, rule.selector, LAMBDA mi : FoldLeft(Add, mi, rule.parameters))
      Finish(d) == [d EXCEPT !.methods = [s \in DOMAIN @ |-> ProcessSystemQueryParameterNames(@[s])]]
  IN  Finish(FoldLeft(Rule, c, system_parameters))

(* process_backend_rule: an address is its parts between slashes.  The       *)
(* third slash begins the path; with a single slash the search wraps round   *)
(* and finds that one.                                                       *)
PathStart(address) ==
  LET slashes == Len(address) - 1
  IN  IF slashes = 1 THEN 1 ELSE IF slashes >= 3 THEN 3 ELSE 0
ProcessBackendRule(mi, rule) ==
  LET address == IF Last(rule.address) = "" THEN Front(rule.address) ELSE rule.address
      start == PathStart(address)
      path == IF start = 0 THEN <<>> ELSE SubSeq(address, start + 1, Len(address))
  IN  [mi EXCEPT !.backend_address = IF start = 0 THEN address ELSE SubSeq(address, 1, start),
                 !.backend_path = IF path = <<>> /\ rule.path_translation = "CONSTANT_ADDRESS"
                                  THEN <<"">> ELSE path,
                 !.backend_path_translation = rule.path_translation,
                 !.backend_jwt_audience = rule.jwt_audience]

(* LoadBackends: the first rule of a method is kept.                         *)
LoadBackends(c, backend) ==
  FoldLeft(LAMBDA d, rule :
             IF rule.address = <<>> THEN d
             ELSE Update(d, rule.selector,
                         LAMBDA mi : IF mi.backend_address # <<>> THEN mi
                                     ELSE ProcessBackendRule(mi, rule)),
           c, backend)

(* LoadQuotaRule, where every rule has a method.                             *)
LoadQuotaRule(c, quota) ==
  FoldLeft(LAMBDA d, rule :
             Update(d, rule.selector, LAMBDA mi : [mi EXCEPT !.metric_cost = @ \o rule.metric_costs]),
           c, quota)

(* LoadTypes: field names in snake case and their names in JSON.             *)
LoadTypes(c, types) ==
  FoldLeft(LAMBDA d, field : IF ~field.snake THEN d
                             ELSE [d EXCEPT !.snake_path_to_json = @ @@ (field.name :> field.json_name)],
           c, types)

(* Config::Create; {} stands for nullptr.                                    *)
LoadMethods(service) == LoadHttpMethods(LoadRpcMethods(EmptyConfig, service.apis), service.http, service.allow_cors)
LoadRules(c, service) ==
  LoadBackends(LoadSystemParameters(LoadUsage(LoadAuthentication(c, service.authentication), service.usage),
                                    service.system_parameters),
               service.backend)
Create(service) ==
  IF service.name = "" THEN {}
  ELSE {LoadTypes(LoadQuotaRule(c, service.quota), service.types) :
          c \in {d \in {LoadRules(LoadMethods(service), service)} :
                   \A rule \in Range(service.quota) : rule.selector \in DOMAIN d.methods}}
=============================================================================
