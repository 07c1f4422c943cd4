------------------------------ MODULE MCRouting ------------------------------
(* An instance of Routing: services with two rules out of every kind of      *)
(* template, services with every kind of rule, and weighted deployments.     *)
EXTENDS GrpcBackend

Templates ==
  { <<"/", "a">>,
    <<"/", "a", "/", "*">>,
    <<"/", "{", "x", "}", "/", "b">>,
    <<"/", "a", "/", "{", "x", "=", "**", "}">>,
    <<"/", "{", "x", "=", "a", "/", "**", "}", "/", "b">>,
    <<"/", "**", "/", "{", "x", "=", "b", "}">>,
    <<"/", "{", "x", "=", "*", "}", "/", "{", "y", ".", "z", "=", "**", "}", ":", "v">>,
    <<"/", "**">>,
    <<"/", "**", "/", "*">>,
    <<"/", "a", "/">> }

Rule(selector, http_method, url) ==
  [selector |-> selector, http_method |-> http_method, url |-> url, body |-> "",
   additional_bindings |-> <<>>]
Plain == [name |-> "service", apis |-> <<>>, http |-> <<>>, allow_cors |-> FALSE,
          authentication |-> [providers |-> <<>>, rules |-> <<>>], usage |-> <<>>,
          system_parameters |-> <<>>, backend |-> <<>>, quota |-> <<>>, types |-> <<>>,
          producer_project_id |-> "p"]
Disabled == [force_disable |-> TRUE]
Single(service) == [list |-> <<[service |-> service, weight |-> 100]>>, rewrite |-> <<>>,
                    tracing |-> Disabled, project_id |-> "", grpc |-> {}]

TwoRules ==
  {[Plain EXCEPT !.http = <<Rule("First", m, t), Rule("Second", n, u)>>, !.allow_cors = cors] :
     m \in {"GET", "*"}, n \in {"GET", "OPTIONS"}, t, u \in Templates, cors \in BOOLEAN}

Bound == [http_method |-> "GET", url |-> <<"/", "b">>, body |-> ""]
Full ==
  [Plain EXCEPT
     !.apis = <<[api |-> "", name |-> "None"], [api |-> "a", name |-> "b"]>>,
     !.http = <<[Rule("a.b", "GET", <<"/", "{", "x_y", "}">>) EXCEPT !.additional_bindings = <<Bound>>],
                [Rule("CORS", "GET", <<"/", "{", "z", "}">>) EXCEPT !.additional_bindings = <<Bound>>],
                Rule("CORS", "GET", <<"/", "a", "/", "{", "z", "}">>),
                Rule("Empty", "", <<"/", "a">>)>>,
     !.allow_cors = TRUE,
     !.authentication =
        [providers |-> <<[id |-> "p", issuer |-> "i", jwks_uri |-> "", audiences |-> {}, authorization_url |-> ""],
                         [id |-> "", issuer |-> "i", jwks_uri |-> "", audiences |-> {}, authorization_url |-> ""]>>,
         rules |-> <<[selector |-> "a.b", requirements |-> <<[provider_id |-> "p", audiences |-> {"me"}],
                                                             [provider_id |-> "q", audiences |-> {}]>>],
                     [selector |-> "Unknown", requirements |-> <<>>]>>],
     !.usage = <<[selector |-> "a.b", allow_unregistered_calls |-> TRUE, skip_service_control |-> FALSE],
                 [selector |-> "a.b", allow_unregistered_calls |-> FALSE, skip_service_control |-> TRUE]>>,
     !.backend = <<[selector |-> "a.b", address |-> <<"https:", "", "host", "p", "">>,
                    path_translation |-> "CONSTANT_ADDRESS", jwt_audience |-> "host"],
                   [selector |-> "a.b", address |-> <<"other">>, path_translation |-> "UNSPECIFIED", jwt_audience |-> ""],
                   [selector |-> "CORS", address |-> <<"host", "p">>,
                    path_translation |-> "APPEND_PATH_TO_ADDRESS", jwt_audience |-> ""]>>,
     !.quota = <<[selector |-> "a.b", metric_costs |-> <<[metric |-> "read", cost |-> 1]>>]>>,
     !.types = <<[name |-> "x_y", json_name |-> "xY", snake |-> TRUE]>>]

(* The ways a method may name its key, and a quota rule without a method.    *)
Parameter(header, query) == [name |-> "api_key", http_header |-> header, url_query_parameter |-> query]
Variants ==
  {Full, [Full EXCEPT !.quota = <<[selector |-> "Unknown", metric_costs |-> <<>>]>>]} \union
  {[Full EXCEPT !.system_parameters = <<[selector |-> s, parameters |-> <<p>>]>>] :
     s \in {"a.b", "CORS"}, p \in {Parameter("", "t"), Parameter("h", ""), Parameter("h", "t")}}

Weighted(w) ==
  [list |-> [i \in DOMAIN w |-> [service |-> [Plain EXCEPT !.http = <<Rule("M", "GET", <<"/", "a">>)>>],
                                 weight |-> w[i]]], rewrite |-> <<>>,
   tracing |-> Disabled, project_id |-> "", grpc |-> {}]
WeightLists == { <<1, 1>>, <<1, 3>>, <<3, 2>>, <<0, 2>>, <<2, 0>>, <<2, 1, 2>>, <<1, 2, 0>>, <<0, 0>> }

(* Rewrite rules: what they mean, and how that is written.                   *)
Written(part) ==
  IF part.type = "TEXT" THEN part.text
  ELSE IF part.index = 12 THEN <<"$", "1", "2">> ELSE <<"$", IF part.index = 0 THEN "0" ELSE "1">>
Meanings ==
  {<<Text(<<"/">>), p, q>> : p \in {Replacement(0), Replacement(1), Replacement(12), Text(<<"$">>)},
                             q \in {Replacement(1), Text(<<"b">>)}}
  \union {<<Text(<<"/">>), Text(<<"$">>), Text(<<"$">>), Replacement(1)>>}
  \union {<<Text(<<"/">>), p, Text(<<"$">>)>> : p \in {Replacement(1), Text(<<"$">>), Text(<<"b">>)}}
RewriteTo(means, pattern, compiles) ==
  [means |-> means, replacement |-> FlattenSeq([i \in DOMAIN means |-> Written(means[i])]),
   pattern |-> pattern, words |-> 2, absolute |-> FALSE, compiles |-> compiles]
OnA == "a" :> << <<"a">>, <<"a", "a">> >>
OnBoth == OnA @@ ("b" :> << <<"b">> >>)
Rewriting ==
  {[Single(Plain) EXCEPT !.rewrite = <<RewriteTo(m, OnA, c), RewriteTo(n, OnBoth, TRUE)>>] :
     m, n \in Meanings, c \in BOOLEAN}

(* Tracing: with and without a sampler, a timer and a project.  Requests     *)
(* overlap where there are both a sampler and a timer.                       *)
Traced(service, duration, size, time, project) ==
  [Single(service) EXCEPT
     !.tracing = [force_disable |-> FALSE, duration |-> duration, cache_max_size |-> size,
                  time_millisec |-> time],
     !.project_id = project]
Skipping ==
  [Plain EXCEPT
     !.http = <<Rule("M", "GET", <<"/", "a">>), Rule("S", "GET", <<"/", "b">>)>>,
     !.usage = <<[selector |-> "S", allow_unregistered_calls |-> FALSE, skip_service_control |-> TRUE]>>,
     !.producer_project_id = ""]
Tracing ==
  {Traced(Skipping, d, 1, 0, "p") : d \in {{}, {1}}} \union
  {Traced(Skipping, {1}, n, 1000, p) : n \in {0, 1}, p \in {"", "p"}}

(* gRPC backends: an address from grpc_pass or from the service, or none.     *)
Rpc(backend) ==
  [Plain EXCEPT !.apis = <<[api |-> "a", name |-> "b"]>>,
                !.http = <<[Rule("a.b", "POST", <<"/", "a">>) EXCEPT !.body = "*"],
                           Rule("M", "POST", <<"/", "b">>)>>,
                !.backend = backend]
OwnBackend == <<[selector |-> "a.b", address |-> <<"own">>, path_translation |-> "UNSPECIFIED",
                 jwt_audience |-> ""]>>
Passing(backend, override, fallback) ==
  [Single(Rpc(backend)) EXCEPT !.grpc = {[override |-> override, fallback |-> fallback]}]
GrpcPassing ==
  {Passing(<<>>, <<>>, <<"fallback">>), Passing(OwnBackend, <<>>, <<"fallback">>),
   Passing(OwnBackend, <<"override">>, <<>>), Passing(<<>>, <<>>, <<>>)}

OneService == {Single(Full)}
MCDeployments ==
  {Single(s) : s \in TwoRules \union Variants} \union {Weighted(w) : w \in WeightLists} \union Rewriting
  \union Tracing \union GrpcPassing

Path(segments, verb) == [segments |-> segments, verb |-> verb]
Request(http_method, path) ==
  [http_method |-> http_method, override |-> "", path |-> path, query_params |-> <<>>, headers |-> <<>>,
   grpc_trace |-> {}, cloud_trace |-> {}, content_type |-> "", messages |-> <<>>]
Paths ==
  {Path(s, "") : s \in UNION {[1..n -> {"a", "b"}] : n \in 1..3}} \union
  {Path(s, "") : s \in {<<"">>, <<"a", "">>, <<"a", "", "b">>, <<"a%2Fb", "b">>, <<"a", "a%2Fb">>}} \union
  {Path(s, "v") : s \in {<<"a">>, <<"a", "b">>, <<"b", "a", "a">>}}
Header(name, value) == [name |-> name, value |-> value]
WithQuery ==
  {[Request("GET", Path(<<"a%2Fb">>, "")) EXCEPT
      !.query_params = <<[name |-> q, equals |-> TRUE, value |-> "k"], [name |-> "f", equals |-> TRUE, value |-> "a%2Fb"],
                         [name |-> "g", equals |-> FALSE, value |-> ""]>>,
      !.headers = <<Header(h, "k")>>] : q \in {"key", "api_key", "t", "f"}, h \in {"h", "x-api-key"}}

(* A header may be there twice, and the first may be empty.                  *)
Identities ==
  UNION {{<<>>, <<Header(n, "client")>>, <<Header(n, "client"), Header(n, "other")>>,
          <<Header(n, ""), Header(n, "client")>>} : n \in {"authorization", UserInfo}}
  \union {<<Header("authorization", "client"), Header(UserInfo, "client")>>,
          <<Header("x-forwarded-authorization", "other"), Header("authorization", "client")>>}
WithIdentity ==
  {[Request("POST", Path(<<"a", "b">>, "")) EXCEPT !.headers = h] : h \in Identities}

(* Trace headers: the caller's trace is -1, its span -2.                     *)
Item(o, value) == [o |-> o, value |-> value]
CloudHeader(valid, span_id, items) ==
  [trace_id |-> -1, trace_id_valid |-> valid, span_id |-> span_id, span_id_valid |-> TRUE, items |-> items]
Enabled == CloudHeader(TRUE, -2, <<Item(FALSE, 0), Item(TRUE, 3)>>)
CloudHeaders ==
  {Enabled, CloudHeader(FALSE, -2, <<Item(TRUE, 3)>>), CloudHeader(TRUE, 0, <<Item(TRUE, 1), Item(TRUE, 0)>>)}
GRpcHeaders ==
  {[trace_id |-> -1, trace_id_valid |-> TRUE, span_id |-> -2, well_formed |-> w, enabled |-> TRUE] :
     w \in BOOLEAN}
Overlapping ==
  {Request("GET", Path(<<"a">>, ""))} \union
  {[Request("GET", Path(<<s>>, "")) EXCEPT !.cloud_trace = {Enabled}] : s \in {"a", "b"}}
WithTrace ==
  Overlapping \union {[Request("GET", Path(<<"a">>, "")) EXCEPT !.cloud_trace = {h}] : h \in CloudHeaders}
  \union {[Request("GET", Path(<<"a">>, "")) EXCEPT !.grpc_trace = {h}] : h \in GRpcHeaders}

(* Bodies: messages that are empty, compressed, and longer than a byte says. *)
Message(flag, payload) == [flag |-> flag, payload |-> payload]
Bodies == { <<Message(0, <<1, 0, 2, 3>>), Message(1, <<2, 1>>)>>, <<Message(0, <<>>), Message(0, <<3>>)>> }
Posted(segments, type, messages) ==
  [Request("POST", Path(segments, "")) EXCEPT !.content_type = type, !.messages = messages]
WithBody ==
  {Posted(<<"a", "b">>, t, m) : t \in {"grpc", "grpc-web"}, m \in Bodies}
  \union {[Posted(<<"a">>, "json", m) EXCEPT
             !.query_params = <<[name |-> "key", equals |-> TRUE, value |-> "k"]>>] : m \in Bodies}
WithoutBody == {Posted(s, t, <<>>) : s \in {<<"a">>, <<"b">>}, t \in {"grpc", "json"}}

MCChunks == {1, 4, 6}
MCLeftovers(n) == {[i \in 1..n |-> b] : b \in {0, 1}}
MCReplies == { << <<1>>, <<2, 3>> >>, << <<>> >>, <<>> }
Ended(code, message, trailers) == [code |-> code, message |-> message, trailers |-> trailers]
MCEnds ==
  {Ended(OK, 0, <<>>), Ended(OK, 3, <<>>),
   Ended(NOT_FOUND, 3, <<[name |-> "t", value |-> "v", name_size |-> 1, value_size |-> 1]>>),
   Ended(UNAUTHENTICATED, 0, <<>>)}

Overlap(d) == d.tracing # Disabled /\ d.tracing.time_millisec # 0
MCRequests(d) ==
  IF d.rewrite # <<>> THEN {}
  ELSE IF d = Passing(<<>>, <<>>, <<"fallback">>) THEN WithBody
  ELSE IF d.grpc # {} THEN WithoutBody
  ELSE IF Overlap(d) THEN Overlapping
  ELSE IF d.tracing # Disabled THEN WithTrace
  ELSE {Request("GET", p) : p \in Paths} \union WithQuery \union WithIdentity
       \union {Request(m, p) : m \in {"HEAD", "OPTIONS"}, p \in {p \in Paths : Len(p.segments) < 3 /\ p.verb = ""}}
       \union {[Request("GET", Path(<<"a", "b">>, "")) EXCEPT !.override = "POST"]}
MCMaxOpen(d) == IF Overlap(d) THEN 2 ELSE 1
MCEscapes == {[part |-> "a%2Fb", plain |-> "a/b", reserved |-> TRUE]}
MCUris == {"a", "b", "c"}
=============================================================================
