---------------------------- MODULE SecurityRules ----------------------------
(* Authorization of an authenticated request by the Firebase Rules service   *)
(* (check_security_rules.cc, firebase_rules/firebase_request.cc,             *)
(* auth/authz_cache.cc).  The release names a ruleset; ESP has the service   *)
(* test the request against it, makes the HTTP calls the rules ask for, and  *)
(* tests again with their results, until the service allows or denies.       *)
EXTENDS AuthCheck

CONSTANTS
  RulesEnabled,   \* IsRulesCheckEnabled
  Func,           \* functions a ruleset can call
  BadFunc,        \* those of them whose arguments are not what ESP supports
  MaxCalls,       \* bound: function calls in one test result
  RulesTTL        \* kAuthzCacheTimeout

ASSUME RulesAssumption == RulesEnabled \in BOOLEAN /\ MaxCalls \in Nat /\ RulesTTL \in Nat

VARIABLES
  authz,          \* AuthzCache
  fb,             \* per request: its FirebaseRequest
  verdict         \* history: when the service last allowed and denied a key

rulesVars == <<authz, fb, verdict>>
vars == <<authVars, rulesVars>>

Decision == {"OK", "PERMISSION_DENIED"}
NoEntry == [if_success |-> FALSE, exp |-> Never]

(* A FirebaseRequest: the calls of the last test result, the position in     *)
(* them, the functions with a result, and those whose result is not JSON.    *)
NoFirebase == [calls |-> <<>>, iter |-> 1, funcs_with_result |-> {}, bad |-> {}]

(* ComposeAuthzCacheKey hashes the token, the path and the HTTP method.      *)
ComposeAuthzCacheKey(r) == <<req[r].token, req[r].method.path, req[r].method.verb>>
CacheKey == {<<t, m.path, m.verb>> : t \in Token, m \in Method}

Init ==
  /\ AuthInit
  /\ authz = [k \in CacheKey |-> NoEntry]
  /\ fb = [r \in Request |-> NoFirebase]
  /\ verdict = [k \in CacheKey |-> [OK |-> Never, PERMISSION_DENIED |-> Never]]

(* Calls the final continuation, or goes on with an HTTP request.            *)
FinalContinuation(r, s) ==
  /\ pc' = [pc EXCEPT ![r] = "answered"]
  /\ result' = [result EXCEPT ![r] = s]
  /\ fb' = [fb EXCEPT ![r] = NoFirebase]
Goto(r, p, f) ==
  /\ pc' = [pc EXCEPT ![r] = p]
  /\ fb' = [fb EXCEPT ![r] = f]
  /\ UNCHANGED result

Rest == UNCHANGED <<now, published, seen, jwks, certs, jwtCache, req, answer>>

(* AuthzCache::Lookup finds an entry, and drops it when it has expired.      *)
Lookup(k) == authz[k].exp # Never /\ now <= authz[k].exp

(* AuthzChecker::Check                                                       *)
RulesCheck(r) ==
  /\ pc[r] = "authenticated"
  /\ LET k == ComposeAuthzCacheKey(r) IN
     IF ~RulesEnabled \/ ~req[r].method.auth
     THEN FinalContinuation(r, "OK") /\ UNCHANGED authz
     ELSE IF Lookup(k)
     THEN /\ FinalContinuation(r, IF authz[k].if_success THEN "OK" ELSE "PERMISSION_DENIED")
          /\ UNCHANGED authz
     ELSE /\ Goto(r, "release", NoFirebase)
          /\ authz' = [authz EXCEPT ![k] = NoEntry]
  /\ UNCHANGED verdict /\ Rest

(* The answer to GetRelease: an error, not JSON, without a ruleset, or good; *)
(* then the first test request is made, whose claims must be JSON.           *)
ParseReleaseResponse(r) ==
  /\ pc[r] = "release"
  /\ \/ FinalContinuation(r, "INTERNAL")
     \/ FinalContinuation(r, "INVALID_ARGUMENT")
     \/ Goto(r, "test", NoFirebase)
  /\ UNCHANGED <<authz, verdict>> /\ Rest

(* Faulty variant: whatever the outcome, it is cached.                       *)
InsertCacheAlways(r, s) ==
  authz' = [authz EXCEPT ![ComposeAuthzCacheKey(r)] =
              [if_success |-> s = "OK", exp |-> now + RulesTTL]]

(* InsertCache keeps decisions, not errors.                                  *)
InsertCache(r, s) ==
  IF s \in Decision
  THEN authz' = [authz EXCEPT ![ComposeAuthzCacheKey(r)] =
                   [if_success |-> s = "OK", exp |-> now + RulesTTL]]
  ELSE UNCHANGED authz

(* is_done_: CallNextRequest caches the outcome and hands it on.             *)
Done(r, s) == FinalContinuation(r, s) /\ InsertCache(r, s)

(* Find: a call of the same function with the same arguments has a result.   *)
Find(f, call) == call \in f.funcs_with_result

(* AddFunctionMock: the result of a call, to be passed on, must be JSON.     *)
AddFunctionMock(f, call) == Find(f, call) /\ call \notin f.bad

(* UpdateRulesetRequestBody: a test with the results of the calls asked for. *)
UpdateRulesetRequestBody(f) == \A i \in DOMAIN f.calls : AddFunctionMock(f, f.calls[i])

(* SetNextRequest: the first call whose function has no result yet, if any,  *)
(* unless ProtoToJson cannot print its body; with every call known the test  *)
(* is repeated.                                                              *)
NextCall(f) ==
  LET open == {i \in f.iter..Len(f.calls) : ~Find(f, f.calls[i])}
  IN  IF open = {} THEN Len(f.calls) + 1 ELSE CHOOSE i \in open : \A j \in open : i <= j
SetNextRequest(r, f) ==
  LET g == [f EXCEPT !.iter = NextCall(f)] IN
  IF g.iter <= Len(g.calls)
  THEN (Goto(r, "call", g) /\ UNCHANGED authz)
       \/ \E s \in {"INTERNAL", "INVALID_ARGUMENT"} : Done(r, s)
  ELSE IF UpdateRulesetRequestBody(g) THEN Goto(r, "test", g) /\ UNCHANGED authz
  ELSE Done(r, "INVALID_ARGUMENT")

(* CheckFuncCallArgs: an HTTP URL, a method, perhaps a body, an audience.    *)
CheckFuncCallArgs(call) == call \notin BadFunc

TestResult ==
  [state : {"SUCCESS", "FAILURE"}, results : 1..2,
   calls : UNION {[1..n -> Func] : n \in 0..MaxCalls}]

(* Faulty variant: a failure with all results known is tested again.         *)
TestAgain(r, t) ==
  LET f == [fb[r] EXCEPT !.calls = t.calls, !.iter = 1] IN
  IF t.state = "SUCCESS" THEN Done(r, "OK")
  ELSE IF t.results # 1 THEN Done(r, "INTERNAL")
  ELSE IF \E i \in DOMAIN t.calls : ~CheckFuncCallArgs(t.calls[i]) THEN Done(r, "INVALID_ARGUMENT")
  ELSE SetNextRequest(r, f)

(* ProcessTestRulesetResponse: a failure with calls that have no result yet  *)
(* asks for them; one with all of them known is a denial.                    *)
ProcessTestRulesetResponse(r, t) ==
  LET f == [fb[r] EXCEPT !.calls = t.calls, !.iter = 1] IN
  IF t.state = "SUCCESS" THEN Done(r, "OK")
  ELSE IF t.results # 1 THEN Done(r, "INTERNAL")
  ELSE IF \E i \in DOMAIN t.calls : ~CheckFuncCallArgs(t.calls[i]) THEN Done(r, "INVALID_ARGUMENT")
  ELSE IF \A i \in DOMAIN t.calls : Find(f, t.calls[i])
  THEN Done(r, "PERMISSION_DENIED")
  ELSE SetNextRequest(r, f)

(* History: a well-formed failure with nothing left to ask for.              *)
Denies(r, t) ==
  /\ t.state = "FAILURE" /\ t.results = 1
  /\ \A i \in DOMAIN t.calls : Find(fb[r], t.calls[i]) /\ t.calls[i] \notin BadFunc

(* The answer to a test: an error or nothing, not JSON, or a result.         *)
TestAnswered(r) ==
  /\ pc[r] = "test"
  /\ \/ FinalContinuation(r, "INTERNAL") /\ UNCHANGED <<authz, verdict>>
     \/ Done(r, "INVALID_ARGUMENT") /\ UNCHANGED verdict
     \/ \E t \in TestResult :
          /\ ProcessTestRulesetResponse(r, t)
          /\ verdict' =
               LET k == ComposeAuthzCacheKey(r) IN
               [verdict EXCEPT ![k] =
                  [OK |-> IF t.state = "SUCCESS" THEN now ELSE @.OK,
                   PERMISSION_DENIED |-> IF Denies(r, t) THEN now ELSE @.PERMISSION_DENIED]]
  /\ Rest

(* ProcessFunctionCallResponse: the answer to a call the rules asked for.    *)
CallAnswered(r) ==
  /\ pc[r] = "call"
  /\ \/ FinalContinuation(r, "INTERNAL") /\ UNCHANGED authz
     \/ \E json \in BOOLEAN :
          LET f == fb[r]
              c == f.calls[f.iter]
          IN  SetNextRequest(r, [f EXCEPT !.iter = @ + 1,
                                          !.funcs_with_result = @ \union {c},
                                          !.bad = IF json THEN @ ELSE @ \union {c}])
  /\ UNCHANGED verdict /\ Rest

Step(r) ==
  \/ Serve(r) /\ UNCHANGED rulesVars
  \/ PostFetchJwksUri(r) /\ UNCHANGED rulesVars
  \/ PostFetchPubKey(r) /\ UNCHANGED rulesVars
  \/ RulesCheck(r) \/ ParseReleaseResponse(r) \/ TestAnswered(r) \/ CallAnswered(r)

Next ==
  \/ AuthEnv /\ UNCHANGED rulesVars
  \/ \E r \in Request : (Check(r) /\ UNCHANGED rulesVars) \/ Step(r)

(* The HTTP client answers every request (HttpClient), so every wait ends.   *)
Spec == Init /\ [][Next]_vars /\ \A r \in Request : WF_vars(Step(r))

-----------------------------------------------------------------------------
(* A request to a method with authentication gets through only with a token  *)
(* of an issuer that this method allows, for the service or an audience that *)
(* it allows this very issuer, and one that had not expired when the request *)
(* came, wherever its verification comes from: now, or the cache that        *)
(* another method's request filled.                                          *)
EntitledInTime ==
  \A r \in Request : pc[r] = "authenticated" /\ req[r].method.auth =>
    LET t == req[r].token
        allowed == req[r].method.providers
    IN
    /\ t.iss \in DOMAIN allowed
    /\ t.aud \intersect ({ServiceName} \union allowed[t.iss]) # {}
    /\ req[r].at <= t.exp + Skew

(* The key that signed a token is one the token's own issuer publishes, or   *)
(* did until the answers under way, the key cache and the token cache have   *)
(* run out, in whatever order the answers of concurrent fetches arrive.      *)
RevokedKeyWindow ==
  \A r \in Request : pc[r] = "authenticated" /\ req[r].method.auth =>
    LET t == req[r].token
        last == seen[t.iss][t.signature.by]
    IN  last # Never /\ now <= last + Lag + CertTTL + JwtTTL

(* The rules let a request pass, or refuse it, only if the service said so   *)
(* of this token, path and method no longer ago than the cache keeps it; an  *)
(* error on the way is neither, now or later.                                *)
RulesDecided ==
  \A r \in Request : RulesEnabled /\ pc[r] = "answered" /\ req[r].method.auth =>
    /\ result[r] = "OK" =>
         LET at == verdict[ComposeAuthzCacheKey(r)].OK IN at # Never /\ now <= at + RulesTTL
    /\ result[r] = "PERMISSION_DENIED" /\ isAudienceAllowed(req[r].method, req[r].token) =>
         LET at == verdict[ComposeAuthzCacheKey(r)].PERMISSION_DENIED
         IN  at # Never /\ now <= at + RulesTTL

RulesTypeOK ==
  /\ authz \in [CacheKey -> [if_success : BOOLEAN, exp : Int]]
  /\ verdict \in [CacheKey -> [OK : Int, PERMISSION_DENIED : Int]]
  /\ fb \in [Request -> [calls : Seq(Func), iter : Nat \ {0},
                         funcs_with_result : SUBSET Func, bad : SUBSET Func]]

(* What the checker knows of a request wherever it waits: it is entitled     *)
(* from the moment its token has been parsed on, and still when it is let    *)
(* through or the rules refuse it; while a call of the rules is under way    *)
(* the iterator is at that call.                                             *)
RequestInvariant ==
  /\ \A r \in Request :
       pc[r] \in {"discover", "fetch", "authenticated", "release", "test", "call"} =>
         \/ ~req[r].method.auth /\ pc[r] = "authenticated"
         \/ EntitledTo(req[r].method, req[r].token, req[r].at)
  /\ \A r \in Request : pc[r] = "authenticated" /\ req[r].method.auth =>
       Recent(req[r].token.iss, req[r].token.signature.by, now, Lag + CertTTL + JwtTTL)
  /\ \A r \in Request : pc[r] = "answered" /\ req[r].method.auth =>
       \/ result[r] = "UNAUTHENTICATED"
       \/ result[r] = "PERMISSION_DENIED" /\ ~isAudienceAllowed(req[r].method, req[r].token)
       \/ EntitledTo(req[r].method, req[r].token, req[r].at)
  /\ \A r \in Request : pc[r] = "call" => fb[r].iter \in 1..Len(fb[r].calls)

(* A cached decision is one the service made of that key, and not kept past  *)
(* the time to live of that decision.                                        *)
DecisionInvariant ==
  /\ \A k \in CacheKey : verdict[k].OK <= now /\ verdict[k].PERMISSION_DENIED <= now
  /\ \A k \in CacheKey : authz[k].exp # Never =>
       LET at == IF authz[k].if_success THEN verdict[k].OK ELSE verdict[k].PERMISSION_DENIED
       IN  at # Never /\ authz[k].exp <= at + RulesTTL

SecurityInvariant ==
  /\ AuthTypeOK /\ RulesTypeOK
  /\ KeyInvariant /\ RequestInvariant /\ DecisionInvariant /\ RulesDecided

(* Every request is answered: the rules can ask for a function only while it *)
(* has no result, so they run out of functions to ask for, and a test with   *)
(* all results known is the last one.                                        *)
EveryRequestAnswered ==
  \A r \in Request : pc[r] \notin {"idle", "answered"} ~> pc[r] \in {"idle", "answered"}
=============================================================================
