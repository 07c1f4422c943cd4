------------------------------ MODULE AuthCheck ------------------------------
(* Authentication of a request (check_auth.cc): AuthChecker looks the token  *)
(* up in the cache of verified tokens, else parses it and verifies it with   *)
(* the issuer's keys, which it discovers and fetches over HTTP and caches.   *)
(* The requests of a worker share the caches of their ServiceContext.        *)
EXTENDS JwtValidator, FiniteSets

CONSTANTS
  Request,        \* requests in flight at a time
  Token,          \* tokens, as JwtValidator knows them
  Method,         \* methods: auth, verb, path, and per issuer the audiences it allows
  Credentials,    \* what a request can carry: iap, authorization, query
  Issuer,         \* issuers of the service config
  Discovered,     \* those of them without a jwks_uri: OpenID discovery finds it
  Key,            \* the issuers' keys
  FirstKey,       \* the key each issuer starts with
  Document(_),    \* the key document with a given set of keys
  ServiceName,
  Skew,           \* clock skew gRPC allows for
  CertTTL,        \* jwks_cache_duration_in_s
  JwtTTL,         \* kJwtCacheTimeout
  Lag,            \* assumed: an HTTP answer arrives within this time
  MaxTime,        \* bound: the clock
  NoToken,        \* a credential that is not there
  EmptyToken      \* a header that is there, and empty

Never == -1

(* Methods name issuers of the config, a request carries tokens or nothing,  *)
(* and what an issuer serves holds the keys it publishes and no others.      *)
ASSUME AuthAssumption ==
  /\ {Skew, CertTTL, JwtTTL, Lag, MaxTime} \subseteq Nat
  /\ \A t \in Token : t.exp \in Int
  /\ Method # {} /\ \A m \in Method : m.auth \in BOOLEAN /\ DOMAIN m.providers \subseteq Issuer
  /\ FirstKey \in [Issuer -> Key]
  /\ \A c \in Credentials :
       {c.iap, c.authorization, c.query} \subseteq Token \union {NoToken, EmptyToken}
  /\ \A ks \in (SUBSET Key) \ {{}} :
       LET doc == Document(ks) IN
       /\ Len(doc.keys) \in Nat
       /\ \A i \in 1..Len(doc.keys) : doc.keys[i].key \in ks
       /\ doc.form = "secret" => Len(doc.keys) > 0

VARIABLES
  now,            \* system_clock
  published,      \* keys each issuer's server publishes
  seen,           \* history: when an issuer last published a key
  jwks,           \* issuer_jwks_uri_map_
  certs,          \* issuer_cert_map_
  jwtCache,       \* JwtCache: expiration of the entry of a token
  pc,             \* per request: where its check is
  req,            \* per request: its method and token, and when it came
  answer,         \* per request: the HTTP answer under way
  result          \* per request: what on_done_ was called with

authVars == <<now, published, seen, jwks, certs, jwtCache, pc, req, answer, result>>

NoCert == [doc |-> [form |-> "other", keys |-> <<>>], exp |-> Never]
NoRequest == [method |-> CHOOSE m \in Method : TRUE, token |-> NoToken, at |-> Never]
NoAnswer == [keys |-> {}, at |-> Never]

AuthInit ==
  /\ now = 0
  /\ published = [i \in Issuer |-> {FirstKey[i]}]
  /\ seen = [i \in Issuer |-> [k \in Key |-> IF k \in published[i] THEN 0 ELSE Never]]
  /\ jwks = [i \in Issuer |-> [uri |-> i \notin Discovered, openid |-> i \in Discovered]]
  /\ certs = [i \in Issuer |-> NoCert]
  /\ jwtCache = [t \in Token |-> Never]
  /\ pc = [r \in Request |-> "idle"]
  /\ req = [r \in Request |-> NoRequest]
  /\ answer = [r \in Request |-> NoAnswer]
  /\ result = [r \in Request |-> "none"]

-----------------------------------------------------------------------------
(* An issuer publishes another key instead, one it has not withdrawn before. *)
Rotate(i) ==
  /\ \E k \in Key : /\ seen[i][k] = Never
                    /\ published' = [published EXCEPT ![i] = {k}]
                    /\ seen' = [seen EXCEPT ![i][k] = now]
  /\ UNCHANGED <<now, jwks, certs, jwtCache, pc, req, answer, result>>

(* Time goes by, but no HTTP answer takes longer than Lag, and the code      *)
(* that runs between two HTTP requests takes none.  Answered requests leave. *)
Tick ==
  /\ now < MaxTime
  /\ \A r \in Request : pc[r] # "authenticated"
  /\ \A r \in Request : answer[r].at # Never => now < answer[r].at + Lag
  /\ now' = now + 1
  /\ seen' = [i \in Issuer |->
                [k \in Key |-> IF k \in published[i] THEN now' ELSE seen[i][k]]]
  /\ pc' = [r \in Request |-> IF pc[r] = "answered" THEN "idle" ELSE pc[r]]
  /\ req' = [r \in Request |-> IF pc[r] = "answered" THEN NoRequest ELSE req[r]]
  /\ result' = [r \in Request |-> IF pc[r] = "answered" THEN "none" ELSE result[r]]
  /\ UNCHANGED <<published, jwks, certs, jwtCache, answer>>

(* Where the calls of a handler lead: to an HTTP request, or to on_done_.    *)
Await(r, p) == /\ pc' = [pc EXCEPT ![r] = p]
               /\ answer' = [answer EXCEPT ![r] = NoAnswer]
               /\ result' = [result EXCEPT ![r] = "none"]
OnDone(r, s) == /\ pc' = [pc EXCEPT ![r] = IF s = "OK" THEN "authenticated" ELSE "answered"]
                /\ answer' = [answer EXCEPT ![r] = NoAnswer]
                /\ result' = [result EXCEPT ![r] = s]
Unauthenticated(r) == OnDone(r, "UNAUTHENTICATED")
Unauthorized(r) == OnDone(r, "PERMISSION_DENIED")

(* GetAuthToken: the IAP header, else the Authorization header with or       *)
(* without Bearer, else the query parameter.                                 *)
GetAuthToken(c) ==
  CASE c.iap # NoToken -> c.iap
    [] c.iap = NoToken /\ c.authorization # NoToken -> c.authorization
    [] OTHER -> c.query

(* JwtCache::Insert                                                          *)
JwtCacheInsert(t) ==
  jwtCache' = [jwtCache EXCEPT ![t] = IF t.exp < now + JwtTTL THEN t.exp ELSE now + JwtTTL]

(* The cache without the entry of t, if that has expired.                    *)
Dropped(t) == [jwtCache EXCEPT ![t] = IF now <= @ THEN @ ELSE Never]

(* VerifySignature with the document cached now; store is the key cache.     *)
VerifySignatureOf(r, t, store) ==
  IF store[t.iss].exp # Never /\ VerifySignature(t, store[t.iss].doc)
  THEN JwtCacheInsert(t) /\ OnDone(r, "OK")
  ELSE Unauthenticated(r) /\ jwtCache' = Dropped(t)

(* Faulty variant: a key that was fetched is never fetched again.            *)
CertPresent(c) == c.exp # Never

CertFresh(c) == c.exp # Never /\ now <= c.exp

(* InitKey and Config::GetJwksUri.                                           *)
InitKey(r, t) ==
  IF CertFresh(certs[t.iss]) THEN VerifySignatureOf(r, t, certs)
  ELSE /\ IF jwks[t.iss].uri THEN Await(r, "fetch")
          ELSE IF jwks[t.iss].openid THEN Await(r, "discover")
          ELSE Unauthenticated(r)
       /\ jwtCache' = Dropped(t)

(* Faulty variant: an audience any provider of the method allows will do.    *)
AudienceOfAnyProvider(m, t) ==
  \/ ServiceName \in UpdateAudience(t)
  \/ \E i \in DOMAIN m.providers : UpdateAudience(t) \intersect m.providers[i] # {}

(* issuer_provider_map_ of the method: the service's own name, or an         *)
(* audience that the provider of the token's own issuer allows.              *)
isIssuerAllowed(m, t) == t.iss \in DOMAIN m.providers
isAudienceAllowed(m, t) ==
  \/ ServiceName \in UpdateAudience(t)
  \/ isIssuerAllowed(m, t) /\ UpdateAudience(t) \intersect m.providers[t.iss] # {}

(* CheckAudience, then what the cache says comes next.                       *)
CheckAudience(r, m, t, hit) ==
  IF ~isIssuerAllowed(m, t) THEN Unauthenticated(r) /\ jwtCache' = Dropped(t)
  ELSE IF ~isAudienceAllowed(m, t) THEN Unauthorized(r) /\ jwtCache' = Dropped(t)
  ELSE IF hit THEN OnDone(r, "OK") /\ UNCHANGED jwtCache
  ELSE InitKey(r, t)

(* LookupJwtCache and ParseJwt.                                              *)
LookupJwtCache(r, m, t) ==
  IF jwtCache[t] # Never /\ now <= jwtCache[t] THEN CheckAudience(r, m, t, TRUE)
  ELSE IF Parse(t, now, Skew) THEN CheckAudience(r, m, t, FALSE)
  ELSE Unauthenticated(r) /\ jwtCache' = Dropped(t)

(* AuthChecker::Check of a new request, up to its first HTTP request.        *)
Check(r) ==
  /\ pc[r] \in {"idle", "answered"}
  /\ \E m \in Method, c \in Credentials :
       LET t == GetAuthToken(c) IN
       /\ req' = [req EXCEPT ![r] = [method |-> m, token |-> t, at |-> now]]
       /\ IF ~m.auth THEN OnDone(r, "OK") /\ UNCHANGED jwtCache
          ELSE IF t \in {NoToken, EmptyToken} THEN Unauthenticated(r) /\ UNCHANGED jwtCache
          ELSE LookupJwtCache(r, m, t)
  /\ UNCHANGED <<now, published, seen, jwks, certs>>

(* The server answers; the answer is on its way.                             *)
Serve(r) ==
  /\ pc[r] \in {"discover", "fetch"} /\ answer[r] = NoAnswer
  /\ answer' = [answer EXCEPT ![r] = [keys |-> published[req[r].token.iss], at |-> now]]
  /\ UNCHANGED <<now, published, seen, jwks, certs, jwtCache, pc, req, result>>

(* PostFetchJwksUri: a failure, or a document without jwks_uri, is recorded  *)
(* for the issuer, whatever another request has found out meanwhile.         *)
PostFetchJwksUri(r) ==
  /\ pc[r] = "discover"
  /\ LET i == req[r].token.iss IN
     \/ /\ answer[r] # NoAnswer
        /\ jwks' = [jwks EXCEPT ![i] = [uri |-> TRUE, openid |-> FALSE]]
        /\ Await(r, "fetch")
     \/ /\ jwks' = [jwks EXCEPT ![i] = [uri |-> FALSE, openid |-> FALSE]]
        /\ Unauthenticated(r)
  /\ UNCHANGED <<now, published, seen, certs, jwtCache, req>>

(* PostFetchPubKey: a failure or an empty body leaves the key cache alone.   *)
PostFetchPubKey(r) ==
  /\ pc[r] = "fetch"
  /\ LET t == req[r].token IN
     \/ /\ answer[r] # NoAnswer
        /\ certs' = [certs EXCEPT ![t.iss] =
                       [doc |-> Document(answer[r].keys), exp |-> now + CertTTL]]
        /\ VerifySignatureOf(r, t, certs')
     \/ Unauthenticated(r) /\ UNCHANGED <<certs, jwtCache>>
  /\ UNCHANGED <<now, published, seen, jwks, req>>

AuthEnv == Tick \/ \E i \in Issuer : Rotate(i)

-----------------------------------------------------------------------------
Documents == {NoCert.doc} \union {Document(ks) : ks \in (SUBSET Key) \ {{}}}

AuthTypeOK ==
  /\ now \in Nat
  /\ published \in [Issuer -> (SUBSET Key) \ {{}}]
  /\ seen \in [Issuer -> [Key -> Int]]
  /\ jwks \in [Issuer -> [uri : BOOLEAN, openid : BOOLEAN]]
  /\ certs \in [Issuer -> [doc : Documents, exp : Int]]
  /\ jwtCache \in [Token -> Int]
  /\ pc \in [Request -> {"idle", "discover", "fetch", "authenticated", "release", "test",
                         "call", "answered"}]
  /\ req \in [Request -> [method : Method, token : Token \union {NoToken, EmptyToken},
                          at : Int]]
  /\ answer \in [Request -> [keys : SUBSET Key, at : Int]]
  /\ result \in [Request -> {"none", "OK", "UNAUTHENTICATED", "PERMISSION_DENIED",
                             "INTERNAL", "INVALID_ARGUMENT"}]

(* The method takes this issuer's tokens for this audience, and the token    *)
(* had not expired at the time given.                                        *)
EntitledTo(m, t, at) ==
  t \in Token /\ isIssuerAllowed(m, t) /\ isAudienceAllowed(m, t) /\ at <= t.exp + Skew

(* Issuer i published key k, no longer before the time given than window.    *)
Recent(i, k, time, window) ==
  i \in Issuer /\ k \in Key /\ seen[i][k] # Never /\ time <= seen[i][k] + window

(* The answers under way and the two caches, whoever has filled them: what   *)
(* they hold for an issuer rests on keys this issuer published recently.     *)
KeyInvariant ==
  /\ \A i \in Issuer, k \in Key : seen[i][k] <= now
  /\ \A i \in Issuer : \A k \in published[i] : seen[i][k] = now
  /\ \A r \in Request : answer[r] # NoAnswer =>
       /\ pc[r] \in {"discover", "fetch"}
       /\ answer[r].at \in 0..now /\ now <= answer[r].at + Lag /\ answer[r].keys # {}
       /\ \A k \in answer[r].keys : Recent(req[r].token.iss, k, answer[r].at, 0)
  /\ \A i \in Issuer : certs[i].exp # Never =>
       \E ks \in (SUBSET Key) \ {{}} :
         /\ certs[i].doc = Document(ks)
         /\ \A k \in ks : Recent(i, k, certs[i].exp, Lag + CertTTL)
  /\ \A t \in Token : jwtCache[t] # Never =>
       /\ jwtCache[t] <= t.exp
       /\ Recent(t.iss, t.signature.by, jwtCache[t], Lag + CertTTL + JwtTTL)
=============================================================================
