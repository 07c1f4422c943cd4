------------------------- MODULE SecurityRulesProofs -------------------------
(* Proofs about SecurityRules: for any set of requests, tokens, methods,     *)
(* issuers, keys and functions, a request is authenticated only when it is   *)
(* entitled to its method and by a key its token's issuer published recently *)
(* enough, and the rules decide only what the service has said.              *)
EXTENDS SecurityRules, WellFoundedInduction, TLAPS

-----------------------------------------------------------------------------
(* A nonempty set of numbers has a least one.                                *)
LEMMA Least ==
  ASSUME NEW S, S \subseteq Nat, S # {}
  PROVE  \E x \in S : \A y \in S : x <= y
<1>1. PICK x \in S : \A y \in S : ~(<<y, x>> \in OpToRel(<, Nat))
  BY WFMin, NatLessThanWellFounded, Zenon
<1>2. \A y \in S : <<y, x>> \in Nat \X Nat
  OBVIOUS
<1>3. \A y \in S : ~(<<y, x>>[1] < <<y, x>>[2])
  BY <1>1, <1>2, Zenon DEF OpToRel
<1> QED
  BY <1>3

(* A signature passes only if an entry of the document has made it.          *)
LEMMA SignatureNeedsEntry ==
  ASSUME NEW t, NEW doc, VerifySignature(t, doc), Len(doc.keys) \in Nat,
         doc.form = "secret" => Len(doc.keys) > 0
  PROVE  \E i \in 1..Len(doc.keys) : doc.keys[i].key = t.signature.by
<1>1. CASE t.alg \in RSAlg \union {"ES256"}
  <2>1. VerifyAsymSignature(t, doc)
    BY <1>1 DEF VerifySignature
  <2>2. CASE doc.form = "jwks"
    BY <2>1, <2>2 DEF VerifyAsymSignature, ExtractAndVerifyJwkKeys, VerifyPubkey,
                      VerifyPubkeyRSA, VerifyPubkeyEC
  <2>3. CASE doc.form = "x509"
    BY <2>1, <2>3 DEF VerifyAsymSignature, ExtractAndVerifyX509Keys, VerifyPubkey,
                      VerifyPubkeyRSA, VerifyPubkeyEC
  <2>4. CASE doc.form \notin {"jwks", "x509"}
    BY <2>1, <2>4 DEF VerifyAsymSignature
  <2> QED
    BY <2>2, <2>3, <2>4
<1>2. CASE t.alg \notin RSAlg \union {"ES256"}
  <2>1. VerifyHsSignature(t, doc)
    BY <1>2 DEF VerifySignature
  <2> QED
    BY <2>1 DEF VerifyHsSignature
<1> QED
  BY <1>1, <1>2

(* What an issuer serves verifies tokens signed with a key it publishes.     *)
LEMMA SignatureNeedsKey ==
  ASSUME NEW t, NEW ks \in (SUBSET Key) \ {{}}, VerifySignature(t, Document(ks))
  PROVE  t.signature.by \in ks
<1> DEFINE doc == Document(ks)
<1>1. /\ Len(doc.keys) \in Nat
      /\ \A i \in 1..Len(doc.keys) : doc.keys[i].key \in ks
      /\ doc.form = "secret" => Len(doc.keys) > 0
  BY AuthAssumption
<1> HIDE DEF doc
<1>2. VerifySignature(t, doc)
  BY DEF doc
<1> QED
  BY <1>1, <1>2, SignatureNeedsEntry

LEMMA Constants ==
  /\ Skew \in Nat /\ CertTTL \in Nat /\ JwtTTL \in Nat /\ Lag \in Nat /\ MaxTime \in Nat
  /\ \A t \in Token : t.exp \in Int
  /\ \A m \in Method : m.auth \in BOOLEAN /\ DOMAIN m.providers \subseteq Issuer
BY AuthAssumption

-----------------------------------------------------------------------------
(* Await and OnDone in one form: where the request goes, with which result.  *)
Goes(r, p, s) ==
  /\ pc' = [pc EXCEPT ![r] = p]
  /\ answer' = [answer EXCEPT ![r] = NoAnswer]
  /\ result' = [result EXCEPT ![r] = s]

CacheSound ==
  /\ jwtCache \in [Token -> Int]
  /\ \A t \in Token : jwtCache[t] # Never =>
       /\ jwtCache[t] <= t.exp
       /\ Recent(t.iss, t.signature.by, jwtCache[t], Lag + CertTTL + JwtTTL)

(* What is known when a handler of the authentication starts.                *)
Handler == SecurityInvariant /\ UNCHANGED <<now, published, seen>>

LEMMA DroppedSound ==
  ASSUME Handler, NEW t \in Token, jwtCache' = Dropped(t)
  PROVE  CacheSound'
<1>1. CacheSound
  BY DEF Handler, SecurityInvariant, AuthTypeOK, KeyInvariant, CacheSound
<1>2. \A u \in Token : jwtCache'[u] \in {jwtCache[u], Never}
  BY <1>1 DEF Dropped, CacheSound
<1>3. jwtCache' \in [Token -> Int]
  BY <1>1 DEF Dropped, CacheSound, Never
<1>4. seen' = seen
  BY DEF Handler
<1> QED
  BY <1>1, <1>2, <1>3, <1>4 DEF CacheSound, Recent

(* A key document that is still good, with keys published recently enough.   *)
Sound(i, c) ==
  \E ks \in (SUBSET Key) \ {{}} :
    c.doc = Document(ks) /\ \A k \in ks : Recent(i, k, c.exp, Lag + CertTTL)

LEMMA VerifyOutcome ==
  ASSUME Handler, NEW r \in Request, NEW t \in Token, NEW store,
         store[t.iss].exp \in Int, now <= store[t.iss].exp, Sound(t.iss, store[t.iss]),
         VerifySignatureOf(r, t, store)
  PROVE  /\ CacheSound'
         /\ \/ /\ Goes(r, "authenticated", "OK")
               /\ Recent(t.iss, t.signature.by, now, Lag + CertTTL + JwtTTL)
            \/ Goes(r, "answered", "UNAUTHENTICATED")
<1> DEFINE c == store[t.iss]
           k == t.signature.by
<1>1. CASE c.exp # Never /\ VerifySignature(t, c.doc)
  <2>1. JwtCacheInsert(t) /\ OnDone(r, "OK")
    BY <1>1 DEF VerifySignatureOf
  <2>2. Recent(t.iss, k, c.exp, Lag + CertTTL)
    BY <1>1, SignatureNeedsKey DEF Sound
  <2>3. now \in Nat /\ seen \in [Issuer -> [Key -> Int]] /\ CacheSound /\ seen' = seen
    BY DEF Handler, SecurityInvariant, AuthTypeOK, KeyInvariant, CacheSound
  <2>4. Recent(t.iss, k, now + JwtTTL, Lag + CertTTL + JwtTTL)
    BY <2>2, <2>3, Constants DEF Recent
  <2>5. Recent(t.iss, k, now, Lag + CertTTL + JwtTTL)
    BY <2>3, <2>4, Constants DEF Recent
  <2>6. jwtCache' \in [Token -> Int]
    BY <2>1, <2>3, Constants DEF JwtCacheInsert, CacheSound
  <2>7. jwtCache'[t] <= t.exp /\ jwtCache'[t] <= now + JwtTTL
    BY <2>1, <2>3, Constants DEF JwtCacheInsert, CacheSound
  <2>8. \A u \in Token \ {t} : jwtCache'[u] = jwtCache[u]
    BY <2>1, <2>3 DEF JwtCacheInsert, CacheSound
  <2>9. Recent(t.iss, k, jwtCache'[t], Lag + CertTTL + JwtTTL)
    BY <2>3, <2>4, <2>6, <2>7, Constants DEF Recent
  <2>10. CacheSound'
    BY <2>3, <2>6, <2>7, <2>8, <2>9 DEF CacheSound, Recent
  <2> QED
    BY <2>1, <2>5, <2>10 DEF OnDone, Goes
<1>2. CASE ~(c.exp # Never /\ VerifySignature(t, c.doc))
  <2>1. Unauthenticated(r) /\ jwtCache' = Dropped(t)
    BY <1>2 DEF VerifySignatureOf
  <2> QED
    BY <2>1, DroppedSound DEF Unauthenticated, OnDone, Goes
<1> QED
  BY <1>1, <1>2

(* Where the checks of a token with the method it is for can lead.           *)
Outcome(r, m, t) ==
  \/ /\ \E p \in {"discover", "fetch"} : Goes(r, p, "none")
     /\ EntitledTo(m, t, now)
  \/ /\ Goes(r, "authenticated", "OK")
     /\ EntitledTo(m, t, now) /\ Recent(t.iss, t.signature.by, now, Lag + CertTTL + JwtTTL)
  \/ Goes(r, "answered", "UNAUTHENTICATED")
  \/ Goes(r, "answered", "PERMISSION_DENIED") /\ ~isAudienceAllowed(m, t)

LEMMA InitKeyOutcome ==
  ASSUME Handler, NEW r \in Request, NEW m \in Method, NEW t \in Token,
         EntitledTo(m, t, now), InitKey(r, t)
  PROVE  CacheSound' /\ Outcome(r, m, t)
<1>1. t.iss \in Issuer
  BY Constants DEF EntitledTo, isIssuerAllowed
<1>2. CASE CertFresh(certs[t.iss])
  <2>1. certs[t.iss].exp \in Int /\ now <= certs[t.iss].exp /\ Sound(t.iss, certs[t.iss])
    BY <1>1, <1>2 DEF Handler, SecurityInvariant, AuthTypeOK, KeyInvariant, CertFresh, Sound
  <2>2. VerifySignatureOf(r, t, certs)
    BY <1>2 DEF InitKey
  <2> QED
    BY <2>1, <2>2, VerifyOutcome DEF Outcome
<1>3. CASE ~CertFresh(certs[t.iss])
  <2>1. jwtCache' = Dropped(t)
    BY <1>3 DEF InitKey
  <2>2. Await(r, "fetch") \/ Await(r, "discover") \/ Unauthenticated(r)
    BY <1>3 DEF InitKey
  <2> QED
    BY <2>1, <2>2, DroppedSound DEF Await, Unauthenticated, OnDone, Goes, Outcome
<1> QED
  BY <1>2, <1>3

LEMMA CheckAudienceOutcome ==
  ASSUME Handler, NEW r \in Request, NEW m \in Method, NEW t \in Token, NEW hit \in BOOLEAN,
         now <= t.exp + Skew,
         hit => Recent(t.iss, t.signature.by, now, Lag + CertTTL + JwtTTL),
         CheckAudience(r, m, t, hit)
  PROVE  CacheSound' /\ Outcome(r, m, t)
<1>1. CASE ~isIssuerAllowed(m, t)
  BY <1>1, DroppedSound DEF CheckAudience, Unauthenticated, OnDone, Goes, Outcome
<1>2. CASE isIssuerAllowed(m, t) /\ ~isAudienceAllowed(m, t)
  BY <1>2, DroppedSound DEF CheckAudience, Unauthorized, OnDone, Goes, Outcome
<1>3. CASE isIssuerAllowed(m, t) /\ isAudienceAllowed(m, t)
  <2>1. EntitledTo(m, t, now)
    BY <1>3 DEF EntitledTo, isIssuerAllowed
  <2>2. CASE hit
    <3>1. OnDone(r, "OK") /\ UNCHANGED jwtCache
      BY <1>3, <2>2 DEF CheckAudience
    <3>2. CacheSound'
      BY <3>1 DEF Handler, SecurityInvariant, AuthTypeOK, KeyInvariant, CacheSound, Recent
    <3> QED
      BY <2>1, <2>2, <3>1, <3>2 DEF OnDone, Goes, Outcome
  <2>3. CASE ~hit
    BY <1>3, <2>1, <2>3, InitKeyOutcome DEF CheckAudience
  <2> QED
    BY <2>2, <2>3
<1> QED
  BY <1>1, <1>2, <1>3

LEMMA LookupOutcome ==
  ASSUME Handler, NEW r \in Request, NEW m \in Method, NEW t \in Token,
         LookupJwtCache(r, m, t)
  PROVE  CacheSound' /\ Outcome(r, m, t)
<1>0. now \in Nat /\ t.exp \in Int /\ Skew \in Nat /\ jwtCache[t] \in Int
  BY Constants DEF Handler, SecurityInvariant, AuthTypeOK
<1>1. CASE jwtCache[t] # Never /\ now <= jwtCache[t]
  <2>1. jwtCache[t] <= t.exp /\ Recent(t.iss, t.signature.by, jwtCache[t], Lag + CertTTL + JwtTTL)
    BY <1>1 DEF Handler, SecurityInvariant, KeyInvariant
  <2>2. now <= t.exp + Skew
    BY <1>0, <1>1, <2>1
  <2>3. Recent(t.iss, t.signature.by, now, Lag + CertTTL + JwtTTL)
    <3>1. seen[t.iss][t.signature.by] \in Int
      BY <2>1 DEF Recent, Handler, SecurityInvariant, AuthTypeOK
    <3> QED
      BY <1>0, <1>1, <2>1, <3>1, Constants DEF Recent
  <2>4. CheckAudience(r, m, t, TRUE)
    BY <1>1 DEF LookupJwtCache
  <2> QED
    BY <2>2, <2>3, <2>4, CheckAudienceOutcome
<1>2. CASE ~(jwtCache[t] # Never /\ now <= jwtCache[t]) /\ Parse(t, now, Skew)
  <2>1. now <= t.exp + Skew
    BY <1>2 DEF Parse, ParseImpl, ClaimsCheck
  <2>2. CheckAudience(r, m, t, FALSE)
    BY <1>2 DEF LookupJwtCache
  <2> QED
    BY <2>1, <2>2, CheckAudienceOutcome
<1>3. CASE ~(jwtCache[t] # Never /\ now <= jwtCache[t]) /\ ~Parse(t, now, Skew)
  BY <1>3, DroppedSound DEF LookupJwtCache, Unauthenticated, OnDone, Goes, Outcome
<1> QED
  BY <1>1, <1>2, <1>3

-----------------------------------------------------------------------------
Result == {"none", "OK", "UNAUTHENTICATED", "PERMISSION_DENIED", "INTERNAL",
           "INVALID_ARGUMENT"}

(* A handler of the authentication keeps the invariant if the caches stay    *)
(* sound and its own request goes where it may with what is known of it.     *)
LEMMA AuthStep ==
  ASSUME Handler, UNCHANGED rulesVars, NEW r \in Request,
         NEW p \in {"discover", "fetch", "authenticated", "answered"}, NEW s \in Result,
         Goes(r, p, s),
         NEW m \in Method, NEW t \in Token \union {NoToken, EmptyToken}, NEW at \in Int,
         req' = [req EXCEPT ![r] = [method |-> m, token |-> t, at |-> at]],
         jwks' \in [Issuer -> [uri : BOOLEAN, openid : BOOLEAN]],
         certs' \in [Issuer -> [doc : Documents, exp : Int]],
         \A i \in Issuer : certs'[i].exp # Never => Sound(i, certs'[i]),
         CacheSound',
         p # "answered" => (~m.auth /\ p = "authenticated") \/ EntitledTo(m, t, at),
         p = "authenticated" /\ m.auth =>
           Recent(t.iss, t.signature.by, now, Lag + CertTTL + JwtTTL),
         p = "answered" /\ m.auth =>
           s = "UNAUTHENTICATED" \/ (s = "PERMISSION_DENIED" /\ ~isAudienceAllowed(m, t))
  PROVE  SecurityInvariant'
<1>0. /\ AuthTypeOK /\ RulesTypeOK /\ KeyInvariant /\ RequestInvariant
      /\ DecisionInvariant /\ RulesDecided
      /\ now' = now /\ published' = published /\ seen' = seen
      /\ authz' = authz /\ fb' = fb /\ verdict' = verdict
  BY DEF Handler, SecurityInvariant, rulesVars
<1>1. NoAnswer \in [keys : SUBSET Key, at : Int]
  BY DEF NoAnswer, Never
<1>2. /\ pc'[r] = p /\ answer'[r] = NoAnswer /\ result'[r] = s
      /\ req'[r] = [method |-> m, token |-> t, at |-> at]
      /\ \A q \in Request \ {r} : /\ pc'[q] = pc[q] /\ answer'[q] = answer[q]
                                   /\ result'[q] = result[q] /\ req'[q] = req[q]
  BY <1>0 DEF Goes, AuthTypeOK
<1>3. AuthTypeOK'
  BY <1>0, <1>1 DEF Goes, AuthTypeOK, CacheSound, Result
<1>4. RulesTypeOK' /\ DecisionInvariant'
  BY <1>0 DEF RulesTypeOK, DecisionInvariant
<1>5. KeyInvariant'
  <2>1. \A q \in Request : answer'[q] # NoAnswer =>
          answer'[q] = answer[q] /\ pc'[q] = pc[q] /\ req'[q] = req[q]
    BY <1>2
  <2>2. \A q \in Request : answer'[q] # NoAnswer =>
          /\ pc'[q] \in {"discover", "fetch"}
          /\ answer'[q].at \in 0..now /\ now <= answer'[q].at + Lag /\ answer'[q].keys # {}
          /\ \A k \in answer'[q].keys : Recent(req'[q].token.iss, k, answer'[q].at, 0)
    BY <1>0, <2>1 DEF KeyInvariant
  <2>3. \A i \in Issuer : certs'[i].exp # Never =>
          \E ks \in (SUBSET Key) \ {{}} :
            certs'[i].doc = Document(ks)
            /\ \A k \in ks : Recent(i, k, certs'[i].exp, Lag + CertTTL)
    BY DEF Sound
  <2> QED
    BY <1>0, <2>2, <2>3 DEF KeyInvariant, CacheSound, Recent
<1>6. RequestInvariant'
  <2> SUFFICES ASSUME NEW q \in Request
               PROVE  /\ pc'[q] \in {"discover", "fetch", "authenticated", "release",
                                     "test", "call"} =>
                           \/ ~req'[q].method.auth /\ pc'[q] = "authenticated"
                           \/ EntitledTo(req'[q].method, req'[q].token, req'[q].at)
                      /\ pc'[q] = "authenticated" /\ req'[q].method.auth =>
                           Recent(req'[q].token.iss, req'[q].token.signature.by, now,
                                  Lag + CertTTL + JwtTTL)
                      /\ pc'[q] = "answered" /\ req'[q].method.auth =>
                           \/ result'[q] = "UNAUTHENTICATED"
                           \/ /\ result'[q] = "PERMISSION_DENIED"
                              /\ ~isAudienceAllowed(req'[q].method, req'[q].token)
                           \/ EntitledTo(req'[q].method, req'[q].token, req'[q].at)
                      /\ pc'[q] = "call" => fb[q].iter \in 1..Len(fb[q].calls)
    BY <1>0 DEF RequestInvariant, Recent
  <2>1. CASE q = r
    BY <1>2, <2>1
  <2>2. CASE q # r
    BY <1>0, <1>2, <2>2 DEF RequestInvariant
  <2> QED
    BY <2>1, <2>2
<1>7. RulesDecided'
  <2> SUFFICES ASSUME NEW q \in Request, RulesEnabled, pc'[q] = "answered", req'[q].method.auth
               PROVE  LET at0 == verdict[ComposeAuthzCacheKey(q)'].OK
                          at1 == verdict[ComposeAuthzCacheKey(q)'].PERMISSION_DENIED IN
                      /\ result'[q] = "OK" => at0 # Never /\ now <= at0 + RulesTTL
                      /\ /\ result'[q] = "PERMISSION_DENIED"
                         /\ isAudienceAllowed(req'[q].method, req'[q].token)
                         => at1 # Never /\ now <= at1 + RulesTTL
    BY <1>0 DEF RulesDecided
  <2>1. CASE q = r
    BY <1>2, <2>1
  <2>2. CASE q # r
    BY <1>0, <1>2, <2>2, ZenonT(60) DEF RulesDecided, ComposeAuthzCacheKey
  <2> QED
    BY <2>1, <2>2
<1> QED
  BY <1>3, <1>4, <1>5, <1>6, <1>7 DEF SecurityInvariant

(* What a handler that leaves a cache alone knows of it.                     *)
LEMMA CachesKept ==
  ASSUME Handler
  PROVE  /\ UNCHANGED jwtCache => CacheSound'
         /\ UNCHANGED jwks => jwks' \in [Issuer -> [uri : BOOLEAN, openid : BOOLEAN]]
         /\ UNCHANGED certs =>
              /\ certs' \in [Issuer -> [doc : Documents, exp : Int]]
              /\ \A i \in Issuer : certs'[i].exp # Never => Sound(i, certs'[i])
<1>1. /\ jwks \in [Issuer -> [uri : BOOLEAN, openid : BOOLEAN]]
      /\ certs \in [Issuer -> [doc : Documents, exp : Int]]
      /\ \A i \in Issuer : certs[i].exp # Never => Sound(i, certs[i])
  BY DEF Handler, SecurityInvariant, AuthTypeOK, KeyInvariant, Sound
<1>2. ASSUME UNCHANGED jwtCache PROVE CacheSound'
  BY <1>2 DEF Handler, SecurityInvariant, AuthTypeOK, KeyInvariant, CacheSound, Recent
<1>3. ASSUME UNCHANGED certs
      PROVE  \A i \in Issuer : certs'[i].exp # Never => Sound(i, certs'[i])
  BY <1>1, <1>3
<1> QED
  BY <1>1, <1>2, <1>3

LEMMA CheckStep ==
  ASSUME SecurityInvariant, NEW r \in Request, Check(r), UNCHANGED rulesVars
  PROVE  SecurityInvariant'
<1>0. PICK m \in Method, c \in Credentials :
      LET t == GetAuthToken(c) IN
       /\ req' = [req EXCEPT ![r] = [method |-> m, token |-> t, at |-> now]]
       /\ IF ~m.auth THEN OnDone(r, "OK") /\ UNCHANGED jwtCache
          ELSE IF t \in {NoToken, EmptyToken} THEN Unauthenticated(r) /\ UNCHANGED jwtCache
          ELSE LookupJwtCache(r, m, t)
  BY DEF Check
<1> DEFINE t == GetAuthToken(c)
<1>1. t \in Token \union {NoToken, EmptyToken}
  BY <1>0, AuthAssumption DEF GetAuthToken
<1>2. Handler /\ UNCHANGED jwks /\ UNCHANGED certs /\ now \in Int
  BY DEF Handler, Check, SecurityInvariant, AuthTypeOK
<1>3. /\ jwks' \in [Issuer -> [uri : BOOLEAN, openid : BOOLEAN]]
      /\ certs' \in [Issuer -> [doc : Documents, exp : Int]]
      /\ \A i \in Issuer : certs'[i].exp # Never => Sound(i, certs'[i])
  BY <1>2, CachesKept
<1>4. req' = [req EXCEPT ![r] = [method |-> m, token |-> t, at |-> now]]
  BY <1>0
<1> HIDE DEF t
<1>5. CASE ~m.auth
  <2>1. CacheSound'
    BY <1>0, <1>2, <1>5, CachesKept
  <2>2. Goes(r, "authenticated", "OK")
    BY <1>0, <1>5 DEF OnDone, Goes
  <2> QED
    BY <1>1, <1>2, <1>3, <1>4, <1>5, <2>1, <2>2, AuthStep, ZenonT(60) DEF Result
<1>6. CASE m.auth /\ t \in {NoToken, EmptyToken}
  <2>1. CacheSound' /\ Goes(r, "answered", "UNAUTHENTICATED")
    BY <1>0, <1>2, <1>6, CachesKept DEF Unauthenticated, OnDone, Goes, t
  <2> QED
    BY <1>1, <1>2, <1>3, <1>4, <2>1, AuthStep DEF Result
<1>7. CASE m.auth /\ t \notin {NoToken, EmptyToken}
  <2>1. t \in Token /\ LookupJwtCache(r, m, t)
    BY <1>0, <1>1, <1>7 DEF t
  <2>2. CacheSound' /\ Outcome(r, m, t)
    BY <1>2, <2>1, LookupOutcome
  <2>3. ASSUME NEW p \in {"discover", "fetch"}, Goes(r, p, "none"), EntitledTo(m, t, now)
        PROVE  SecurityInvariant'
    BY <1>1, <1>2, <1>3, <1>4, <2>2, <2>3, AuthStep, ZenonT(60) DEF Result
  <2>4. CASE /\ Goes(r, "authenticated", "OK")
             /\ EntitledTo(m, t, now) /\ Recent(t.iss, t.signature.by, now, Lag + CertTTL + JwtTTL)
    BY <1>1, <1>2, <1>3, <1>4, <2>2, <2>4, AuthStep, ZenonT(60) DEF Result
  <2>5. CASE Goes(r, "answered", "UNAUTHENTICATED")
    BY <1>1, <1>2, <1>3, <1>4, <2>2, <2>5, AuthStep DEF Result
  <2>6. CASE Goes(r, "answered", "PERMISSION_DENIED") /\ ~isAudienceAllowed(m, t)
    BY <1>1, <1>2, <1>3, <1>4, <2>2, <2>6, AuthStep DEF Result
  <2> QED
    BY <2>2, <2>3, <2>4, <2>5, <2>6 DEF Outcome
<1> QED
  BY <1>5, <1>6, <1>7, Constants

(* What is known of a request that waits for an issuer.                      *)
LEMMA Waiting ==
  ASSUME SecurityInvariant, NEW r \in Request, pc[r] \in {"discover", "fetch"}
  PROVE  /\ EntitledTo(req[r].method, req[r].token, req[r].at)
         /\ req[r].token.iss \in Issuer /\ req[r].method \in Method /\ req[r].at \in Int
         /\ req[r].token \in Token
         /\ req = [req EXCEPT ![r] = [method |-> req[r].method, token |-> req[r].token,
                                      at |-> req[r].at]]
<1>1. AuthTypeOK /\ RequestInvariant
  BY DEF SecurityInvariant
<1>2. /\ req \in [Request -> [method : Method, token : Token \union {NoToken, EmptyToken},
                              at : Int]]
      /\ req[r].method \in Method /\ req[r].at \in Int
  BY <1>1 DEF AuthTypeOK
<1>3. EntitledTo(req[r].method, req[r].token, req[r].at)
  BY <1>1 DEF RequestInvariant
<1>4. req[r] = [method |-> req[r].method, token |-> req[r].token, at |-> req[r].at]
  BY <1>2
<1> QED
  BY <1>2, <1>3, <1>4, Constants DEF EntitledTo, isIssuerAllowed

LEMMA PostFetchJwksUriStep ==
  ASSUME SecurityInvariant, NEW r \in Request, PostFetchJwksUri(r), UNCHANGED rulesVars
  PROVE  SecurityInvariant'
<1> DEFINE q == req[r]
<1>1. /\ EntitledTo(q.method, q.token, q.at) /\ q.token.iss \in Issuer
      /\ q.method \in Method /\ q.at \in Int /\ q.token \in Token
      /\ req' = [req EXCEPT ![r] = [method |-> q.method, token |-> q.token, at |-> q.at]]
  BY Waiting DEF PostFetchJwksUri
<1>2. Handler /\ UNCHANGED certs /\ UNCHANGED jwtCache
  BY DEF PostFetchJwksUri, Handler
<1>3. /\ CacheSound' /\ certs' \in [Issuer -> [doc : Documents, exp : Int]]
      /\ \A i \in Issuer : certs'[i].exp # Never => Sound(i, certs'[i])
  BY <1>2, CachesKept
<1>4. jwks' \in [Issuer -> [uri : BOOLEAN, openid : BOOLEAN]]
  <2>1. PICK e \in [uri : BOOLEAN, openid : BOOLEAN] : jwks' = [jwks EXCEPT ![q.token.iss] = e]
    BY DEF PostFetchJwksUri
  <2>2. jwks \in [Issuer -> [uri : BOOLEAN, openid : BOOLEAN]]
    BY DEF SecurityInvariant, AuthTypeOK
  <2> QED
    BY <2>1, <2>2
<1>5. Goes(r, "fetch", "none") \/ Goes(r, "answered", "UNAUTHENTICATED")
  BY DEF PostFetchJwksUri, Await, Unauthenticated, OnDone, Goes
<1> HIDE DEF q
<1>6. CASE Goes(r, "fetch", "none")
  BY <1>1, <1>2, <1>3, <1>4, <1>6, AuthStep, ZenonT(60) DEF Result
<1>7. CASE Goes(r, "answered", "UNAUTHENTICATED")
  BY <1>1, <1>2, <1>3, <1>4, <1>7, AuthStep DEF Result
<1> QED
  BY <1>5, <1>6, <1>7

LEMMA PostFetchPubKeyStep ==
  ASSUME SecurityInvariant, NEW r \in Request, PostFetchPubKey(r), UNCHANGED rulesVars
  PROVE  SecurityInvariant'
<1> DEFINE q == req[r]
           t == q.token
<1>1. /\ EntitledTo(q.method, t, q.at) /\ t.iss \in Issuer
      /\ q.method \in Method /\ q.at \in Int /\ t \in Token
      /\ req' = [req EXCEPT ![r] = [method |-> q.method, token |-> t, at |-> q.at]]
  BY Waiting DEF PostFetchPubKey
<1>2. Handler /\ UNCHANGED jwks /\ now \in Nat
  BY DEF PostFetchPubKey, Handler, SecurityInvariant, AuthTypeOK
<1>3. jwks' \in [Issuer -> [uri : BOOLEAN, openid : BOOLEAN]]
  BY <1>2, CachesKept
<1>4. CASE /\ answer[r] # NoAnswer
           /\ certs' = [certs EXCEPT ![t.iss] =
                          [doc |-> Document(answer[r].keys), exp |-> now + CertTTL]]
           /\ VerifySignatureOf(r, t, certs')
  <2> DEFINE ks == answer[r].keys
             c == [doc |-> Document(ks), exp |-> now + CertTTL]
  <2>2. /\ answer[r].at \in Int /\ now <= answer[r].at + Lag
        /\ ks \in (SUBSET Key) \ {{}} /\ \A k \in ks : Recent(t.iss, k, answer[r].at, 0)
    BY <1>4 DEF SecurityInvariant, KeyInvariant, AuthTypeOK
  <2>3. \A k \in ks : Recent(t.iss, k, c.exp, Lag + CertTTL)
    <3>1. seen \in [Issuer -> [Key -> Int]]
      BY DEF SecurityInvariant, AuthTypeOK
    <3> QED
      BY <1>2, <2>2, <3>1, Constants DEF Recent
  <2>4. Sound(t.iss, c)
    BY <2>2, <2>3 DEF Sound
  <2>5. c \in [doc : Documents, exp : Int] /\ now <= c.exp
    BY <1>2, <2>2, Constants DEF Documents
  <2>6. certs \in [Issuer -> [doc : Documents, exp : Int]]
    BY DEF SecurityInvariant, AuthTypeOK
  <2> HIDE DEF c
  <2>7. certs' = [certs EXCEPT ![t.iss] = c]
    BY <1>4 DEF c
  <2>8. /\ certs' \in [Issuer -> [doc : Documents, exp : Int]]
        /\ certs'[t.iss] = c /\ \A i \in Issuer \ {t.iss} : certs'[i] = certs[i]
    BY <1>1, <2>5, <2>6, <2>7
  <2>9. \A i \in Issuer : certs[i].exp # Never => Sound(i, certs[i])
    BY DEF SecurityInvariant, KeyInvariant, Sound
  <2>10. \A i \in Issuer : certs'[i].exp # Never => Sound(i, certs'[i])
    <3> SUFFICES ASSUME NEW i \in Issuer, certs'[i].exp # Never PROVE Sound(i, certs'[i])
      OBVIOUS
    <3> QED
      BY <2>4, <2>8, <2>9
  <2>11. c.exp \in Int
    BY <2>5
  <2>12. /\ CacheSound'
         /\ \/ /\ Goes(r, "authenticated", "OK")
               /\ Recent(t.iss, t.signature.by, now, Lag + CertTTL + JwtTTL)
            \/ Goes(r, "answered", "UNAUTHENTICATED")
    BY <1>1, <1>2, <1>4, <2>4, <2>5, <2>8, <2>11, VerifyOutcome
  <2> HIDE DEF q, t
  <2>13. CASE Goes(r, "authenticated", "OK")
              /\ Recent(t.iss, t.signature.by, now, Lag + CertTTL + JwtTTL)
    BY <1>1, <1>2, <1>3, <2>8, <2>10, <2>12, <2>13, AuthStep DEF Result
  <2>14. CASE Goes(r, "answered", "UNAUTHENTICATED")
    BY <1>1, <1>2, <1>3, <2>8, <2>10, <2>12, <2>14, AuthStep, ZenonT(60) DEF Result
  <2> QED
    BY <2>12, <2>13, <2>14
<1>5. CASE Unauthenticated(r) /\ UNCHANGED <<certs, jwtCache>>
  <2>1. /\ CacheSound' /\ certs' \in [Issuer -> [doc : Documents, exp : Int]]
        /\ \A i \in Issuer : certs'[i].exp # Never => Sound(i, certs'[i])
    BY <1>2, <1>5, CachesKept
  <2>2. Goes(r, "answered", "UNAUTHENTICATED")
    BY <1>5 DEF Unauthenticated, OnDone, Goes
  <2> HIDE DEF q, t
  <2> QED
    BY <1>1, <1>2, <1>3, <2>1, <2>2, AuthStep, ZenonT(60) DEF Result
<1> QED
  BY <1>4, <1>5 DEF PostFetchPubKey

LEMMA ServeStep ==
  ASSUME SecurityInvariant, NEW r \in Request, Serve(r), UNCHANGED rulesVars
  PROVE  SecurityInvariant'
<1> DEFINE a == [keys |-> published[req[r].token.iss], at |-> now]
<1>0. /\ AuthTypeOK /\ RulesTypeOK /\ KeyInvariant /\ RequestInvariant
      /\ DecisionInvariant /\ RulesDecided
  BY DEF SecurityInvariant
<1>1. /\ now' = now /\ published' = published /\ seen' = seen /\ jwks' = jwks
      /\ certs' = certs /\ jwtCache' = jwtCache /\ pc' = pc /\ req' = req
      /\ result' = result /\ authz' = authz /\ fb' = fb /\ verdict' = verdict
      /\ answer' = [answer EXCEPT ![r] = a]
  BY DEF Serve, rulesVars
<1>2. req[r].token.iss \in Issuer
  BY Waiting DEF Serve
<1>3. /\ a \in [keys : SUBSET Key, at : Int] /\ a.keys # {} /\ a.at = now /\ now \in Nat
      /\ \A k \in a.keys : seen[req[r].token.iss][k] = now
  BY <1>0, <1>2 DEF AuthTypeOK, KeyInvariant
<1> HIDE DEF a
<1>4. AuthTypeOK'
  BY <1>0, <1>1, <1>3 DEF AuthTypeOK
<1>5. KeyInvariant'
  <2>1. answer'[r] = a /\ \A q \in Request \ {r} : answer'[q] = answer[q]
    BY <1>0, <1>1 DEF AuthTypeOK
  <2>2. /\ a.at \in 0..now /\ now <= a.at + Lag /\ a.keys # {}
        /\ \A k \in a.keys : Recent(req[r].token.iss, k, a.at, 0)
        /\ pc[r] \in {"discover", "fetch"}
    BY <1>2, <1>3, Constants DEF Recent, Never, Serve
  <2>3. ASSUME NEW q \in Request, answer'[q] # NoAnswer
        PROVE  /\ pc[q] \in {"discover", "fetch"}
               /\ answer'[q].at \in 0..now /\ now <= answer'[q].at + Lag /\ answer'[q].keys # {}
               /\ \A k \in answer'[q].keys : Recent(req[q].token.iss, k, answer'[q].at, 0)
    <3>1. CASE q = r
      BY <2>1, <2>2, <3>1
    <3>2. CASE q # r
      BY <1>0, <2>1, <2>3, <3>2 DEF KeyInvariant
    <3> QED
      BY <3>1, <3>2
  <2> QED
    BY <1>0, <1>1, <2>3 DEF KeyInvariant, Recent
<1>6. RulesTypeOK' /\ RequestInvariant' /\ DecisionInvariant' /\ RulesDecided'
  BY <1>0, <1>1 DEF RulesTypeOK, RequestInvariant, DecisionInvariant, RulesDecided, Recent,
                    ComposeAuthzCacheKey, EntitledTo
<1> QED
  BY <1>4, <1>5, <1>6 DEF SecurityInvariant

(* What was recent stays recent when keys are seen again.                    *)
LEMMA RecentKept ==
  ASSUME seen \in [Issuer -> [Key -> Int]], seen' \in [Issuer -> [Key -> Int]],
         \A i \in Issuer, k \in Key :
           seen[i][k] # Never => seen'[i][k] # Never /\ seen[i][k] <= seen'[i][k],
         NEW j, NEW x, NEW time \in Int, NEW window \in Int, Recent(j, x, time, window)
  PROVE  j \in Issuer /\ x \in Key /\ seen'[j][x] # Never /\ time <= seen'[j][x] + window
<1>1. j \in Issuer /\ x \in Key /\ seen[j][x] # Never /\ time <= seen[j][x] + window
  BY DEF Recent
<1>2. seen[j][x] \in Int /\ seen'[j][x] \in Int
  BY <1>1
<1>3. seen'[j][x] # Never /\ seen[j][x] <= seen'[j][x]
  BY <1>1
<1> QED
  BY <1>1, <1>2, <1>3

(* Time and the issuers: the caches and the answers under way stay sound.    *)
LEMMA SeenAgain ==
  ASSUME SecurityInvariant, now' \in Nat, now <= now',
         seen' \in [Issuer -> [Key -> Int]],
         \A i \in Issuer, k \in Key :
           seen[i][k] # Never => seen'[i][k] # Never /\ seen[i][k] <= seen'[i][k],
         \A i \in Issuer, k \in Key : seen'[i][k] <= now',
         \A i \in Issuer : \A k \in published'[i] : seen'[i][k] = now',
         \A r \in Request : answer[r] # NoAnswer =>
           now' <= answer[r].at + Lag /\ pc'[r] = pc[r] /\ req'[r] = req[r],
         UNCHANGED <<certs, jwtCache, answer>>
  PROVE  KeyInvariant'
<1>0. AuthTypeOK /\ KeyInvariant /\ certs' = certs /\ jwtCache' = jwtCache /\ answer' = answer
  BY DEF SecurityInvariant
<1>1. seen \in [Issuer -> [Key -> Int]] /\ now \in Nat
  BY <1>0 DEF AuthTypeOK
<1>2. ASSUME NEW r \in Request, answer[r] # NoAnswer
      PROVE  /\ pc'[r] \in {"discover", "fetch"}
             /\ answer[r].at \in 0..now' /\ now' <= answer[r].at + Lag /\ answer[r].keys # {}
             /\ \A k \in answer[r].keys : Recent(req[r].token.iss, k, answer[r].at, 0)'
  <2>1. /\ answer[r].at \in 0..now /\ answer[r].keys # {} /\ pc[r] \in {"discover", "fetch"}
        /\ \A k \in answer[r].keys : Recent(req[r].token.iss, k, answer[r].at, 0)
    BY <1>0, <1>2 DEF KeyInvariant
  <2>2. pc'[r] = pc[r] /\ req'[r] = req[r]
    BY <1>2
  <2>3. answer[r].at \in Int /\ 0 \in Int
    BY <2>1
  <2>4. ASSUME NEW k \in answer[r].keys
        PROVE  Recent(req[r].token.iss, k, answer[r].at, 0)'
    <3>1. LET j == req[r].token.iss IN
          j \in Issuer /\ k \in Key /\ seen'[j][k] # Never /\ answer[r].at <= seen'[j][k] + 0
      BY <1>1, <2>1, <2>3, RecentKept
    <3> QED
      BY <1>0, <2>2, <3>1 DEF Recent
  <2> QED
    BY <1>1, <1>2, <2>1, <2>2, <2>4
<1>3. ASSUME NEW i \in Issuer, certs[i].exp # Never
      PROVE  \E ks \in (SUBSET Key) \ {{}} :
               /\ certs[i].doc = Document(ks)
               /\ \A k \in ks : Recent(i, k, certs[i].exp, Lag + CertTTL)'
  <2>1. PICK ks \in (SUBSET Key) \ {{}} :
          certs[i].doc = Document(ks) /\ \A k \in ks : Recent(i, k, certs[i].exp, Lag + CertTTL)
    BY <1>0, <1>3 DEF KeyInvariant
  <2>2. certs[i].exp \in Int /\ Lag + CertTTL \in Int
    BY <1>0, Constants DEF AuthTypeOK
  <2>3. \A k \in ks : Recent(i, k, certs[i].exp, Lag + CertTTL)'
    BY <1>0, <1>1, <2>1, <2>2, RecentKept DEF Recent
  <2> QED
    BY <2>1, <2>3
<1>4. ASSUME NEW t \in Token, jwtCache[t] # Never
      PROVE  /\ jwtCache[t] <= t.exp
             /\ Recent(t.iss, t.signature.by, jwtCache[t], Lag + CertTTL + JwtTTL)'
  <2>1. /\ jwtCache[t] <= t.exp
        /\ Recent(t.iss, t.signature.by, jwtCache[t], Lag + CertTTL + JwtTTL)
    BY <1>0, <1>4 DEF KeyInvariant
  <2>2. jwtCache[t] \in Int /\ Lag + CertTTL + JwtTTL \in Int
    BY <1>0, Constants DEF AuthTypeOK
  <2> QED
    BY <1>0, <1>1, <2>1, <2>2, RecentKept DEF Recent
<1> QED
  BY <1>0, <1>2, <1>3, <1>4 DEF KeyInvariant, Recent

LEMMA TickStep ==
  ASSUME SecurityInvariant, Tick, UNCHANGED rulesVars
  PROVE  SecurityInvariant'
<1>0. /\ AuthTypeOK /\ RulesTypeOK /\ KeyInvariant /\ RequestInvariant
      /\ DecisionInvariant /\ RulesDecided
  BY DEF SecurityInvariant
<1>1. /\ now' = now + 1 /\ published' = published /\ jwks' = jwks
      /\ certs' = certs /\ jwtCache' = jwtCache /\ answer' = answer
      /\ authz' = authz /\ fb' = fb /\ verdict' = verdict
      /\ seen' = [i \in Issuer |->
                    [k \in Key |-> IF k \in published[i] THEN now' ELSE seen[i][k]]]
  BY DEF Tick, rulesVars
<1>2. now \in Nat /\ now' \in Nat /\ now <= now' /\ seen \in [Issuer -> [Key -> Int]]
  BY <1>0, <1>1 DEF AuthTypeOK
<1>3. /\ seen' \in [Issuer -> [Key -> Int]]
      /\ \A i \in Issuer, k \in Key :
           seen[i][k] # Never => seen'[i][k] # Never /\ seen[i][k] <= seen'[i][k]
      /\ \A i \in Issuer, k \in Key : seen'[i][k] <= now'
  <2>1. \A i \in Issuer, k \in Key : seen[i][k] <= now
    BY <1>0 DEF KeyInvariant
  <2> QED
    BY <1>1, <1>2, <2>1 DEF Never
<1>4. \A i \in Issuer : \A k \in published'[i] : seen'[i][k] = now'
  BY <1>0, <1>1 DEF AuthTypeOK
<1>5. \A r \in Request : answer[r] # NoAnswer =>
        now' <= answer[r].at + Lag /\ pc'[r] = pc[r] /\ req'[r] = req[r]
  <2> SUFFICES ASSUME NEW r \in Request, answer[r] # NoAnswer
               PROVE  now' <= answer[r].at + Lag /\ pc'[r] = pc[r] /\ req'[r] = req[r]
    OBVIOUS
  <2>1. answer[r].at \in 0..now /\ pc[r] \in {"discover", "fetch"}
    BY <1>0 DEF KeyInvariant
  <2>2. now < answer[r].at + Lag
    BY <1>2, <2>1 DEF Tick, Never
  <2>3. pc'[r] = pc[r] /\ req'[r] = req[r]
    BY <2>1 DEF Tick
  <2> QED
    BY <1>1, <1>2, <2>1, <2>2, <2>3, Constants
<1>6. KeyInvariant'
  BY <1>1, <1>2, <1>3, <1>4, <1>5, SeenAgain
<1>7. /\ \A r \in Request : pc'[r] = IF pc[r] = "answered" THEN "idle" ELSE pc[r]
      /\ \A r \in Request : pc'[r] # "idle" => req'[r] = req[r]
      /\ \A r \in Request : pc'[r] \notin {"authenticated", "answered"}
  BY DEF Tick
<1>8. AuthTypeOK'
  <2>1. NoRequest \in [method : Method, token : Token \union {NoToken, EmptyToken}, at : Int]
    BY AuthAssumption DEF NoRequest, Never
  <2> QED
    BY <1>0, <1>1, <1>2, <1>3, <2>1 DEF AuthTypeOK, Tick
<1>9. RequestInvariant'
  BY <1>0, <1>1, <1>7 DEF RequestInvariant
<1>10. RulesTypeOK' /\ RulesDecided'
  BY <1>0, <1>1, <1>7 DEF RulesTypeOK, RulesDecided
<1>11. DecisionInvariant'
  BY <1>0, <1>1, <1>2 DEF DecisionInvariant, RulesTypeOK
<1> QED
  BY <1>6, <1>8, <1>9, <1>10, <1>11 DEF SecurityInvariant

LEMMA RotateStep ==
  ASSUME SecurityInvariant, NEW i \in Issuer, Rotate(i), UNCHANGED rulesVars
  PROVE  SecurityInvariant'
<1>0. /\ AuthTypeOK /\ RulesTypeOK /\ KeyInvariant /\ RequestInvariant
      /\ DecisionInvariant /\ RulesDecided
  BY DEF SecurityInvariant
<1>1. /\ now' = now /\ jwks' = jwks /\ pc' = pc /\ req' = req /\ result' = result
      /\ certs' = certs /\ jwtCache' = jwtCache /\ answer' = answer
      /\ authz' = authz /\ fb' = fb /\ verdict' = verdict
  BY DEF Rotate, rulesVars
<1>2. /\ now \in Nat /\ seen \in [Issuer -> [Key -> Int]]
      /\ \A j \in Issuer, x \in Key : seen[j][x] <= now
  BY <1>0 DEF AuthTypeOK, KeyInvariant
<1>3. PICK k \in Key : published' = [published EXCEPT ![i] = {k}]
                      /\ seen' = [seen EXCEPT ![i][k] = now]
  BY DEF Rotate
<1>4. /\ published' \in [Issuer -> (SUBSET Key) \ {{}}] /\ published'[i] = {k}
      /\ \A j \in Issuer \ {i} : published'[j] = published[j]
  BY <1>0, <1>3 DEF AuthTypeOK
<1>5. /\ seen' \in [Issuer -> [Key -> Int]] /\ seen'[i][k] = now
      /\ \A j \in Issuer, x \in Key : seen'[j][x] \in {seen[j][x], now}
      /\ \A j \in Issuer \ {i} : seen'[j] = seen[j]
  BY <1>2, <1>3
<1>6. /\ \A j \in Issuer, x \in Key :
           seen[j][x] # Never => seen'[j][x] # Never /\ seen[j][x] <= seen'[j][x]
      /\ \A j \in Issuer, x \in Key : seen'[j][x] <= now'
  <2> SUFFICES ASSUME NEW j \in Issuer, NEW x \in Key
               PROVE  /\ seen[j][x] # Never => seen'[j][x] # Never /\ seen[j][x] <= seen'[j][x]
                      /\ seen'[j][x] <= now'
    OBVIOUS
  <2>1. seen[j][x] \in Int /\ seen[j][x] <= now
    BY <1>2
  <2>2. seen'[j][x] \in {seen[j][x], now} /\ now # Never
    BY <1>2, <1>5 DEF Never
  <2> QED
    BY <1>1, <1>2, <2>1, <2>2
<1>7. \A j \in Issuer : \A x \in published'[j] : seen'[j][x] = now'
  <2> SUFFICES ASSUME NEW j \in Issuer, NEW x \in published'[j] PROVE seen'[j][x] = now'
    OBVIOUS
  <2>1. CASE j = i
    BY <1>1, <1>4, <1>5, <2>1
  <2>2. CASE j # i
    BY <1>0, <1>1, <1>4, <1>5, <2>2 DEF KeyInvariant
  <2> QED
    BY <2>1, <2>2
<1>8. \A r \in Request : answer[r] # NoAnswer =>
        now' <= answer[r].at + Lag /\ pc'[r] = pc[r] /\ req'[r] = req[r]
  BY <1>0, <1>1 DEF KeyInvariant
<1>9. KeyInvariant'
  BY <1>1, <1>2, <1>5, <1>6, <1>7, <1>8, SeenAgain
<1>10. AuthTypeOK'
  BY <1>0, <1>1, <1>4, <1>5 DEF AuthTypeOK
<1>11. RequestInvariant'
  <2>1. ASSUME NEW r \in Request, pc[r] = "authenticated", req[r].method.auth
        PROVE  Recent(req[r].token.iss, req[r].token.signature.by, now, Lag + CertTTL + JwtTTL)'
    <3>1. Recent(req[r].token.iss, req[r].token.signature.by, now, Lag + CertTTL + JwtTTL)
      BY <1>0, <2>1 DEF RequestInvariant
    <3>2. Lag + CertTTL + JwtTTL \in Int /\ now \in Int
      BY <1>2, Constants
    <3> QED
      BY <1>1, <1>2, <1>5, <1>6, <3>1, <3>2, RecentKept DEF Recent
  <2> QED
    BY <1>0, <1>1, <2>1 DEF RequestInvariant, EntitledTo
<1>12. RulesTypeOK' /\ DecisionInvariant' /\ RulesDecided'
  BY <1>0, <1>1 DEF RulesTypeOK, DecisionInvariant, RulesDecided, ComposeAuthzCacheKey
<1> QED
  BY <1>9, <1>10, <1>11, <1>12 DEF SecurityInvariant

-----------------------------------------------------------------------------
Firebase ==
  [calls : Seq(Func), iter : Nat \ {0}, funcs_with_result : SUBSET Func, bad : SUBSET Func]

(* The answer to a request is one the rules may give with these verdicts.    *)
DecidedBy(v, k, s) ==
  /\ s = "OK" => v[k].OK # Never /\ now <= v[k].OK + RulesTTL
  /\ s = "PERMISSION_DENIED" =>
       v[k].PERMISSION_DENIED # Never /\ now <= v[k].PERMISSION_DENIED + RulesTTL

(* What a cached decision rests on.                                          *)
EntrySound(e, v) ==
  e.exp # Never =>
    LET at == IF e.if_success THEN v.OK ELSE v.PERMISSION_DENIED
    IN  at # Never /\ e.exp <= at + RulesTTL

LEMMA KeyOf ==
  ASSUME NEW m \in Method, NEW t \in Token
  PROVE  <<t, m.path, m.verb>> \in CacheKey
BY DEF CacheKey

(* A handler of the rules keeps the invariant if cache and history go on to  *)
(* agree and its own request goes where it may.                              *)
LEMMA RulesStep ==
  ASSUME SecurityInvariant, Rest, NEW r \in Request,
         pc[r] \in {"authenticated", "release", "test", "call"},
         EntitledTo(req[r].method, req[r].token, req[r].at) \/ ~req[r].method.auth,
         NEW p \in {"release", "test", "call", "answered"}, NEW s \in Result,
         NEW f \in Firebase,
         pc' = [pc EXCEPT ![r] = p], result' = [result EXCEPT ![r] = s],
         fb' = [fb EXCEPT ![r] = f],
         authz' \in [CacheKey -> [if_success : BOOLEAN, exp : Int]],
         verdict' \in [CacheKey -> [OK : Int, PERMISSION_DENIED : Int]],
         \A k \in CacheKey : /\ verdict'[k].OK \in {verdict[k].OK, now}
                             /\ verdict'[k].PERMISSION_DENIED
                                  \in {verdict[k].PERMISSION_DENIED, now},
         \A k \in CacheKey : EntrySound(authz'[k], verdict'[k]),
         p # "answered" => EntitledTo(req[r].method, req[r].token, req[r].at),
         p = "call" => f.iter \in 1..Len(f.calls),
         p = "answered" /\ RulesEnabled /\ req[r].method.auth =>
           DecidedBy(verdict', ComposeAuthzCacheKey(r), s)
  PROVE  SecurityInvariant'
<1>0. /\ AuthTypeOK /\ RulesTypeOK /\ KeyInvariant /\ RequestInvariant
      /\ DecisionInvariant /\ RulesDecided
  BY DEF SecurityInvariant
<1>1. /\ now' = now /\ published' = published /\ seen' = seen /\ jwks' = jwks
      /\ certs' = certs /\ jwtCache' = jwtCache /\ req' = req /\ answer' = answer
  BY DEF Rest
<1>2. /\ pc'[r] = p /\ result'[r] = s /\ fb'[r] = f
      /\ \A q \in Request \ {r} : pc'[q] = pc[q] /\ result'[q] = result[q] /\ fb'[q] = fb[q]
  BY <1>0 DEF AuthTypeOK, RulesTypeOK
<1>3. AuthTypeOK'
  BY <1>0, <1>1 DEF AuthTypeOK, Result
<1>4. RulesTypeOK'
  BY <1>0 DEF RulesTypeOK, Firebase
<1>5. KeyInvariant'
  <2>1. \A q \in Request : answer[q] # NoAnswer => pc'[q] \in {"discover", "fetch"}
    BY <1>0, <1>2 DEF KeyInvariant
  <2> QED
    BY <1>0, <1>1, <2>1 DEF KeyInvariant, Recent
<1>6. RequestInvariant'
  <2> SUFFICES ASSUME NEW q \in Request
               PROVE  /\ pc'[q] \in {"discover", "fetch", "authenticated", "release",
                                     "test", "call"} =>
                           \/ ~req[q].method.auth /\ pc'[q] = "authenticated"
                           \/ EntitledTo(req[q].method, req[q].token, req[q].at)
                      /\ pc'[q] = "authenticated" /\ req[q].method.auth =>
                           Recent(req[q].token.iss, req[q].token.signature.by, now,
                                  Lag + CertTTL + JwtTTL)
                      /\ pc'[q] = "answered" /\ req[q].method.auth =>
                           \/ result'[q] = "UNAUTHENTICATED"
                           \/ /\ result'[q] = "PERMISSION_DENIED"
                              /\ ~isAudienceAllowed(req[q].method, req[q].token)
                           \/ EntitledTo(req[q].method, req[q].token, req[q].at)
                      /\ pc'[q] = "call" => fb'[q].iter \in 1..Len(fb'[q].calls)
    BY <1>1 DEF RequestInvariant, Recent
  <2>1. CASE q = r
    BY <1>2, <2>1
  <2>2. CASE q # r
    BY <1>0, <1>2, <2>2 DEF RequestInvariant
  <2> QED
    BY <2>1, <2>2
<1>7. DecisionInvariant'
  <2>1. now \in Nat /\ verdict \in [CacheKey -> [OK : Int, PERMISSION_DENIED : Int]]
    BY <1>0 DEF AuthTypeOK, RulesTypeOK
  <2>2. \A k \in CacheKey : verdict'[k].OK <= now /\ verdict'[k].PERMISSION_DENIED <= now
    <3> SUFFICES ASSUME NEW k \in CacheKey
                 PROVE  verdict'[k].OK <= now /\ verdict'[k].PERMISSION_DENIED <= now
      OBVIOUS
    <3>1. verdict[k].OK <= now /\ verdict[k].PERMISSION_DENIED <= now
      BY <1>0 DEF DecisionInvariant
    <3>2. verdict'[k].OK \in {verdict[k].OK, now}
      OBVIOUS
    <3>3. verdict'[k].PERMISSION_DENIED \in {verdict[k].PERMISSION_DENIED, now}
      OBVIOUS
    <3> QED
      BY <2>1, <3>1, <3>2, <3>3
  <2> QED
    BY <1>1, <2>2 DEF DecisionInvariant, EntrySound
<1>8. RulesDecided'
  <2> SUFFICES ASSUME NEW q \in Request, RulesEnabled, pc'[q] = "answered",
                      req[q].method.auth
               PROVE  LET v == verdict'[ComposeAuthzCacheKey(q)] IN
                      /\ result'[q] = "OK" => v.OK # Never /\ now <= v.OK + RulesTTL
                      /\ /\ result'[q] = "PERMISSION_DENIED"
                         /\ isAudienceAllowed(req[q].method, req[q].token)
                         => v.PERMISSION_DENIED # Never /\ now <= v.PERMISSION_DENIED + RulesTTL
    BY <1>1 DEF RulesDecided, ComposeAuthzCacheKey
  <2>1. CASE q = r
    BY <1>2, <2>1 DEF DecidedBy
  <2>2. CASE q # r /\ EntitledTo(req[q].method, req[q].token, req[q].at)
    <3> DEFINE k == ComposeAuthzCacheKey(q)
    <3>1. k \in CacheKey
      BY <1>0, <2>2, KeyOf DEF ComposeAuthzCacheKey, EntitledTo, AuthTypeOK
    <3>2. now \in Nat /\ verdict[k].OK \in Int /\ verdict[k].PERMISSION_DENIED \in Int
      BY <1>0, <3>1 DEF AuthTypeOK, RulesTypeOK
    <3>3. /\ result[q] = "OK" => verdict[k].OK # Never /\ now <= verdict[k].OK + RulesTTL
          /\ result[q] = "PERMISSION_DENIED" /\ isAudienceAllowed(req[q].method, req[q].token) =>
               /\ verdict[k].PERMISSION_DENIED # Never
               /\ now <= verdict[k].PERMISSION_DENIED + RulesTTL
      BY <1>0, <1>2, <2>2 DEF RulesDecided
    <3>4. result'[q] = result[q]
      BY <1>2, <2>2
    <3>5. verdict'[k].OK \in {verdict[k].OK, now}
      BY <3>1
    <3>6. verdict'[k].PERMISSION_DENIED \in {verdict[k].PERMISSION_DENIED, now}
      BY <3>1
    <3>7. now # Never /\ now <= now + RulesTTL
      BY <3>2, RulesAssumption DEF Never
    <3> HIDE DEF k
    <3>8. /\ result'[q] = "OK" => verdict'[k].OK # Never /\ now <= verdict'[k].OK + RulesTTL
          /\ result'[q] = "PERMISSION_DENIED" /\ isAudienceAllowed(req[q].method, req[q].token) =>
               /\ verdict'[k].PERMISSION_DENIED # Never
               /\ now <= verdict'[k].PERMISSION_DENIED + RulesTTL
      BY <3>3, <3>4, <3>5, <3>6, <3>7
    <3> QED
      BY <3>8 DEF k
  <2>3. CASE q # r /\ ~EntitledTo(req[q].method, req[q].token, req[q].at)
    BY <1>0, <1>2, <2>3 DEF RequestInvariant
  <2> QED
    BY <2>1, <2>2, <2>3
<1> QED
  BY <1>3, <1>4, <1>5, <1>6, <1>7, <1>8 DEF SecurityInvariant

(* What a step of the rules that leaves cache and history alone starts from. *)
LEMMA EntriesKept ==
  ASSUME SecurityInvariant
  PROVE  /\ authz \in [CacheKey -> [if_success : BOOLEAN, exp : Int]]
         /\ verdict \in [CacheKey -> [OK : Int, PERMISSION_DENIED : Int]]
         /\ \A k \in CacheKey : EntrySound(authz[k], verdict[k])
         /\ now \in Nat
BY DEF SecurityInvariant, RulesTypeOK, DecisionInvariant, EntrySound, AuthTypeOK

LEMMA NoFirebaseType == NoFirebase \in Firebase
<1>1. <<>> \in Seq(Func)
  OBVIOUS
<1> QED
  BY <1>1 DEF NoFirebase, Firebase

(* What is known of a request that waits for the rules service.              *)
LEMMA WaitingForRules ==
  ASSUME SecurityInvariant, NEW r \in Request, pc[r] \in {"release", "test", "call"}
  PROVE  /\ EntitledTo(req[r].method, req[r].token, req[r].at)
         /\ ComposeAuthzCacheKey(r) \in CacheKey
         /\ fb[r] \in Firebase
         /\ result[r] \in Result
<1>1. AuthTypeOK /\ RequestInvariant /\ RulesTypeOK
  BY DEF SecurityInvariant
<1>2. EntitledTo(req[r].method, req[r].token, req[r].at)
  BY <1>1 DEF RequestInvariant
<1>3. req[r].method \in Method /\ req[r].token \in Token /\ result[r] \in Result
  BY <1>1, <1>2 DEF AuthTypeOK, EntitledTo, Result
<1> QED
  BY <1>1, <1>2, <1>3, KeyOf DEF ComposeAuthzCacheKey, RulesTypeOK, Firebase

LEMMA RulesCheckStep ==
  ASSUME SecurityInvariant, NEW r \in Request, RulesCheck(r)
  PROVE  SecurityInvariant'
<1> DEFINE k == ComposeAuthzCacheKey(r)
           m == req[r].method
<1>0. /\ Rest /\ verdict' = verdict
      /\ AuthTypeOK /\ RequestInvariant /\ pc[r] = "authenticated"
  BY DEF RulesCheck, SecurityInvariant
<1>1. EntitledTo(m, req[r].token, req[r].at) \/ ~m.auth
  BY <1>0 DEF RequestInvariant
<1>2. /\ verdict' \in [CacheKey -> [OK : Int, PERMISSION_DENIED : Int]]
      /\ \A x \in CacheKey : /\ verdict'[x].OK \in {verdict[x].OK, now}
                              /\ verdict'[x].PERMISSION_DENIED
                                   \in {verdict[x].PERMISSION_DENIED, now}
  BY <1>0, EntriesKept
<1>3. /\ UNCHANGED authz =>
           /\ authz' \in [CacheKey -> [if_success : BOOLEAN, exp : Int]]
           /\ \A x \in CacheKey : EntrySound(authz'[x], verdict'[x])
  BY <1>0, EntriesKept, SMTT(30)
<1>4. CASE ~RulesEnabled \/ ~m.auth
  <2>1. FinalContinuation(r, "OK") /\ UNCHANGED authz
    BY <1>4 DEF RulesCheck
  <2> HIDE DEF k, m
  <2> QED
    BY <1>0, <1>1, <1>2, <1>3, <1>4, <2>1, RulesStep, NoFirebaseType
       DEF FinalContinuation, Result, m
<1>5. CASE RulesEnabled /\ m.auth
  <2>0. k \in CacheKey
    BY <1>0, <1>1, <1>5, KeyOf DEF ComposeAuthzCacheKey, EntitledTo, AuthTypeOK
  <2>1. CASE Lookup(k)
    <3> DEFINE s == IF authz[k].if_success THEN "OK" ELSE "PERMISSION_DENIED"
    <3>1. FinalContinuation(r, s) /\ UNCHANGED authz
      BY <1>5, <2>1 DEF RulesCheck
    <3>2. DecidedBy(verdict', k, s)
      <4>1. EntrySound(authz[k], verdict[k]) /\ authz[k].exp \in Int /\ now \in Nat
            /\ verdict[k].OK \in Int /\ verdict[k].PERMISSION_DENIED \in Int
        BY <2>0, EntriesKept
      <4>2. authz[k].exp # Never /\ now <= authz[k].exp
        BY <2>1 DEF Lookup
      <4> QED
        BY <1>0, <4>1, <4>2, RulesAssumption DEF EntrySound, DecidedBy
    <3>3. s \in Result
      BY DEF Result
    <3> HIDE DEF s
    <3> QED
      BY <1>0, <1>1, <1>2, <1>3, <3>1, <3>2, <3>3, RulesStep, NoFirebaseType
         DEF FinalContinuation
  <2>2. CASE ~Lookup(k)
    <3>1. Goto(r, "release", NoFirebase) /\ authz' = [authz EXCEPT ![k] = NoEntry]
      BY <1>5, <2>2 DEF RulesCheck
    <3>2. NoEntry \in [if_success : BOOLEAN, exp : Int] /\ NoEntry.exp = Never
      BY DEF NoEntry, Never
    <3>3. /\ authz' \in [CacheKey -> [if_success : BOOLEAN, exp : Int]]
          /\ \A x \in CacheKey : authz'[x] \in {authz[x], NoEntry}
      BY <3>1, <3>2, EntriesKept
    <3>4. \A x \in CacheKey : EntrySound(authz'[x], verdict'[x])
      BY <1>0, <3>2, <3>3, EntriesKept DEF EntrySound
    <3>5. result' = [result EXCEPT ![r] = result[r]] /\ result[r] \in Result
      BY <1>0, <3>1 DEF Goto, AuthTypeOK, Result
    <3>6. EntitledTo(m, req[r].token, req[r].at)
      BY <1>1, <1>5
    <3> QED
      BY <1>0, <1>2, <3>1, <3>3, <3>4, <3>5, <3>6, RulesStep, NoFirebaseType DEF Goto
  <2> QED
    BY <2>1, <2>2
<1> QED
  BY <1>4, <1>5

LEMMA ParseReleaseResponseStep ==
  ASSUME SecurityInvariant, NEW r \in Request, ParseReleaseResponse(r)
  PROVE  SecurityInvariant'
<1>1. /\ Rest /\ verdict' = verdict /\ authz' = authz /\ AuthTypeOK
      /\ EntitledTo(req[r].method, req[r].token, req[r].at)
      /\ pc[r] = "release" /\ result[r] \in Result
  BY WaitingForRules DEF ParseReleaseResponse, SecurityInvariant
<1>2. /\ authz' \in [CacheKey -> [if_success : BOOLEAN, exp : Int]]
      /\ verdict' \in [CacheKey -> [OK : Int, PERMISSION_DENIED : Int]]
      /\ \A x \in CacheKey : EntrySound(authz'[x], verdict'[x])
      /\ \A x \in CacheKey : /\ verdict'[x].OK \in {verdict[x].OK, now}
                              /\ verdict'[x].PERMISSION_DENIED
                                   \in {verdict[x].PERMISSION_DENIED, now}
  BY <1>1, EntriesKept
<1>3. ASSUME NEW s \in {"INTERNAL", "INVALID_ARGUMENT"}, FinalContinuation(r, s)
      PROVE  SecurityInvariant'
  <2>1. s \in Result /\ DecidedBy(verdict', ComposeAuthzCacheKey(r), s)
    BY <1>3 DEF DecidedBy, Result
  <2> QED
    BY <1>1, <1>2, <1>3, <2>1, RulesStep, NoFirebaseType DEF FinalContinuation
<1>4. CASE Goto(r, "test", NoFirebase)
  <2>1. result' = [result EXCEPT ![r] = result[r]]
    BY <1>1, <1>4 DEF Goto, AuthTypeOK
  <2> QED
    BY <1>1, <1>2, <1>4, <2>1, RulesStep, NoFirebaseType DEF Goto
<1> QED
  BY <1>3, <1>4 DEF ParseReleaseResponse

(* The history grows: a verdict stays or is given now.                       *)
Grows ==
  /\ verdict' \in [CacheKey -> [OK : Int, PERMISSION_DENIED : Int]]
  /\ \A x \in CacheKey : /\ verdict'[x].OK \in {verdict[x].OK, now}
                          /\ verdict'[x].PERMISSION_DENIED
                               \in {verdict[x].PERMISSION_DENIED, now}

(* Entries that were sound stay sound when the history grows.                *)
LEMMA GrowsSound ==
  ASSUME SecurityInvariant, Grows, NEW x \in CacheKey
  PROVE  EntrySound(authz[x], verdict'[x])
<1>1. /\ EntrySound(authz[x], verdict[x]) /\ authz[x].exp \in Int /\ now \in Nat
      /\ verdict[x].OK \in Int /\ verdict[x].PERMISSION_DENIED \in Int
  BY EntriesKept
<1>2. verdict[x].OK <= now /\ verdict[x].PERMISSION_DENIED <= now
  BY DEF SecurityInvariant, DecisionInvariant
<1>3. verdict'[x].OK \in {verdict[x].OK, now}
  BY DEF Grows
<1>4. verdict'[x].PERMISSION_DENIED \in {verdict[x].PERMISSION_DENIED, now}
  BY DEF Grows
<1> QED
  BY <1>1, <1>2, <1>3, <1>4, RulesAssumption DEF EntrySound, Never

(* Handing an outcome on and caching it is sound if it is an error, or a     *)
(* decision the service has made just now.                                   *)
LEMMA DoneStep ==
  ASSUME SecurityInvariant, Rest, NEW r \in Request, pc[r] \in {"test", "call"}, Grows,
         NEW s \in {"OK", "PERMISSION_DENIED", "INTERNAL", "INVALID_ARGUMENT"}, Done(r, s),
         s = "OK" => verdict'[ComposeAuthzCacheKey(r)].OK = now,
         s = "PERMISSION_DENIED" => verdict'[ComposeAuthzCacheKey(r)].PERMISSION_DENIED = now
  PROVE  SecurityInvariant'
<1> DEFINE k == ComposeAuthzCacheKey(r)
<1>1. EntitledTo(req[r].method, req[r].token, req[r].at) /\ k \in CacheKey
  BY WaitingForRules
<1>2. now \in Nat /\ authz \in [CacheKey -> [if_success : BOOLEAN, exp : Int]]
  BY EntriesKept
<1>3. DecidedBy(verdict', k, s)
  BY <1>2, RulesAssumption DEF DecidedBy, Never
<1>4. /\ authz' \in [CacheKey -> [if_success : BOOLEAN, exp : Int]]
      /\ \A x \in CacheKey : EntrySound(authz'[x], verdict'[x])
  <2>1. CASE s \in Decision
    <3> DEFINE e == [if_success |-> s = "OK", exp |-> now + RulesTTL]
    <3>1. authz' = [authz EXCEPT ![k] = e]
      BY <2>1 DEF Done, InsertCache
    <3>2. e \in [if_success : BOOLEAN, exp : Int] /\ EntrySound(e, verdict'[k])
      <4>1. e \in [if_success : BOOLEAN, exp : Int]
        BY <1>2, RulesAssumption
      <4>2. e.exp <= now + RulesTTL /\ now # Never
        BY <1>2, RulesAssumption DEF Never
      <4>5. e.if_success <=> s = "OK"
        BY Zenon
      <4>3. s \in {"OK", "PERMISSION_DENIED"}
        BY <2>1 DEF Decision
      <4> HIDE DEF e
      <4>4. EntrySound(e, verdict'[k])
        BY <4>2, <4>3, <4>5 DEF EntrySound
      <4> QED
        BY <4>1, <4>4
    <3> HIDE DEF e
    <3>3. /\ authz' \in [CacheKey -> [if_success : BOOLEAN, exp : Int]] /\ authz'[k] = e
          /\ \A x \in CacheKey \ {k} : authz'[x] = authz[x]
      BY <1>1, <1>2, <3>1, <3>2
    <3>4. ASSUME NEW x \in CacheKey PROVE EntrySound(authz'[x], verdict'[x])
      BY <3>2, <3>3, GrowsSound
    <3> QED
      BY <3>3, <3>4
  <2>2. CASE s \notin Decision
    <3>1. authz' = authz
      BY <2>2 DEF Done, InsertCache
    <3>2. ASSUME NEW x \in CacheKey PROVE EntrySound(authz'[x], verdict'[x])
      BY <3>1, GrowsSound
    <3> QED
      BY <1>2, <3>1, <3>2
  <2> QED
    BY <2>1, <2>2
<1>5. s \in Result
  BY DEF Result
<1> HIDE DEF k
<1>6. DecidedBy(verdict', ComposeAuthzCacheKey(r), s)
  BY <1>3 DEF k
<1> QED
  BY <1>1, <1>4, <1>5, <1>6, RulesStep, NoFirebaseType DEF Done, FinalContinuation, Grows

(* An error is handed on without being cached.                               *)
LEMMA FailStep ==
  ASSUME SecurityInvariant, Rest, NEW r \in Request, pc[r] \in {"test", "call"},
         UNCHANGED <<authz, verdict>>, FinalContinuation(r, "INTERNAL")
  PROVE  SecurityInvariant'
<1>1. EntitledTo(req[r].method, req[r].token, req[r].at)
  BY WaitingForRules
<1>2. /\ authz' \in [CacheKey -> [if_success : BOOLEAN, exp : Int]]
      /\ verdict' \in [CacheKey -> [OK : Int, PERMISSION_DENIED : Int]]
      /\ \A x \in CacheKey : EntrySound(authz'[x], verdict'[x])
      /\ \A x \in CacheKey : /\ verdict'[x].OK \in {verdict[x].OK, now}
                              /\ verdict'[x].PERMISSION_DENIED
                                   \in {verdict[x].PERMISSION_DENIED, now}
  BY EntriesKept
<1>3. DecidedBy(verdict', ComposeAuthzCacheKey(r), "INTERNAL") /\ "INTERNAL" \in Result
  BY DEF DecidedBy, Result
<1> QED
  BY <1>1, <1>2, <1>3, RulesStep, NoFirebaseType DEF FinalContinuation

(* NextCall finds a call that is there, or the position after the last one.  *)
LEMMA NextCallType ==
  ASSUME NEW f \in Firebase
  PROVE  NextCall(f) \in Nat \ {0} /\ (NextCall(f) <= Len(f.calls) => NextCall(f) \in 1..Len(f.calls))
<1> DEFINE n == Len(f.calls)
           open == {i \in f.iter..n : ~Find(f, f.calls[i])}
<1>1. n \in Nat /\ f.iter \in Nat \ {0}
  BY DEF Firebase
<1>2. CASE open = {}
  BY <1>1, <1>2 DEF NextCall
<1>3. CASE open # {}
  <2>1. open \subseteq Nat
    BY <1>1
  <2>2. \E i \in open : \A j \in open : i <= j
    BY <1>3, <2>1, Least
  <2>3. NextCall(f) \in open
    BY <1>3, <2>2 DEF NextCall
  <2> QED
    BY <1>1, <2>3
<1> QED
  BY <1>2, <1>3

LEMMA SetNextRequestStep ==
  ASSUME SecurityInvariant, Rest, NEW r \in Request, pc[r] \in {"test", "call"}, Grows,
         NEW f \in Firebase, SetNextRequest(r, f)
  PROVE  SecurityInvariant'
<1> DEFINE g == [f EXCEPT !.iter = NextCall(f)]
<1>1. EntitledTo(req[r].method, req[r].token, req[r].at) /\ result[r] \in Result
  BY WaitingForRules
<1>2. g \in Firebase /\ (g.iter <= Len(g.calls) => g.iter \in 1..Len(g.calls))
  BY NextCallType DEF Firebase
<1>3. UNCHANGED authz =>
        /\ authz' \in [CacheKey -> [if_success : BOOLEAN, exp : Int]]
        /\ \A x \in CacheKey : EntrySound(authz'[x], verdict'[x])
  <2> SUFFICES ASSUME authz' = authz
               PROVE  /\ authz' \in [CacheKey -> [if_success : BOOLEAN, exp : Int]]
                      /\ \A x \in CacheKey : EntrySound(authz'[x], verdict'[x])
    OBVIOUS
  <2>1. ASSUME NEW x \in CacheKey PROVE EntrySound(authz'[x], verdict'[x])
    BY GrowsSound
  <2> QED
    BY <2>1, EntriesKept
<1>4. result' = result => result' = [result EXCEPT ![r] = result[r]]
  BY DEF SecurityInvariant, AuthTypeOK
<1>5. \/ g.iter <= Len(g.calls) /\ Goto(r, "call", g) /\ UNCHANGED authz
      \/ Goto(r, "test", g) /\ UNCHANGED authz
      \/ Done(r, "INTERNAL") \/ Done(r, "INVALID_ARGUMENT")
  BY DEF SetNextRequest
<1> HIDE DEF g
<1>6. CASE g.iter <= Len(g.calls) /\ Goto(r, "call", g) /\ UNCHANGED authz
  BY <1>1, <1>2, <1>3, <1>4, <1>6, RulesStep DEF Goto, Grows
<1>7. CASE Goto(r, "test", g) /\ UNCHANGED authz
  BY <1>1, <1>2, <1>3, <1>4, <1>7, RulesStep DEF Goto, Grows
<1>8. CASE Done(r, "INTERNAL") \/ Done(r, "INVALID_ARGUMENT")
  BY <1>8, DoneStep
<1> QED
  BY <1>5, <1>6, <1>7, <1>8

(* A result of the service denies exactly when ESP makes a denial of it.     *)
LEMMA TestResultStep ==
  ASSUME SecurityInvariant, Rest, NEW r \in Request, pc[r] = "test", NEW t \in TestResult,
         ProcessTestRulesetResponse(r, t),
         verdict' =
           LET k == ComposeAuthzCacheKey(r) IN
           [verdict EXCEPT ![k] =
              [OK |-> IF t.state = "SUCCESS" THEN now ELSE @.OK,
               PERMISSION_DENIED |-> IF Denies(r, t) THEN now ELSE @.PERMISSION_DENIED]]
  PROVE  SecurityInvariant'
<1> DEFINE k == ComposeAuthzCacheKey(r)
           f == [fb[r] EXCEPT !.calls = t.calls, !.iter = 1]
           v == [OK |-> IF t.state = "SUCCESS" THEN now ELSE verdict[k].OK,
                 PERMISSION_DENIED |-> IF Denies(r, t) THEN now ELSE verdict[k].PERMISSION_DENIED]
<1>1. k \in CacheKey /\ fb[r] \in Firebase
  BY WaitingForRules
<1>2. now \in Nat /\ verdict \in [CacheKey -> [OK : Int, PERMISSION_DENIED : Int]]
  BY EntriesKept
<1>3. verdict' = [verdict EXCEPT ![k] = v]
  OBVIOUS
<1>4. /\ v \in [OK : Int, PERMISSION_DENIED : Int]
      /\ v.OK \in {verdict[k].OK, now}
      /\ v.PERMISSION_DENIED \in {verdict[k].PERMISSION_DENIED, now}
      /\ t.state = "SUCCESS" => v.OK = now
      /\ Denies(r, t) => v.PERMISSION_DENIED = now
  BY <1>1, <1>2
<1> HIDE DEF v
<1>5. /\ verdict' \in [CacheKey -> [OK : Int, PERMISSION_DENIED : Int]]
      /\ verdict'[k] = v /\ \A x \in CacheKey \ {k} : verdict'[x] = verdict[x]
  BY <1>1, <1>2, <1>3, <1>4
<1>6. Grows
  BY <1>4, <1>5 DEF Grows
<1>7. f \in Firebase /\ f.funcs_with_result = fb[r].funcs_with_result
  <2>1. t.calls \in Seq(Func)
    BY RulesAssumption DEF TestResult
  <2> DEFINE w == fb[r]
             cs == t.calls
             one == 1
             g == [w EXCEPT !.calls = cs, !.iter = one]
  <2>2. w \in Firebase /\ cs \in Seq(Func) /\ one \in Nat \ {0}
    BY <1>1, <2>1
  <2> HIDE DEF w, cs, one
  <2>3. g \in Firebase /\ g.funcs_with_result = w.funcs_with_result
    BY <2>2 DEF Firebase
  <2> QED
    BY <2>3 DEF w, cs, one
<1>8. \/ t.state = "SUCCESS" /\ Done(r, "OK")
      \/ Done(r, "INTERNAL")
      \/ Done(r, "INVALID_ARGUMENT")
      \/ /\ t.state # "SUCCESS" /\ t.results = 1
         /\ \A i \in DOMAIN t.calls : CheckFuncCallArgs(t.calls[i])
         /\ \A i \in DOMAIN t.calls : Find(f, t.calls[i])
         /\ Done(r, "PERMISSION_DENIED")
      \/ SetNextRequest(r, f)
  BY DEF ProcessTestRulesetResponse
<1>9. CASE t.state = "SUCCESS" /\ Done(r, "OK")
  BY <1>4, <1>5, <1>6, <1>9, DoneStep
<1>10. CASE Done(r, "INTERNAL")
  BY <1>6, <1>10, DoneStep
<1>11. CASE Done(r, "INVALID_ARGUMENT")
  BY <1>6, <1>11, DoneStep
<1>12. CASE /\ t.state # "SUCCESS" /\ t.results = 1
            /\ \A i \in DOMAIN t.calls : CheckFuncCallArgs(t.calls[i])
            /\ \A i \in DOMAIN t.calls : Find(f, t.calls[i])
            /\ Done(r, "PERMISSION_DENIED")
  <2>1. Denies(r, t)
    BY <1>7, <1>12 DEF Denies, TestResult, CheckFuncCallArgs, Find
  <2> QED
    BY <1>4, <1>5, <1>6, <1>12, <2>1, DoneStep
<1>13. CASE SetNextRequest(r, f)
  <2> HIDE DEF f
  <2> QED
    BY <1>6, <1>7, <1>13, SetNextRequestStep
<1> QED
  BY <1>8, <1>9, <1>10, <1>11, <1>12, <1>13

LEMMA TestAnsweredStep ==
  ASSUME SecurityInvariant, NEW r \in Request, TestAnswered(r)
  PROVE  SecurityInvariant'
<1>1. Rest /\ pc[r] = "test"
  BY DEF TestAnswered
<1>2. CASE FinalContinuation(r, "INTERNAL") /\ UNCHANGED <<authz, verdict>>
  BY <1>1, <1>2, FailStep
<1>3. CASE Done(r, "INVALID_ARGUMENT") /\ UNCHANGED verdict
  <2>1. Grows
    BY <1>3, EntriesKept DEF Grows
  <2> QED
    BY <1>1, <1>3, <2>1, DoneStep
<1>4. ASSUME NEW t \in TestResult, ProcessTestRulesetResponse(r, t),
             verdict' =
               LET k == ComposeAuthzCacheKey(r) IN
               [verdict EXCEPT ![k] =
                  [OK |-> IF t.state = "SUCCESS" THEN now ELSE @.OK,
                   PERMISSION_DENIED |-> IF Denies(r, t) THEN now ELSE @.PERMISSION_DENIED]]
      PROVE  SecurityInvariant'
  BY <1>1, <1>4, TestResultStep
<1> QED
  BY <1>2, <1>3, <1>4 DEF TestAnswered

LEMMA CallAnsweredStep ==
  ASSUME SecurityInvariant, NEW r \in Request, CallAnswered(r)
  PROVE  SecurityInvariant'
<1>1. Rest /\ pc[r] = "call" /\ verdict' = verdict
  BY DEF CallAnswered
<1>2. Grows
  BY <1>1, EntriesKept DEF Grows
<1>3. CASE FinalContinuation(r, "INTERNAL") /\ UNCHANGED authz
  BY <1>1, <1>3, FailStep
<1>4. ASSUME NEW json \in BOOLEAN,
             LET f == fb[r]
                 c == f.calls[f.iter]
             IN  SetNextRequest(r, [f EXCEPT !.iter = @ + 1,
                                             !.funcs_with_result = @ \union {c},
                                             !.bad = IF json THEN @ ELSE @ \union {c}])
      PROVE  SecurityInvariant'
  <2> DEFINE f == fb[r]
             c == f.calls[f.iter]
             g == [f EXCEPT !.iter = @ + 1, !.funcs_with_result = @ \union {c},
                            !.bad = IF json THEN @ ELSE @ \union {c}]
  <2>1. f \in Firebase /\ f.iter \in 1..Len(f.calls)
    BY <1>1, WaitingForRules DEF SecurityInvariant, RequestInvariant
  <2>2. c \in Func
    BY <2>1 DEF Firebase
  <2>3. g \in Firebase
    <3> DEFINE b == IF json THEN f.bad ELSE f.bad \union {c}
    <3>1. /\ f.iter + 1 \in Nat \ {0} /\ f.funcs_with_result \union {c} \in SUBSET Func
          /\ b \in SUBSET Func
      BY <2>1, <2>2 DEF Firebase
    <3>2. g = [f EXCEPT !.iter = f.iter + 1, !.funcs_with_result = f.funcs_with_result \union {c},
                        !.bad = b]
      OBVIOUS
    <3> HIDE DEF b, c, g
    <3> QED
      BY <2>1, <3>1, <3>2 DEF Firebase
  <2>4. SetNextRequest(r, g)
    BY <1>4
  <2> HIDE DEF g
  <2> QED
    BY <1>1, <1>2, <2>3, <2>4, SetNextRequestStep
<1> QED
  BY <1>3, <1>4 DEF CallAnswered

-----------------------------------------------------------------------------
LEMMA SecurityInit == Init => SecurityInvariant
<1> SUFFICES ASSUME Init PROVE SecurityInvariant
  OBVIOUS
<1>0. AuthInit
  BY DEF Init
<1>1. /\ FirstKey \in [Issuer -> Key]
      /\ published = [i \in Issuer |-> {FirstKey[i]}]
  BY <1>0, AuthAssumption DEF AuthInit
<1>2. AuthTypeOK
  <2>1. NoRequest \in [method : Method, token : Token \union {NoToken, EmptyToken}, at : Int]
    BY AuthAssumption DEF NoRequest, Never
  <2>2. NoAnswer \in [keys : SUBSET Key, at : Int]
    BY DEF NoAnswer, Never
  <2>3. NoCert \in [doc : Documents, exp : Int]
    BY DEF NoCert, Documents, Never
  <2>4. published \in [Issuer -> (SUBSET Key) \ {{}}]
    BY <1>1
  <2>5. jwks \in [Issuer -> [uri : BOOLEAN, openid : BOOLEAN]]
    BY <1>0 DEF AuthInit
  <2>6. seen \in [Issuer -> [Key -> Int]]
    BY <1>0 DEF AuthInit, Never
  <2>7. /\ now \in Nat /\ certs \in [Issuer -> [doc : Documents, exp : Int]]
        /\ jwtCache \in [Token -> Int]
    BY <1>0, <2>3 DEF AuthInit, Never
  <2>8. /\ pc = [r \in Request |-> "idle"] /\ req = [r \in Request |-> NoRequest]
        /\ answer = [r \in Request |-> NoAnswer] /\ result = [r \in Request |-> "none"]
    BY <1>0 DEF AuthInit
  <2> QED
    BY <2>1, <2>2, <2>4, <2>5, <2>6, <2>7, <2>8 DEF AuthTypeOK
<1>3. RulesTypeOK
  <2>1. NoFirebase \in Firebase
    BY NoFirebaseType
  <2> QED
    BY <2>1 DEF Init, RulesTypeOK, NoEntry, Never, Firebase
<1>4. KeyInvariant
  <2>1. \A i \in Issuer, k \in Key : seen[i][k] <= now
    BY <1>0 DEF AuthInit, Never
  <2>2. \A i \in Issuer : \A k \in published[i] : seen[i][k] = now
    BY <1>0, <1>1 DEF AuthInit
  <2>3. \A i \in Issuer : certs[i].exp = Never
    BY <1>0 DEF AuthInit, NoCert
  <2>4. \A t \in Token : jwtCache[t] = Never
    BY <1>0 DEF AuthInit
  <2>5. \A r \in Request : answer[r] = NoAnswer
    BY <1>0 DEF AuthInit
  <2> QED
    BY <2>1, <2>2, <2>3, <2>4, <2>5 DEF KeyInvariant
<1>5. RequestInvariant /\ RulesDecided
  BY <1>0 DEF AuthInit, RequestInvariant, RulesDecided
<1>6. DecisionInvariant
  BY <1>0 DEF Init, AuthInit, DecisionInvariant, NoEntry, Never
<1> QED
  BY <1>2, <1>3, <1>4, <1>5, <1>6 DEF SecurityInvariant

LEMMA SecurityNext == SecurityInvariant /\ [Next]_vars => SecurityInvariant'
<1> SUFFICES ASSUME SecurityInvariant, [Next]_vars PROVE SecurityInvariant'
  OBVIOUS
<1>1. CASE AuthEnv /\ UNCHANGED rulesVars
  BY <1>1, TickStep, RotateStep DEF AuthEnv
<1>2. ASSUME NEW r \in Request, Check(r), UNCHANGED rulesVars PROVE SecurityInvariant'
  BY <1>2, CheckStep
<1>3. ASSUME NEW r \in Request, Step(r) PROVE SecurityInvariant'
  BY <1>3, ServeStep, PostFetchJwksUriStep, PostFetchPubKeyStep, RulesCheckStep,
     ParseReleaseResponseStep, TestAnsweredStep, CallAnsweredStep, SMTT(30) DEF Step
<1>4. CASE UNCHANGED vars
  <2>1. /\ now' = now /\ published' = published /\ seen' = seen /\ jwks' = jwks
        /\ certs' = certs /\ jwtCache' = jwtCache /\ pc' = pc /\ req' = req
        /\ answer' = answer /\ result' = result
        /\ authz' = authz /\ fb' = fb /\ verdict' = verdict
    BY <1>4 DEF vars, authVars, rulesVars
  <2> QED
    BY <2>1 DEF SecurityInvariant, AuthTypeOK, RulesTypeOK, KeyInvariant, RequestInvariant,
                DecisionInvariant, RulesDecided, Recent, EntitledTo, ComposeAuthzCacheKey
<1> QED
  BY <1>1, <1>2, <1>3, <1>4 DEF Next

(* The invariant of authentication and authorization holds throughout.       *)
THEOREM SecurityInvariantHolds == Spec => []SecurityInvariant
BY SecurityInit, SecurityNext, PTL DEF Spec

(* AuthChecker: a request gets through to a method with authentication only  *)
(* with a token the method takes, whichever request filled the caches.       *)
THEOREM OnlyEntitledPass == Spec => []EntitledInTime
<1>1. SecurityInvariant => EntitledInTime
  <2> SUFFICES ASSUME SecurityInvariant, NEW r \in Request, pc[r] = "authenticated",
                      req[r].method.auth
               PROVE  LET t == req[r].token
                          allowed == req[r].method.providers
                      IN
                      /\ t.iss \in DOMAIN allowed
                      /\ t.aud \intersect ({ServiceName} \union allowed[t.iss]) # {}
                      /\ req[r].at <= t.exp + Skew
    BY DEF EntitledInTime
  <2>1. EntitledTo(req[r].method, req[r].token, req[r].at)
    BY DEF SecurityInvariant, RequestInvariant
  <2> QED
    BY <2>1 DEF EntitledTo, isIssuerAllowed, isAudienceAllowed, UpdateAudience
<1> QED
  BY <1>1, SecurityInvariantHolds, PTL

(* The caches of keys and of tokens: a token gets through only by a key its  *)
(* own issuer has published, and once both caches have run out no longer by  *)
(* one that issuer has withdrawn, in whatever order answers arrive.          *)
THEOREM RevokedKeyRunsOut == Spec => []RevokedKeyWindow
<1>1. SecurityInvariant => RevokedKeyWindow
  <2> SUFFICES ASSUME SecurityInvariant, NEW r \in Request, pc[r] = "authenticated",
                      req[r].method.auth
               PROVE  LET t == req[r].token
                          last == seen[t.iss][t.signature.by]
                      IN  last # Never /\ now <= last + Lag + CertTTL + JwtTTL
    BY DEF RevokedKeyWindow
  <2>1. Recent(req[r].token.iss, req[r].token.signature.by, now, Lag + CertTTL + JwtTTL)
    BY DEF SecurityInvariant, RequestInvariant
  <2>2. seen[req[r].token.iss][req[r].token.signature.by] \in Int
    BY <2>1 DEF Recent, SecurityInvariant, AuthTypeOK
  <2> QED
    BY <2>1, <2>2, Constants DEF Recent
<1> QED
  BY <1>1, SecurityInvariantHolds, PTL

(* AuthzChecker and AuthzCache: the rules let a request pass, or refuse it,  *)
(* only if the service said so no longer ago than the cache keeps it.        *)
THEOREM ServiceDecides == Spec => []RulesDecided
<1>1. SecurityInvariant => RulesDecided
  BY DEF SecurityInvariant
<1> QED
  BY <1>1, SecurityInvariantHolds, PTL
=============================================================================
