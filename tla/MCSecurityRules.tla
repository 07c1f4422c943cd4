--------------------------- MODULE MCSecurityRules ---------------------------
(* For authentication: a token of one issuer for the service and one of      *)
(* another issuer for an audience that one method allows this issuer, and    *)
(* another method only the first issuer; either issuer has to rotate its key *)
(* before it publishes the one that signed the second token.  For the rules: *)
(* one token that does not expire and two paths, and a method without        *)
(* authentication.                                                           *)
EXTENDS SecurityRules, TLC

T(iss, key, aud, exp) ==
  [header |-> "json", claims |-> "json", alg |-> "RS256", kid |-> key, iss |-> iss,
   aud |-> {aud}, nbf |-> 0, exp |-> exp,
   signature |-> [by |-> key, hash |-> "sha256", length |-> 256]]
M(auth, providers, path) ==
  [auth |-> auth, providers |-> providers, path |-> path, verb |-> "GET"]
Carry(iap, authorization, query) ==
  [iap |-> iap, authorization |-> authorization, query |-> query]

Long == T("iss", "k1", "svc", 9)
Short == T("idp", "k2", "web", 1)
Own == T("iss", "k1", "web", 9)
MCToken == {Own, Short}
MCMethod ==
  {M(TRUE, ("iss" :> {"web"}) @@ ("idp" :> {}), "/a"),
   M(TRUE, ("iss" :> {}) @@ ("idp" :> {"web"}), "/b")}
MCCredentials ==
  {Carry(NoToken, Own, Short), Carry(Short, Own, NoToken), Carry(EmptyToken, Own, NoToken)}
MCFirstKey == [i \in Issuer |-> "k1"]

RulesToken == {Long}
RulesMethod ==
  {M(TRUE, "iss" :> {}, "/a"), M(TRUE, "iss" :> {}, "/b"), M(FALSE, <<>>, "/c")}
RulesCredentials == {Carry(NoToken, NoToken, Long)}

MCDocument(ks) ==
  LET k == CHOOSE x \in ks : TRUE
  IN  [form |-> "jwks",
       keys |-> << [kid |-> k, kty |-> "RSA", fields |-> {"n", "e"}, key |-> k] >>]

Symm == Permutations(Request)

-----------------------------------------------------------------------------
(* The validator over all its algorithms and forms of documents.             *)
SomeKid == {None, "k1", "k2"}
SomeToken ==
  {[Long EXCEPT !.alg = alg, !.kid = kid, !.signature = [by |-> k, hash |-> h, length |-> n]] :
     alg \in RSAlg \union {"HS256", "HS512", "ES256"}, kid \in SomeKid, k \in {"k1", "k2"},
     h \in {"sha256", "sha512"}, n \in {32, 64}}
SomeEntry ==
  [kid : SomeKid, key : {"k1", "k2"}, kty : {"RSA", "EC"}, pem : BOOLEAN,
   fields : {{"n", "e"}, {"x", "y"}, {"n"}}]
SomeDocument ==
  [form : {"jwks", "x509", "secret", "other"},
   keys : [1..2 -> {e \in SomeEntry : e.kid = e.key \/ e.kid = None}]]

(* A signature passes only if a key of the document has made it over the     *)
(* hash of the token's algorithm, the key of the token's kid if it has one,  *)
(* and never is a published key taken for an HMAC secret.                    *)
ASSUME SignatureNeedsKey ==
  \A t \in SomeToken, d \in SomeDocument : VerifySignature(t, d) =>
    /\ \E i \in DOMAIN d.keys :
         /\ d.keys[i].key = t.signature.by
         /\ d.form # "secret" => t.kid \in {None, d.keys[i].kid}
    /\ t.alg # "ES256" => t.signature.hash = EvpMdFromAlg(t.alg)
    /\ (d.form = "secret") <=> (t.alg \in {"HS256", "HS512"})

(* The tokens ESP signs pass its own validator until they expire.            *)
ASSUME GeneratedTokensPass ==
  \A secret \in {"s1", "s2"}, now0 \in {0, 10} :
    \A t \in GenerateTokenSymmetricKey([issuer |-> "iss", subject |-> "sub", base64 |-> TRUE,
                                        client_secret |-> secret], "svc", now0) :
      /\ \A d \in {-1, 0, 1} :
           Parse(t, now0 + TOKEN_LIFETIME + d, 0) <=> d <= 0
      /\ \A other \in {"s1", "s2"} :
           VerifySignature(t, [form |-> "secret", keys |-> << [key |-> other] >>])
             <=> other = secret
=============================================================================
