---------------------------- MODULE JwtValidator ----------------------------
(* JwtValidator (auth/lib/auth_jwt_validator.cc): parsing a token and        *)
(* verifying its signature against the key document of its issuer, and the   *)
(* tokens ESP's own tools sign (auth/lib/auth_token.cc).  A token is the     *)
(* record of what its parts decode to; every error is UNAUTHENTICATED.       *)
EXTENDS Integers, Sequences

None == "none"          \* an absent field

RSAlg == {"RS256", "RS384", "RS512"}

EvpMdFromAlg(alg) ==
  CASE alg \in {"RS256", "HS256"} -> "sha256"
    [] alg \in {"RS384", "HS384"} -> "sha384"
    [] alg \in {"RS512", "HS512"} -> "sha512"
    [] OTHER -> None

HashSizeFromAlg(alg) ==
  CASE alg = "HS256" -> 32 [] alg = "HS384" -> 48 [] alg = "HS512" -> 64 [] OTHER -> 0

(* DecodeBase64AndParseJson of a section of the token: a dot ends it, and it *)
(* must be base64 of a JSON object.                                          *)
DecodeBase64AndParseJson(section) == section = "json"

CreateJoseHeader(t) == t.alg # None /\ (EvpMdFromAlg(t.alg) # None \/ t.alg = "ES256")

(* UpdateAudience keeps the strings of an array, or the one string.          *)
UpdateAudience(t) == {a \in t.aud : a # "not a string"}

(* grpc_jwt_claims_check allows the clocks to differ by skew.                *)
ClaimsCheck(t, now, skew) == t.nbf - skew <= now /\ now <= t.exp + skew

ParseImpl(t, now, skew) ==
  /\ DecodeBase64AndParseJson(t.header) /\ CreateJoseHeader(t)
  /\ DecodeBase64AndParseJson(t.claims)
  /\ t.iss # None
  /\ ClaimsCheck(t, now, skew)
  /\ t.signature.length > 0
  /\ t.alg = "ES256" => t.signature.length = 64

(* Parse: FillUserInfoAndSetExp also needs an audience.                      *)
Parse(t, now, skew) == ParseImpl(t, now, skew) /\ UpdateAudience(t) # {}

-----------------------------------------------------------------------------
(* A key document is of one of the forms jwks (an array of keys), x509 (a    *)
(* map from kid to certificate), secret (base64) and other (not JSON); keys  *)
(* lists the entries.  An entry can be extracted if its fields are there and *)
(* decode; it verifies the tokens its key has signed.                        *)
VerifyPubkeyRSA(t, e) == t.signature.by = e.key /\ t.signature.hash = EvpMdFromAlg(t.alg)
VerifyPubkeyEC(t, e) == t.signature.by = e.key /\ t.signature.hash = "sha256"
VerifyPubkey(t, e) == IF t.alg \in RSAlg THEN VerifyPubkeyRSA(t, e) ELSE VerifyPubkeyEC(t, e)

ExtractPubkeyFromX509(e) == e.pem
ExtractPubkeyFromJwkRSA(e) == {"n", "e"} \subseteq e.fields
ExtractPubkeyFromJwkEC(e) == {"x", "y"} \subseteq e.fields
ExtractPubkeyFromJwk(t, e) ==
  IF t.alg \in RSAlg THEN ExtractPubkeyFromJwkRSA(e) ELSE ExtractPubkeyFromJwkEC(e)

KtyFits(t, e) == e.kty = IF t.alg \in RSAlg THEN "RSA" ELSE "EC"

(* With a kid, the certificate of that kid decides; else any one will do.    *)
ExtractAndVerifyX509Keys(t, keys) ==
  LET Verifies(e) == ExtractPubkeyFromX509(e) /\ VerifyPubkey(t, e)
  IN  \E i \in 1..Len(keys) :
        /\ t.kid # None => /\ keys[i].kid = t.kid
                           /\ \A j \in 1..(i - 1) : keys[j].kid # t.kid
        /\ Verifies(keys[i])

(* With a kid, the first usable key of that kid decides; else any one will   *)
(* do.  A key without a kid is never used.                                   *)
ExtractAndVerifyJwkKeys(t, keys) ==
  LET Usable(e) == /\ e.kid # None /\ t.kid \in {None, e.kid}
                   /\ KtyFits(t, e) /\ ExtractPubkeyFromJwk(t, e)
  IN  \E i \in 1..Len(keys) :
        /\ Usable(keys[i])
        /\ t.kid # None => \A j \in 1..(i - 1) : ~Usable(keys[j])
        /\ VerifyPubkey(t, keys[i])

VerifyAsymSignature(t, doc) ==
  CASE doc.form = "jwks" -> ExtractAndVerifyJwkKeys(t, doc.keys)
    [] doc.form = "x509" -> t.alg # "ES256" /\ ExtractAndVerifyX509Keys(t, doc.keys)
    [] OTHER -> FALSE

(* JSON is not base64, so only a secret decodes; its one entry is the key.   *)
VerifyHsSignature(t, doc) ==
  /\ doc.form = "secret"
  /\ t.signature.by = doc.keys[1].key
  /\ t.signature.hash = EvpMdFromAlg(t.alg)
  /\ t.signature.length = HashSizeFromAlg(t.alg)

VerifySignature(t, doc) ==
  IF t.alg \in RSAlg \union {"ES256"} THEN VerifyAsymSignature(t, doc)
  ELSE VerifyHsSignature(t, doc)

-----------------------------------------------------------------------------
TOKEN_LIFETIME == 3600

GenerateJoseHeader(alg) == [alg |-> alg, kid |-> None, header |-> "json"]

GenerateJwtClaim(issuer, audience, now) ==
  [iss |-> issuer, aud |-> {audience}, nbf |-> 0, exp |-> now + TOKEN_LIFETIME,
   claims |-> "json"]

GenerateSignatueHs256(secret) == [by |-> secret, hash |-> "sha256", length |-> 32]

(* GenerateTokenSymmetricKey: a client secret with its issuer and subject.   *)
GenerateTokenSymmetricKey(json, audience, now) ==
  IF json.issuer = None \/ json.subject = None \/ ~json.base64 THEN {}
  ELSE LET h == GenerateJoseHeader("HS256")
           c == GenerateJwtClaim(json.issuer, audience, now)
       IN  {[alg |-> h.alg, kid |-> h.kid, header |-> h.header,
             iss |-> c.iss, aud |-> c.aud, nbf |-> c.nbf, exp |-> c.exp, claims |-> c.claims,
             signature |-> GenerateSignatueHs256(json.client_secret)]}
=============================================================================
