----------------------------- MODULE TokenFetch -----------------------------
(* The service account token of a process (or the instance identity token of *)
(* one audience), shared by all requests: GlobalFetchServiceAccountToken     *)
(* (src/api_manager/fetch_metadata.cc) and auth::ServiceAccountToken.  A     *)
(* request either goes on with the token there is, is rejected, or fetches a *)
(* token from the metadata server; several fetches may be under way and      *)
(* their answers arrive in any order.                                        *)
EXTENDS Integers, FiniteSets

CONSTANTS
  Request,         \* requests (model values)
  Lifetimes,       \* lifetimes of the tokens the metadata server gives out
  Margin,          \* taken off the lifetime in SetTokenJsonResponse
  IdentityExpiration,  \* kInstanceIdentityTokenExpiration
  RefetchWindow,   \* kTokenRefetchWindow
  FailureWindow,   \* kFailureStatusWindow
  MaxTime          \* bound: clock values of the run

ASSUME WindowAssumption ==
  /\ Lifetimes \subseteq Nat /\ Margin \in Nat /\ IdentityExpiration \in Nat
  /\ RefetchWindow \in Nat /\ FailureWindow \in Nat /\ MaxTime \in Nat

VARIABLES
  identity,     \* TRUE: an identity token (audience not empty)
  skip,         \* no metadata server, or a client secret
  state,        \* state_
  have,         \* access_token_ is not empty
  expires,      \* its expiration_time_
  valid_until,  \* when the token there is really expires
  last_failed,  \* last_failed_fetch_time_
  req,          \* per request: "new", "fetching", "ok" or "rejected"
  now,
  failed_at     \* history: time of the last error since a success

tokenVars == <<identity, skip, state, have, expires, valid_until, last_failed, req, now,
          failed_at>>

Never == MaxTime + FailureWindow + 1   \* no time of the run

(* The clock starts late enough for the epoch, the initial value of          *)
(* last_failed_fetch_time_, to be long ago.                                  *)
TokenInit ==
  /\ identity \in BOOLEAN /\ skip \in BOOLEAN
  /\ state = "NONE" /\ have = FALSE /\ expires = 0 /\ valid_until = 0
  /\ last_failed = 0
  /\ req = [r \in Request |-> "new"]
  /\ now = FailureWindow
  /\ failed_at = Never

is_access_token_valid(duration) == have /\ expires >= now + duration

(* The switch over token->state(): what a request that arrives now gets.     *)
Reuse ==
  \/ state = "FETCHED" /\ is_access_token_valid(RefetchWindow)
  \/ state = "FETCHING" /\ is_access_token_valid(0)
Rejected == state = "FAILED" /\ now - last_failed < FailureWindow

(* Faulty variants: a token is reused while a fetch is in progress, valid or *)
(* not; a failed fetch does not hold the next one back.                      *)
ReuseWhileFetching ==
  \/ state = "FETCHED" /\ is_access_token_valid(RefetchWindow)
  \/ state = "FETCHING"
GlobalFetchEager(r) ==
  /\ req[r] = "new"
  /\ IF skip \/ Reuse
     THEN req' = [req EXCEPT ![r] = "ok"] /\ UNCHANGED state
     ELSE req' = [req EXCEPT ![r] = "fetching"] /\ state' = "FETCHING"
  /\ UNCHANGED <<identity, skip, have, expires, valid_until, last_failed, now,
                 failed_at>>
GlobalFetchWhileFetching(r) ==
  /\ req[r] = "new"
  /\ IF skip \/ ReuseWhileFetching
     THEN req' = [req EXCEPT ![r] = "ok"] /\ UNCHANGED state
     ELSE req' = [req EXCEPT ![r] = "fetching"] /\ state' = "FETCHING"
  /\ UNCHANGED <<identity, skip, have, expires, valid_until, last_failed, now,
                 failed_at>>

(* A request reaches the token check.                                        *)
GlobalFetchServiceAccountToken(r) ==
  /\ req[r] = "new"
  /\ IF skip \/ Reuse
     THEN req' = [req EXCEPT ![r] = "ok"] /\ UNCHANGED state
     ELSE IF Rejected
     THEN req' = [req EXCEPT ![r] = "rejected"] /\ UNCHANGED state
     ELSE /\ req' = [req EXCEPT ![r] = "fetching"]
          /\ state' = "FETCHING"
  /\ UNCHANGED <<identity, skip, have, expires, valid_until, last_failed, now,
                 failed_at>>

(* The metadata server could not be reached, or answered with an error.      *)
FetchFailed(r) ==
  /\ req[r] = "fetching"
  /\ state' = "FAILED"
  /\ last_failed' = now
  /\ req' = [req EXCEPT ![r] = "rejected"]
  /\ failed_at' = now
  /\ UNCHANGED <<identity, skip, have, expires, valid_until, now>>

(* SetTokenJsonResponse cannot parse the answer: FAILED, but not noted as a  *)
(* failed fetch.  An identity token is not parsed.                           *)
ParseFailed(r) ==
  /\ req[r] = "fetching" /\ ~identity
  /\ state' = "FAILED"
  /\ req' = [req EXCEPT ![r] = "rejected"]
  /\ UNCHANGED <<identity, skip, have, expires, valid_until, last_failed, now,
                 failed_at>>

(* The token arrives.  An access token is taken to expire a little early; an *)
(* identity token is not parsed: it is stored for a fixed time, whatever its *)
(* own lifetime, and the state left alone.                                   *)
Fetched(r) ==
  /\ req[r] = "fetching"
  /\ \E lifetime \in Lifetimes :
       /\ valid_until' = now + lifetime
       /\ expires' = IF identity THEN now + IdentityExpiration ELSE now + lifetime - Margin
  /\ have' = TRUE
  /\ state' = IF identity THEN state ELSE "FETCHED"
  /\ req' = [req EXCEPT ![r] = "ok"]
  /\ failed_at' = Never
  /\ UNCHANGED <<identity, skip, last_failed, now>>

Tick ==
  /\ now < MaxTime
  /\ now' = now + 1
  /\ UNCHANGED <<identity, skip, state, have, expires, valid_until, last_failed, req,
                 failed_at>>

FetchEnds(r) == FetchFailed(r) \/ ParseFailed(r) \/ Fetched(r)

TokenNext ==
  \/ \E r \in Request : GlobalFetchServiceAccountToken(r) \/ FetchEnds(r)
  \/ Tick

TokenSpec == TokenInit /\ [][TokenNext]_tokenVars

(* Requests run, and RunHTTPRequest calls back: it has a timeout.            *)
TokenFairness ==
  \A r \in Request : /\ WF_tokenVars(GlobalFetchServiceAccountToken(r))
                     /\ WF_tokenVars(FetchEnds(r))
TokenFairSpec == TokenSpec /\ TokenFairness

-----------------------------------------------------------------------------
TokenTypeOK ==
  /\ identity \in BOOLEAN /\ skip \in BOOLEAN /\ have \in BOOLEAN
  /\ state \in {"NONE", "FETCHING", "FETCHED", "FAILED"}
  /\ expires \in Int /\ valid_until \in Nat
  /\ last_failed \in Nat /\ now \in Nat /\ failed_at \in Nat
  /\ req \in [Request -> {"new", "fetching", "ok", "rejected"}]

(* An access token is not kept past its end; what failed_at says of the last *)
(* error is in last_failed_fetch_time_, and the state still is FAILED unless *)
(* the window is over.                                                       *)
TokenInvariant ==
  /\ TokenTypeOK
  /\ have /\ ~identity => expires <= valid_until
  /\ failed_at # Never =>
       /\ failed_at = last_failed
       /\ state = "FAILED" \/ now - failed_at >= FailureWindow

(* A request that goes on does so with a token that has not expired, whoever *)
(* fetched it and whatever fetches are still under way.  The one exception   *)
(* is an identity token that the fixed time outlives (ValidMeansValid).      *)
GoesOnWithValidToken ==
  [][\A r \in Request :
       req[r] # "ok" /\ req'[r] = "ok" /\ ~skip =>
         have' /\ (valid_until' >= now \/ (identity /\ expires' > valid_until'))]_tokenVars

(* "Returns true if access token is valid `duration` seconds from now.  Use  *)
(* 0 for `duration` to check if the token is valid now."                     *)
(* (service_account_token.h:75-76).                                          *)
ValidMeansValid == is_access_token_valid(0) => valid_until >= now

(* After a fetch that ended in an error, and until one succeeds, no fetch is *)
(* started for FailureWindow, although answers to older fetches still come   *)
(* in and move the state.                                                    *)
BackOffAfterFailure ==
  [][\A r \in Request :
       req[r] = "new" /\ req'[r] = "fetching" =>
         failed_at = Never \/ now - failed_at >= FailureWindow]_tokenVars

(* "The first request within the token re-fetch window will carry on the     *)
(* token fetch, while subsequent requests in the window reuse the old token."*)
(* (fetch_metadata.cc).  A request that finds a usable old token in the      *)
(* window is not turned away.                                                *)
OldTokenReused ==
  [][\A r \in Request :
       req[r] = "new" /\ is_access_token_valid(0)
         /\ ~is_access_token_valid(RefetchWindow)
       => req'[r] # "rejected"]_tokenVars
=============================================================================
