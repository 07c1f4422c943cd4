-------------------------- MODULE ApiManagerProofs ---------------------------
(* What ApiManagerImpl keeps up to date by calling other services: the token *)
(* of the process (TokenFetch), for any number of requests, lifetimes and    *)
(* windows; and the rollout its traffic is on (ConfigRollout).  Whatever the *)
(* server publishes and however fetches overlap, fail and overtake each      *)
(* other, a worker splits its traffic over one whole valid rollout.          *)
EXTENDS TokenFetch, ConfigRollout, FiniteSetTheorems, SequenceTheorems, TLAPS

LEMMA InitToken == TokenInit => TokenInvariant
  <1> SUFFICES ASSUME TokenInit PROVE TokenInvariant
    OBVIOUS
  <1>1. Never \in Nat /\ FailureWindow \in Nat /\ 0 \in Nat /\ 0 \in Int
    BY WindowAssumption DEF Never
  <1>2. TokenTypeOK
    BY <1>1, Zenon DEF TokenInit, TokenTypeOK
  <1> QED BY <1>2 DEF TokenInit, TokenInvariant

LEMMA RequestTyped ==
  ASSUME TokenTypeOK, NEW r \in Request, NEW s \in {"new", "fetching", "ok", "rejected"},
         req' = [req EXCEPT ![r] = s]
  PROVE  req' \in [Request -> {"new", "fetching", "ok", "rejected"}]
  BY DEF TokenTypeOK

LEMMA NextToken == TokenInvariant /\ [TokenNext]_tokenVars => TokenInvariant'
  <1> SUFFICES ASSUME TokenInvariant, [TokenNext]_tokenVars PROVE TokenInvariant'
    OBVIOUS
  <1> USE WindowAssumption DEF TokenInvariant
  <1>1. ASSUME NEW r \in Request, GlobalFetchServiceAccountToken(r)
        PROVE  TokenInvariant'
    <2>1. req' \in [Request -> {"new", "fetching", "ok", "rejected"}]
      BY <1>1, RequestTyped DEF GlobalFetchServiceAccountToken
    <2>2. /\ UNCHANGED <<identity, skip, have, expires, valid_until, last_failed, now,
                         failed_at>>
          /\ UNCHANGED state \/ (state' = "FETCHING" /\ ~Rejected)
      BY <1>1 DEF GlobalFetchServiceAccountToken
    <2>3. TokenTypeOK'
      BY <2>1, <2>2 DEF TokenTypeOK
    <2>4. (have /\ ~identity => expires <= valid_until)'
      BY <2>2
    <2>5. ASSUME failed_at' # Never'
          PROVE  failed_at' = last_failed' /\ (state' = "FAILED" \/ now' - failed_at' >= FailureWindow)
      BY <2>2, <2>5 DEF TokenTypeOK, Rejected, Never
    <2> QED BY <2>3, <2>4, <2>5
  <1>2. ASSUME NEW r \in Request, FetchFailed(r) PROVE TokenInvariant'
    <2>1. req' \in [Request -> {"new", "fetching", "ok", "rejected"}]
      BY <1>2, RequestTyped DEF FetchFailed
    <2>2. TokenTypeOK'
      BY <1>2, <2>1 DEF FetchFailed, TokenTypeOK
    <2> QED BY <1>2, <2>2 DEF FetchFailed
  <1>3. ASSUME NEW r \in Request, ParseFailed(r) PROVE TokenInvariant'
    <2>1. req' \in [Request -> {"new", "fetching", "ok", "rejected"}]
      BY <1>3, RequestTyped DEF ParseFailed
    <2>2. TokenTypeOK'
      BY <1>3, <2>1 DEF ParseFailed, TokenTypeOK
    <2> QED BY <1>3, <2>2 DEF ParseFailed, Never
  <1>4. ASSUME NEW r \in Request, Fetched(r) PROVE TokenInvariant'
    <2>1. req' \in [Request -> {"new", "fetching", "ok", "rejected"}]
      BY <1>4, RequestTyped DEF Fetched
    <2>2. PICK lifetime \in Lifetimes :
            /\ valid_until' = now + lifetime
            /\ expires' = IF identity THEN now + IdentityExpiration ELSE now + lifetime - Margin
      BY <1>4 DEF Fetched
    <2>3. /\ lifetime \in Nat /\ now \in Nat /\ Never \in Nat
          /\ have' = TRUE /\ failed_at' = Never
          /\ state' \in {state, "FETCHED"}
          /\ UNCHANGED <<identity, skip, last_failed, now>>
      BY <1>4 DEF Fetched, TokenTypeOK, Never
    <2>4. /\ valid_until' \in Nat /\ expires' \in Int
          /\ ~identity => expires' <= valid_until'
      BY <2>2, <2>3
    <2>5. TokenTypeOK'
      BY <2>1, <2>3, <2>4 DEF TokenTypeOK
    <2> QED BY <2>3, <2>4, <2>5 DEF Never
  <1>5. CASE Tick
    <2>1. TokenTypeOK'
      BY <1>5 DEF Tick, TokenTypeOK
    <2>2. /\ now' = now + 1
          /\ UNCHANGED <<identity, skip, state, have, expires, valid_until, last_failed,
                         req, failed_at>>
      BY <1>5 DEF Tick
    <2>3. (failed_at # Never =>
             failed_at = last_failed /\ (state = "FAILED" \/ now - failed_at >= FailureWindow))'
      BY <2>2 DEF TokenTypeOK, Never
    <2> QED BY <2>1, <2>2, <2>3
  <1>6. CASE UNCHANGED tokenVars
    BY <1>6 DEF tokenVars, TokenTypeOK, Never
  <1> QED BY <1>1, <1>2, <1>3, <1>4, <1>5, <1>6 DEF TokenNext, FetchEnds

(* The inductive invariant of the shared token.                              *)
THEOREM TokenInvariantHolds == TokenSpec => []TokenInvariant
  BY InitToken, NextToken, PTL DEF TokenSpec

-----------------------------------------------------------------------------
(* What the step of one request makes of the states of the others.           *)
LEMMA OthersStay ==
  ASSUME TokenTypeOK, NEW r \in Request, NEW s, req' = [req EXCEPT ![r] = s], NEW q \in Request
  PROVE  req'[q] = IF q = r THEN s ELSE req[q]
  BY DEF TokenTypeOK

LEMMA ValidWhenUsed ==
  ASSUME TokenInvariant, [TokenNext]_tokenVars, NEW q \in Request,
         req[q] # "ok", req'[q] = "ok", ~skip
  PROVE  have' /\ (valid_until' >= now \/ (identity /\ expires' > valid_until'))
  <1> USE WindowAssumption DEF TokenInvariant
  <1>1. ASSUME NEW r \in Request, GlobalFetchServiceAccountToken(r)
        PROVE  have' /\ (valid_until' >= now \/ (identity /\ expires' > valid_until'))
    <2>1. CASE skip \/ Reuse
      <3>1. have /\ expires >= now
        BY <2>1 DEF Reuse, is_access_token_valid, TokenTypeOK
      <3> QED BY <1>1, <3>1 DEF GlobalFetchServiceAccountToken, TokenTypeOK
    <2>2. CASE ~(skip \/ Reuse)
      <3>1. req' = [req EXCEPT ![r] = "rejected"] \/ req' = [req EXCEPT ![r] = "fetching"]
        BY <1>1, <2>2 DEF GlobalFetchServiceAccountToken
      <3> QED BY <3>1, OthersStay
    <2> QED BY <2>1, <2>2
  <1>2. ASSUME NEW r \in Request, FetchFailed(r) \/ ParseFailed(r)
        PROVE  have' /\ (valid_until' >= now \/ (identity /\ expires' > valid_until'))
    <2>1. req' = [req EXCEPT ![r] = "rejected"]
      BY <1>2 DEF FetchFailed, ParseFailed
    <2> QED BY <2>1, OthersStay
  <1>3. ASSUME NEW r \in Request, Fetched(r) 
        PROVE  have' /\ (valid_until' >= now \/ (identity /\ expires' > valid_until'))
    BY <1>3 DEF Fetched, TokenTypeOK
  <1>4. CASE Tick \/ UNCHANGED tokenVars
    BY <1>4 DEF Tick, tokenVars
  <1> QED BY <1>1, <1>2, <1>3, <1>4 DEF TokenNext, FetchEnds

LEMMA FetchAfterWindow ==
  ASSUME TokenInvariant, [TokenNext]_tokenVars, NEW q \in Request,
         req[q] = "new", req'[q] = "fetching"
  PROVE  failed_at = Never \/ now - failed_at >= FailureWindow
  <1> USE WindowAssumption DEF TokenInvariant
  <1>1. ASSUME NEW r \in Request, GlobalFetchServiceAccountToken(r)
        PROVE  failed_at = Never \/ now - failed_at >= FailureWindow
    <2>1. CASE Rejected /\ ~(skip \/ Reuse)
      <3>1. req' = [req EXCEPT ![r] = "rejected"]
        BY <1>1, <2>1 DEF GlobalFetchServiceAccountToken
      <3> QED BY <3>1, OthersStay
    <2>2. CASE skip \/ Reuse
      <3>1. req' = [req EXCEPT ![r] = "ok"]
        BY <1>1, <2>2 DEF GlobalFetchServiceAccountToken
      <3> QED BY <3>1, OthersStay
    <2>3. CASE ~Rejected
      BY <2>3 DEF Rejected, TokenTypeOK
    <2> QED BY <2>1, <2>2, <2>3
  <1>2. ASSUME NEW r \in Request, FetchEnds(r)
        PROVE  failed_at = Never \/ now - failed_at >= FailureWindow
    <2>1. req' = [req EXCEPT ![r] = "rejected"] \/ req' = [req EXCEPT ![r] = "ok"]
      BY <1>2 DEF FetchEnds, FetchFailed, ParseFailed, Fetched
    <2> QED BY <2>1, OthersStay
  <1>3. CASE Tick \/ UNCHANGED tokenVars
    BY <1>3 DEF Tick, tokenVars
  <1> QED BY <1>1, <1>2, <1>3 DEF TokenNext

(* No request goes on with an expired token, whichever of the overlapping    *)
(* fetches of fetch_metadata.cc has stored it, but for an identity token     *)
(* whose life ends before the fixed time it is stored for.                   *)
THEOREM TokenValidWhenUsed == TokenSpec => GoesOnWithValidToken
  <1>1. TokenInvariant /\ [TokenNext]_tokenVars =>
          [\A r \in Request :
             req[r] # "ok" /\ req'[r] = "ok" /\ ~skip =>
               have' /\ (valid_until' >= now \/ (identity /\ expires' > valid_until'))]_tokenVars
    BY ValidWhenUsed
  <1> QED BY <1>1, TokenInvariantHolds, PTL DEF TokenSpec, GoesOnWithValidToken

(* kFailureStatusWindow holds back the next fetch after every error, although*)
(* answers to older fetches still arrive and change state_.                  *)
THEOREM FailureHoldsFetchesBack == TokenSpec => BackOffAfterFailure
  <1>1. TokenInvariant /\ [TokenNext]_tokenVars =>
          [\A r \in Request :
             req[r] = "new" /\ req'[r] = "fetching" =>
               failed_at = Never \/ now - failed_at >= FailureWindow]_tokenVars
    BY FetchAfterWindow
  <1> QED BY <1>1, TokenInvariantHolds, PTL DEF TokenSpec, BackOffAfterFailure

-----------------------------------------------------------------------------

(* A config that arrives for the first time adds one to what a fetch has.    *)
LEMMA GotAppend ==
  ASSUME NEW configs \in Seq(Config), NEW c \in Config, c \notin Got(configs),
         Cardinality(Got(configs)) = Len(configs)
  PROVE  /\ Append(configs, c) \in Seq(Config)
         /\ Got(Append(configs, c)) = Got(configs) \union {c}
         /\ Cardinality(Got(Append(configs, c))) = Len(Append(configs, c))
  <1> DEFINE n == Len(configs)
             t == Append(configs, c)
  <1>1. /\ t \in Seq(Config) /\ Len(t) = n + 1
        /\ DOMAIN t = 1..(n + 1) /\ DOMAIN configs = 1..n /\ n \in Nat
        /\ \A i \in 1..n : t[i] = configs[i]
        /\ t[n + 1] = c
    <2>1. n \in Nat /\ DOMAIN configs = 1..n
      BY LenProperties
    <2>2. t \in Seq(Config) /\ Len(t) = n + 1 /\ t[n + 1] = c
          /\ \A i \in 1..n : t[i] = configs[i]
      BY AppendProperties
    <2>3. DOMAIN t = 1..(n + 1)
      BY <2>2, LenProperties
    <2> QED BY <2>1, <2>2, <2>3
  <1>2. \A i \in 1..n : i \in 1..(n + 1)
    BY <1>1
  <1>3. n + 1 \in 1..(n + 1) /\ \A i \in 1..(n + 1) : i \in 1..n \/ i = n + 1
    BY <1>1
  <1> HIDE DEF n, t
  <1>4. Got(t) = Got(configs) \union {c}
    BY <1>1, <1>2, <1>3, Zenon DEF Got
  <1>5. IsFiniteSet(Got(configs))
    <2>1. \A i \in DOMAIN configs : configs[i] \in Config
      BY ElementOfSeq, <1>1 DEF n
    <2>2. Got(configs) \subseteq Config
      BY <2>1, Zenon DEF Got
    <2>3. IsFiniteSet(Config)
      BY RolloutAssumption
    <2> QED BY <2>2, <2>3, FS_Subset
  <1>6. Cardinality(Got(configs) \union {c}) = Cardinality(Got(configs)) + 1
    BY <1>5, FS_AddElement
  <1>7. Cardinality(Got(t)) = Len(t)
    BY <1>1, <1>4, <1>6 DEF n
  <1> QED BY <1>1, <1>4, <1>7 DEF t

(* Configs of a rollout, each once, as many as the rollout has: they are all *)
(* of its configs.                                                           *)
LEMMA AllArrived ==
  ASSUME NEW r \in Rollout, NEW configs \in Seq(Config),
         Got(configs) \subseteq ConfigsOf[r],
         Cardinality(Got(configs)) = Len(configs),
         Len(configs) = Cardinality(ConfigsOf[r])
  PROVE  Got(configs) = ConfigsOf[r]
  <1>1. ConfigsOf[r] \subseteq Config /\ IsFiniteSet(ConfigsOf[r])
    <2>1. ConfigsOf[r] \subseteq Config
      BY RolloutAssumption
    <2> QED BY <2>1, FS_Subset, RolloutAssumption
  <1> QED BY <1>1, FS_Subset

(* Deploying a whole rollout that the server has made.                       *)
LEMMA DeployWhole ==
  ASSUME RolloutInvariant, NEW r \in Rollout, r <= latest,
         NEW configs, Got(configs) = ConfigsOf[r],
         AddAndDeployConfigs(configs), current_rollout_id' = r, UNCHANGED latest
  PROVE  /\ DeployedWhole' /\ ValidIdIsDeployed'
         /\ service_context_map' \subseteq Config /\ service_selector' \subseteq Config
  <1>0. ConfigsOf[r] \subseteq Config /\ latest \in Nat /\ r \in 0..latest
    BY RolloutAssumption DEF RolloutInvariant, TypeOK, Rollout
  <1>1. AllAccepted(configs) <=> Valid(r)
    BY DEF AllAccepted, Valid, Got
  <1>2. Accepted(configs) \subseteq Config
    BY <1>0 DEF Accepted, Got
  <1>3. {configs[i] : i \in DOMAIN configs} = ConfigsOf[r]
    BY DEF Got
  <1>4. service_selector' = IF Valid(r) THEN ConfigsOf[r] ELSE service_selector
    BY <1>1, <1>3 DEF AddAndDeployConfigs
  <1>5. DeployedWhole'
    <2>1. CASE Valid(r)
      BY <1>0, <1>4, <2>1 DEF DeployedWhole, Valid
    <2>2. CASE ~Valid(r)
      BY <1>4, <2>2 DEF DeployedWhole, RolloutInvariant, Valid
    <2> QED BY <2>1, <2>2
  <1>6. ValidIdIsDeployed'
    BY <1>4 DEF ValidIdIsDeployed, Valid
  <1>7. service_context_map' \subseteq Config /\ service_selector' \subseteq Config
    BY <1>0, <1>2, <1>4 DEF AddAndDeployConfigs, RolloutInvariant, TypeOK
  <1> QED BY <1>5, <1>6, <1>7

LEMMA IdleFetchSound ==
  ASSUME TypeOK
  PROVE  /\ FetchSound(IdleFetch)
         /\ IdleFetch \in [at : {"idle", "token", "rollouts", "configs"},
                           rollout : Rollout, configs : Seq(Config), left : SUBSET Config]
  <1>1. Got(<<>>) = {} /\ <<>> \in Seq(Config) /\ Len(<<>>) = 0
    BY DEF Got
  <1>2. 0 <= latest /\ 0 \in Rollout
    BY RolloutAssumption DEF TypeOK, Rollout
  <1> QED BY <1>1, <1>2, FS_EmptySet DEF FetchSound, IdleFetch

LEMMA InitRollout == Init => RolloutInvariant
  <1> SUFFICES ASSUME Init PROVE RolloutInvariant
    OBVIOUS
  <1>1. 0 \in Rollout /\ ConfigsOf[0] \subseteq Config /\ 0 \in 0..latest
    BY RolloutAssumption DEF Rollout, Init
  <1>2. TypeOK
    <2>1. IdleFetch \in [at : {"idle", "token", "rollouts", "configs"},
                           rollout : Rollout, configs : Seq(Config), left : SUBSET Config]
      BY <1>1 DEF IdleFetch
    <2> QED BY <1>1, <2>1 DEF Init, TypeOK
  <1>3. \A f \in Fetch : FetchSound(fetch[f])
    BY <1>2, IdleFetchSound DEF Init
  <1>4. DeployedWhole /\ ValidIdIsDeployed
    BY <1>1, RolloutAssumption DEF Init, DeployedWhole, ValidIdIsDeployed, Valid
  <1> QED BY <1>2, <1>3, <1>4 DEF RolloutInvariant

(* A fetch that leaves what is deployed alone.                               *)
LEMMA FetchMoves ==
  ASSUME RolloutInvariant, NEW f \in Fetch, NEW fe,
         FetchSound(fe),
         fe \in [at : {"idle", "token", "rollouts", "configs"},
                rollout : Rollout, configs : Seq(Config), left : SUBSET Config],
         fetch' = [fetch EXCEPT ![f] = fe], UNCHANGED latest
  PROVE  /\ \A g \in Fetch : FetchSound(fetch[g])'
         /\ fetch' \in [Fetch -> [at : {"idle", "token", "rollouts", "configs"},
                          rollout : Rollout, configs : Seq(Config), left : SUBSET Config]]
  <1>1. fetch' \in [Fetch -> [at : {"idle", "token", "rollouts", "configs"},
                          rollout : Rollout, configs : Seq(Config), left : SUBSET Config]]
    BY DEF RolloutInvariant, TypeOK
  <1>2. ASSUME NEW g \in Fetch PROVE FetchSound(fetch[g])'
    <2>1. fetch'[g] = IF g = f THEN fe ELSE fetch[g]
      BY DEF RolloutInvariant, TypeOK
    <2>2. FetchSound(fetch'[g])
      BY <2>1 DEF RolloutInvariant
    <2> QED BY <2>2 DEF FetchSound
  <1> QED BY <1>1, <1>2

(* One download has ended.                                                   *)
LEMMA ConfigArrives ==
  ASSUME RolloutInvariant, NEW f \in Fetch, FetchConfigs(f)
  PROVE  RolloutInvariant'
  <1>1. PICK c \in fetch[f].left, ok \in BOOLEAN : OnConfig(f, c, ok)
    BY DEF FetchConfigs
  <1> DEFINE fe == fetch[f]
             configs == IF ok THEN Append(fe.configs, c) ELSE fe.configs
             left == fe.left \ {c}
             Record == [at : {"idle", "token", "rollouts", "configs"},
                        rollout : Rollout, configs : Seq(Config), left : SUBSET Config]
  <1>2. /\ UNCHANGED <<latest, reported, outage, timer, throttled>>
        /\ TypeOK /\ fe \in Record /\ FetchSound(fe)
        /\ fe.at = "configs" /\ c \in Config
    <2>1. TypeOK /\ fe \in Record /\ FetchSound(fe)
      BY DEF RolloutInvariant, TypeOK
    <2> QED BY <1>1, <2>1 DEF FetchConfigs, FetchSound
  <1>3. /\ configs \in Seq(Config) /\ left \subseteq ConfigsOf[fe.rollout]
        /\ Got(configs) \subseteq ConfigsOf[fe.rollout] \ left
        /\ Cardinality(Got(configs)) = Len(configs)
    <2>1. c \notin Got(fe.configs) /\ c \in ConfigsOf[fe.rollout] /\ c \notin left
      BY <1>2 DEF FetchSound
    <2>2. CASE ok
      BY <1>2, <2>1, <2>2, GotAppend DEF FetchSound
    <2>3. CASE ~ok
      BY <1>2, <2>1, <2>3 DEF FetchSound
    <2> QED BY <2>2, <2>3
  <1>4. CASE left # {}
    <2>1. /\ fetch' = [fetch EXCEPT ![f].configs = configs, ![f].left = left]
          /\ UNCHANGED <<current_rollout_id, service_context_map, service_selector>>
      BY <1>1, <1>4 DEF OnConfig
    <2> DEFINE new == [fe EXCEPT !.configs = configs, !.left = left]
    <2>2. fetch' = [fetch EXCEPT ![f] = new]
      BY <1>2, <2>1 DEF TypeOK
    <2>3. new \in Record /\ new.at = "configs" /\ new.rollout = fe.rollout
          /\ new.configs = configs /\ new.left = left
      BY <1>2, <1>3
    <2>4. FetchSound(new)
      <3> HIDE DEF new, configs, left
      <3> QED BY <1>2, <1>3, <2>3 DEF FetchSound
    <2> HIDE DEF new
    <2>5. /\ \A g \in Fetch : FetchSound(fetch[g])'
          /\ fetch' \in [Fetch -> Record]
      BY <1>2, <2>2, <2>3, <2>4, FetchMoves
    <2>6. TypeOK'
      BY <1>2, <2>1, <2>5 DEF TypeOK
    <2>7. DeployedWhole' /\ ValidIdIsDeployed'
      BY <1>2, <2>1 DEF RolloutInvariant, DeployedWhole, ValidIdIsDeployed, Valid
    <2> QED BY <2>5, <2>6, <2>7 DEF RolloutInvariant
  <1>5. CASE left = {}
    <2>1. fetch' = [fetch EXCEPT ![f] = IdleFetch]
      BY <1>1, <1>5 DEF OnConfig
    <2>2. /\ \A g \in Fetch : FetchSound(fetch[g])'
          /\ fetch' \in [Fetch -> Record]
      BY <1>2, <2>1, FetchMoves, IdleFetchSound
    <2>3. CASE Len(configs) # Cardinality(ConfigsOf[fe.rollout])
      <3>1. UNCHANGED <<current_rollout_id, service_context_map, service_selector>>
        BY <1>1, <1>5, <2>3 DEF OnConfig
      <3>2. TypeOK'
        BY <1>2, <2>2, <3>1 DEF TypeOK
      <3>3. DeployedWhole' /\ ValidIdIsDeployed'
        BY <1>2, <3>1 DEF RolloutInvariant, DeployedWhole, ValidIdIsDeployed, Valid
      <3> QED BY <2>2, <3>2, <3>3 DEF RolloutInvariant
    <2>4. CASE Len(configs) = Cardinality(ConfigsOf[fe.rollout])
      <3>1. AddAndDeployConfigs(configs) /\ current_rollout_id' = fe.rollout
        BY <1>1, <1>5, <2>4 DEF OnConfig
      <3>2. fe.rollout \in Rollout /\ fe.rollout <= latest
        BY <1>2 DEF FetchSound
      <3> HIDE DEF configs, left
      <3>3. Got(configs) = ConfigsOf[fe.rollout]
        BY <1>3, <2>4, <3>2, AllArrived
      <3>4. /\ DeployedWhole' /\ ValidIdIsDeployed'
            /\ service_context_map' \subseteq Config /\ service_selector' \subseteq Config
        BY <1>2, <3>1, <3>2, <3>3, DeployWhole
      <3>5. TypeOK'
        BY <1>2, <2>2, <3>1, <3>2, <3>4 DEF TypeOK
      <3> QED BY <2>2, <3>4, <3>5 DEF RolloutInvariant
    <2> QED BY <2>3, <2>4
  <1> QED BY <1>4, <1>5

(* The newest rollout the server has made grows; the rest is left alone.     *)
LEMMA ServerMoves ==
  ASSUME RolloutInvariant, latest' \in Rollout, latest <= latest',
         UNCHANGED <<current_rollout_id, fetch, service_context_map, service_selector>>,
         reported' \subseteq Rollout,
         outage' \in BOOLEAN, timer' \in BOOLEAN, throttled' \in BOOLEAN
  PROVE  RolloutInvariant'
  <1>1. TypeOK'
    BY DEF RolloutInvariant, TypeOK
  <1>2. \A f \in Fetch : FetchSound(fetch[f])'
    <2> SUFFICES ASSUME NEW f \in Fetch PROVE FetchSound(fetch[f])'
      OBVIOUS
    <2>1. fetch[f].rollout <= latest'
      BY DEF RolloutInvariant, FetchSound, TypeOK, Rollout
    <2> QED BY <2>1 DEF RolloutInvariant, FetchSound
  <1>3. DeployedWhole'
    <2>1. PICK r \in 0..latest : Valid(r) /\ service_selector = ConfigsOf[r]
      BY DEF RolloutInvariant, DeployedWhole
    <2>2. r \in 0..latest'
      BY DEF RolloutInvariant, TypeOK, Rollout
    <2> QED BY <2>1, <2>2 DEF DeployedWhole, Valid
  <1>4. ValidIdIsDeployed'
    BY DEF RolloutInvariant, ValidIdIsDeployed, Valid
  <1> QED BY <1>1, <1>2, <1>3, <1>4 DEF RolloutInvariant

LEMMA NextRollout == RolloutInvariant /\ [Next]_vars => RolloutInvariant'
  <1> SUFFICES ASSUME RolloutInvariant, [Next]_vars PROVE RolloutInvariant'
    OBVIOUS
  <1> DEFINE Record == [at : {"idle", "token", "rollouts", "configs"},
                        rollout : Rollout, configs : Seq(Config), left : SUBSET Config]
  <1>0. TypeOK /\ latest \in Nat /\ \A f \in Fetch : fetch[f] \in Record /\ FetchSound(fetch[f])
    BY DEF RolloutInvariant, TypeOK, Rollout
  <1>a. latest \in Rollout /\ reported \subseteq Rollout /\ outage \in BOOLEAN
        /\ timer \in BOOLEAN /\ throttled \in BOOLEAN /\ latest <= latest
    BY <1>0 DEF TypeOK
  <1>1. CASE OnDetectRolloutChangeTimer
    <2>1. latest' \in Rollout /\ latest <= latest'
      BY <1>0, <1>a, <1>1 DEF OnDetectRolloutChangeTimer, SendEmptyReport
    <2>2. /\ UNCHANGED <<current_rollout_id, fetch, service_context_map, service_selector>>
          /\ reported' \subseteq Rollout
          /\ outage' \in BOOLEAN /\ timer' \in BOOLEAN /\ throttled' \in BOOLEAN
      BY <1>a, <1>1 DEF OnDetectRolloutChangeTimer, SendEmptyReport
    <2> QED BY <2>1, <2>2, ServerMoves
  <1>2. ASSUME NEW id \in Rollout, SetLatestRolloutId(id) PROVE RolloutInvariant'
    <2>1. latest' \in Rollout /\ latest <= latest'
      BY <1>0, <1>a, <1>2 DEF SetLatestRolloutId, HandleResponse
    <2>2. /\ UNCHANGED <<current_rollout_id, fetch, service_context_map, service_selector>>
          /\ reported' \subseteq Rollout
          /\ outage' \in BOOLEAN /\ timer' \in BOOLEAN /\ throttled' \in BOOLEAN
      BY <1>a, <1>2 DEF SetLatestRolloutId, HandleResponse
    <2> QED BY <2>1, <2>2, ServerMoves
  <1>3. CASE WindowPasses
    <2>1. latest' \in Rollout /\ latest <= latest'
      BY <1>0, <1>a, <1>3 DEF WindowPasses
    <2>2. /\ UNCHANGED <<current_rollout_id, fetch, service_context_map, service_selector>>
          /\ reported' \subseteq Rollout
          /\ outage' \in BOOLEAN /\ timer' \in BOOLEAN /\ throttled' \in BOOLEAN
      BY <1>a, <1>3 DEF WindowPasses
    <2> QED BY <2>1, <2>2, ServerMoves
  <1>4. CASE ServerRollout
    <2>1. latest' \in Rollout /\ latest <= latest'
      BY <1>0, <1>a, <1>4 DEF ServerRollout
    <2>2. /\ UNCHANGED <<current_rollout_id, fetch, service_context_map, service_selector>>
          /\ reported' \subseteq Rollout
          /\ outage' \in BOOLEAN /\ timer' \in BOOLEAN /\ throttled' \in BOOLEAN
      BY <1>a, <1>4 DEF ServerRollout
    <2> QED BY <2>1, <2>2, ServerMoves
  <1>5. CASE Outage
    <2>1. latest' \in Rollout /\ latest <= latest'
      BY <1>0, <1>a, <1>5 DEF Outage
    <2>2. /\ UNCHANGED <<current_rollout_id, fetch, service_context_map, service_selector>>
          /\ reported' \subseteq Rollout
          /\ outage' \in BOOLEAN /\ timer' \in BOOLEAN /\ throttled' \in BOOLEAN
      BY <1>a, <1>5 DEF Outage
    <2> QED BY <2>1, <2>2, ServerMoves
  <1>6. CASE UNCHANGED vars
    <2>1. latest' \in Rollout /\ latest <= latest'
      BY <1>0, <1>a, <1>6 DEF vars
    <2>2. /\ UNCHANGED <<current_rollout_id, fetch, service_context_map, service_selector>>
          /\ reported' \subseteq Rollout
          /\ outage' \in BOOLEAN /\ timer' \in BOOLEAN /\ throttled' \in BOOLEAN
      BY <1>a, <1>6 DEF vars
    <2> QED BY <2>1, <2>2, ServerMoves
  <1>7. ASSUME NEW f \in Fetch, NEW fe \in Record, FetchSound(fe),
               fetch' = [fetch EXCEPT ![f] = fe],
               UNCHANGED <<latest, reported, outage, current_rollout_id,
                           service_context_map, service_selector>>,
               timer' \in BOOLEAN, throttled' \in BOOLEAN
        PROVE  RolloutInvariant'
    <2>1. /\ \A g \in Fetch : FetchSound(fetch[g])'
          /\ fetch' \in [Fetch -> Record]
      BY <1>0, <1>7, FetchMoves
    <2>2. TypeOK'
      BY <1>0, <1>7, <2>1 DEF TypeOK
    <2>3. DeployedWhole' /\ ValidIdIsDeployed'
      BY <1>7 DEF RolloutInvariant, DeployedWhole, ValidIdIsDeployed, Valid
    <2> QED BY <2>1, <2>2, <2>3 DEF RolloutInvariant
  <1>8. ASSUME NEW f \in Fetch, OnRolloutsRefreshTimer(f) PROVE RolloutInvariant'
    <2> DEFINE fe == [fetch[f] EXCEPT !.at = "token"]
    <2>1. fe \in Record /\ fetch' = [fetch EXCEPT ![f] = fe] /\ fetch[f] = IdleFetch
      BY <1>0, <1>8 DEF OnRolloutsRefreshTimer, TypeOK
    <2>2. FetchSound(fe)
      BY <1>0, <2>1, IdleFetchSound DEF FetchSound, IdleFetch
    <2> QED BY <1>0, <1>7, <1>8, <2>1, <2>2 DEF OnRolloutsRefreshTimer, TypeOK
  <1>9. ASSUME NEW f \in Fetch, FetchRollouts(f) PROVE RolloutInvariant'
    <2> DEFINE fe == [fetch[f] EXCEPT !.at = "rollouts", !.rollout = latest]
    <2>1. fe \in Record /\ fetch' = [fetch EXCEPT ![f] = fe] /\ fetch[f].at = "token"
      BY <1>0, <1>9 DEF FetchRollouts, TypeOK
    <2>2. fe.left = {} /\ fe.configs = <<>> /\ fe.at = "rollouts" /\ fe.rollout = latest
      BY <1>0, <2>1 DEF FetchSound
    <2>3. Got(fe.configs) = {} /\ Len(fe.configs) = 0 /\ fe.rollout <= latest
      BY <1>0, <2>2 DEF Got
    <2> HIDE DEF fe
    <2>4. FetchSound(fe)
      <3>1. Cardinality(Got(fe.configs)) = Len(fe.configs)
        BY <2>3, FS_EmptySet
      <3>2. fe.left \subseteq ConfigsOf[fe.rollout]
        BY <2>2
      <3>3. Got(fe.configs) \subseteq ConfigsOf[fe.rollout] \ fe.left
        BY <2>3
      <3> QED BY <2>2, <2>3, <3>1, <3>2, <3>3 DEF FetchSound
    <2> QED BY <1>0, <1>7, <1>9, <2>1, <2>4 DEF FetchRollouts, TypeOK
  <1>10. ASSUME NEW f \in Fetch, CallFails(f) PROVE RolloutInvariant'
    BY <1>0, <1>7, <1>10, IdleFetchSound DEF CallFails, TypeOK
  <1>11. ASSUME NEW f \in Fetch, OnRolloutResponse(f) PROVE RolloutInvariant'
    <2>1. PICK r \in fetch[f].rollout..latest :
            fetch' = [fetch EXCEPT ![f] =
                   IF r = current_rollout_id \/ ConfigsOf[r] = {} THEN IdleFetch
                   ELSE [at |-> "configs", rollout |-> r,
                         configs |-> <<>>, left |-> ConfigsOf[r]]]
      BY <1>11 DEF OnRolloutResponse
    <2> DEFINE asked == [at |-> "configs", rollout |-> r,
                         configs |-> <<>>, left |-> ConfigsOf[r]]
    <2>2. r \in Rollout /\ r <= latest /\ ConfigsOf[r] \subseteq Config
      <3>1. fetch[f].rollout \in Rollout /\ latest \in Rollout
        BY <1>0 DEF TypeOK
      <3>2. r \in Rollout /\ r <= latest
        BY <3>1, RolloutAssumption DEF Rollout
      <3> QED BY <3>2, RolloutAssumption
    <2>3. asked \in Record
      BY <2>2
    <2>4. FetchSound(asked)
      <3>1. Got(<<>>) = {} /\ Len(<<>>) = 0
        BY DEF Got
      <3> QED BY <2>2, <3>1, FS_EmptySet DEF FetchSound
    <2>5. CASE fetch' = [fetch EXCEPT ![f] = IdleFetch]
      BY <1>0, <1>7, <1>11, <2>5, IdleFetchSound DEF OnRolloutResponse, TypeOK
    <2>6. CASE fetch' = [fetch EXCEPT ![f] = asked]
      <3> HIDE DEF asked
      <3> QED BY <1>0, <1>7, <1>11, <2>3, <2>4, <2>6 DEF OnRolloutResponse, TypeOK
    <2> QED BY <2>1, <2>5, <2>6
  <1>12. ASSUME NEW f \in Fetch, FetchConfigs(f) PROVE RolloutInvariant'
    BY <1>12, ConfigArrives
  <1> QED BY <1>1, <1>2, <1>3, <1>4, <1>5, <1>6, <1>8, <1>9, <1>10, <1>11, <1>12
          DEF Next, FetchStep

-----------------------------------------------------------------------------
(* RolloutInvariant is an invariant of the rollouts, for any number of       *)
(* rollouts, configs and overlapping fetches.                                *)
THEOREM RolloutInvariantHolds == Spec => []RolloutInvariant
  BY InitRollout, NextRollout, PTL DEF Spec

(* The traffic of a worker (ApiManagerImpl's service selector) is always     *)
(* split over all the configs of one valid rollout that the server has made. *)
THEOREM TrafficOnWholeRollout == Spec => []DeployedWhole
  <1>1. RolloutInvariant => DeployedWhole
    BY DEF RolloutInvariant
  <1> QED BY <1>1, RolloutInvariantHolds, PTL

(* The rollout id that ConfigManager compares with is the id of what is      *)
(* deployed, unless AddAndDeployConfigs has rejected that rollout.           *)
THEOREM CurrentIdDeployed == Spec => []ValidIdIsDeployed
  <1>1. RolloutInvariant => ValidIdIsDeployed
    BY DEF RolloutInvariant
  <1> QED BY <1>1, RolloutInvariantHolds, PTL
=============================================================================
