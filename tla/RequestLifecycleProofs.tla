------------------------ MODULE RequestLifecycleProofs ------------------------
EXTENDS RequestLifecycle, SequenceTheorems, TLAPS

(* The order RegisterAll gives the handlers.                                 *)
LEMMA Handlers ==
  /\ Len(RegisterAll) = 6
  /\ Runs("account_token") => index = 1
  /\ Runs("identity_token") => index = 2
  /\ Runs("auth") => index = 3
  /\ Runs("rules") => index = 4
  /\ Runs("check") => index = 5
  /\ Runs("quota") => index = 6
  BY DEF Runs, RegisterAll

(* What the continuation of a handler does.                                  *)
LEMMA Continuation ==
  ASSUME NEW st, index \in 1 .. 6, RunOneHandler(st)
  PROVE  /\ call' = "none"
         /\ st = "OK" /\ index < 6 => index' = index + 1 /\ result' = result
         /\ st = "OK" /\ index = 6 => index' = 7 /\ result' = "OK"
         /\ st # "OK" => index' = 7 /\ result' = st
  BY Handlers DEF RunOneHandler

LEMMA InitLifecycle == Init => LifecycleInvariant
  <1> SUFFICES ASSUME Init PROVE LifecycleInvariant
    OBVIOUS
  <1>1. TypeOK
    <2>1. <<>> \in Seq([first : BOOLEAN, final : BOOLEAN])
      BY EmptySeq
    <2>2. verdict \in [Check -> {"none", "ok", "denied", "unavailable"}]
      BY DEF Init
    <2>3. index \in 0 .. 7 /\ tests \in Nat /\ writes \in Nat /\ messages \in Nat
      BY DEF Init
    <2>4. reports \in Seq([first : BOOLEAN, final : BOOLEAN])
      BY <2>1 DEF Init
    <2> QED BY <2>2, <2>3, <2>4, Zenon DEF Init, TypeOK
  <1>2. CallPosition /\ Standing /\ Admitted /\ Waiting /\ Linked
    BY DEF Init, CallPosition, Standing, Past, Admitted, Waiting, Linked
  <1>3. WakeupPosted /\ QuotaKnowsMethod /\ CancelledCheckIgnored
    BY DEF Init, WakeupPosted, QuotaKnowsMethod, CancelledCheckIgnored
  <1> QED BY <1>1, <1>2, <1>3 DEF LifecycleInvariant
(* The variables of the workflow keep their types when a handler answers,    *)
(* waits or uses the request.                                                *)
Typed ==
  /\ frame \in {"none", "access", "answer"}
  /\ index \in 0 .. 7 /\ result \in {"OK", "ERROR"}
  /\ call \in {"none", "account_token", "identity_token", "jwks_uri", "pub_key",
               "release", "ruleset", "check", "quota"}
Verdicts == [Check -> {"none", "ok", "denied", "unavailable"}]
Sites == {"auth", "rules", "check", "quota", "interception", "continuation",
          "wakeup_event"}

LEMMA ContinueTyped ==
  ASSUME Typed, index \in 1 .. 6, NEW st \in {"OK", "ERROR"}, RunOneHandler(st)
  PROVE  /\ index' \in 0 .. 7 /\ result' \in {"OK", "ERROR"} /\ call' = "none"
  BY Continuation DEF Typed

LEMMA AnswerTyped ==
  ASSUME Typed, verdict \in Verdicts, index \in 1 .. 6, NEW c \in Check,
         NEW v \in {"none", "ok", "denied", "unavailable"},
         NEW st \in {"OK", "ERROR"}, Answer(c, v, st)
  PROVE  /\ verdict' \in Verdicts /\ index' \in 0 .. 7
         /\ result' \in {"OK", "ERROR"} /\ call' = "none"
  <1>1. RunOneHandler(st) /\ verdict' \in Verdicts
    BY DEF Answer, Verdicts
  <1> QED BY <1>1, ContinueTyped

LEMMA WaitTyped ==
  ASSUME Typed, NEW c,
         c \in {"account_token", "identity_token", "jwks_uri", "pub_key",
                "release", "ruleset", "check", "quota"}, Wait(c)
  PROVE  Typed'
  BY DEF Typed, Wait, Unwind

LEMMA TouchTyped ==
  ASSUME stale \subseteq Sites, NEW who \in Sites, Touch(who)
  PROVE  stale' \subseteq Sites
  BY DEF Touch

(* A step of the workflow that leaves the request alone keeps the invariant  *)
(* if it moves index and call together and what was found stands.            *)
LEMMA WorkflowStep ==
  ASSUME LifecycleInvariant, index # 0, index' # 0,
         UNCHANGED <<conf, requestVars, continuation, reportVars, crashed, boundVars>>,
         tests' \in Nat, Typed', verdict' \in Verdicts,
         stale' \subseteq Sites, "continuation" \notin stale',
         frame' = "access" <=> frame = "access",
         CallPosition', Standing'
  PROVE  LifecycleInvariant'
  <1> USE DEF LifecycleInvariant, requestVars, reportVars, boundVars
  <1>1. TypeOK'
    BY DEF TypeOK, Typed, Verdicts, Sites
  <1>2. status = "AGAIN" /\ continuation /\ phase # "new"
    BY DEF Waiting
  <1>3. Admitted' /\ Waiting' /\ WakeupPosted'
    BY <1>2 DEF Admitted, Waiting, WakeupPosted
  <1>4. Linked'
    BY DEF Linked
  <1>5. QuotaKnowsMethod' /\ CancelledCheckIgnored'
    BY DEF QuotaKnowsMethod, CancelledCheckIgnored
  <1> QED BY <1>1, <1>3, <1>4, <1>5

LEMMA WorkflowFacts ==
  ASSUME LifecycleInvariant
  PROVE  /\ Typed /\ verdict \in Verdicts /\ stale \subseteq Sites
         /\ "continuation" \notin stale /\ tests \in Nat
  BY DEF LifecycleInvariant, TypeOK, Typed, Verdicts, Sites, CancelledCheckIgnored

Calls == {"account_token", "identity_token", "jwks_uri", "pub_key", "release",
          "ruleset", "check", "quota"}

(* A handler answers: what it found stands if the check goes on.             *)
LEMMA Answered ==
  ASSUME LifecycleInvariant, index \in 1 .. 6,
         UNCHANGED <<conf, requestVars, continuation, reportVars, crashed, boundVars>>,
         NEW st \in {"OK", "ERROR"}, RunOneHandler(st),
         verdict' \in Verdicts, tests' \in Nat,
         stale' \subseteq Sites, "continuation" \notin stale',
         frame' \in {"none", "access", "answer"},
         frame' = "access" <=> frame = "access",
         index > 3 => verdict'["auth"] = verdict["auth"],
         index > 4 => verdict'["rules"] = verdict["rules"],
         index > 5 => verdict'["check"] = verdict["check"],
         st = "OK" => /\ index = 3 => AuthAllowed'
                      /\ index = 4 => RulesAllowed'
                      /\ index = 5 => CheckAllowed'
                      /\ index = 6 => QuotaAllowed'
  PROVE  LifecycleInvariant'
  <1>1. /\ call' = "none"
        /\ st = "OK" /\ index < 6 => index' = index + 1 /\ result' = result
        /\ st = "OK" /\ index = 6 => index' = 7 /\ result' = "OK"
        /\ st # "OK" => index' = 7 /\ result' = st
    BY Continuation
  <1>2. Typed' /\ index' # 0
    BY <1>1, WorkflowFacts DEF Typed
  <1>3. CallPosition'
    BY <1>1 DEF CallPosition
  <1>4. Standing'
    <2>1. Standing
      BY DEF LifecycleInvariant
    <2>2. st # "OK" => Standing'
      BY <1>1 DEF Standing, Past
    <2>3. st = "OK" /\ index > 3 => AuthAllowed'
      BY <2>1 DEF Standing, Past, AuthAllowed
    <2>4. st = "OK" /\ index > 4 => RulesAllowed'
      BY <2>1 DEF Standing, Past, RulesAllowed
    <2>5. st = "OK" /\ index > 5 => CheckAllowed'
      BY <2>1 DEF Standing, Past, CheckAllowed
    <2> QED BY <1>1, <2>2, <2>3, <2>4, <2>5 DEF Standing, Past
  <1> QED BY <1>2, <1>3, <1>4, WorkflowStep

(* A handler waits for a call.                                               *)
LEMMA Waits ==
  ASSUME LifecycleInvariant, index \in 1 .. 6,
         UNCHANGED <<conf, requestVars, continuation, reportVars, crashed, boundVars>>,
         UNCHANGED <<index, result, verdict>>,
         call' \in Calls, Position[call'] = index, tests' \in Nat,
         call' = "check" => conf.method,
         stale' \subseteq Sites, "continuation" \notin stale',
         frame' \in {"none", "access", "answer"},
         frame' = "access" <=> frame = "access"
  PROVE  LifecycleInvariant'
  <1>1. Typed' /\ verdict' \in Verdicts
    BY WorkflowFacts DEF Typed, Calls
  <1>2. CallPosition'
    BY DEF CallPosition, Position, Calls
  <1>3. Standing'
    BY DEF LifecycleInvariant, Standing, Past, AuthAllowed, RulesAllowed,
           CheckAllowed, QuotaAllowed
  <1> QED BY <1>1, <1>2, <1>3, WorkflowStep

LEMMA Touching ==
  ASSUME stale \subseteq Sites, "continuation" \notin stale,
         NEW who \in Sites \ {"continuation"}, Touch(who)
  PROVE  stale' \subseteq Sites /\ "continuation" \notin stale'
  BY DEF Touch

LEMMA Unwinding ==
  ASSUME frame \in {"none", "access", "answer"}
  PROVE  /\ Unwind \in {"none", "access", "answer"}
         /\ Unwind = "access" <=> frame = "access"
  BY DEF Unwind

LEMMA TokenSteps ==
  ASSUME LifecycleInvariant,
         FetchServiceAccountToken \/ FetchInstanceIdentityToken \/ TokenFetched
  PROVE  LifecycleInvariant'
  <1> USE DEF Typed
  <1>1. CASE FetchServiceAccountToken
    <2>1. index = 1
      BY <1>1, Handlers DEF FetchServiceAccountToken
    <2>2. ASSUME NEW st \in {"OK", "ERROR"}, RunOneHandler(st), frame' = frame
          PROVE  LifecycleInvariant'
      BY <1>1, <2>1, <2>2, WorkflowFacts, Answered DEF FetchServiceAccountToken
    <2>3. CASE Wait("account_token")
      BY <1>1, <2>1, <2>3, WorkflowFacts, Waits, Unwinding
         DEF FetchServiceAccountToken, Wait, Calls, Position
    <2> QED BY <1>1, <2>2, <2>3 DEF FetchServiceAccountToken
  <1>2. CASE FetchInstanceIdentityToken
    <2>1. index = 2
      BY <1>2, Handlers DEF FetchInstanceIdentityToken
    <2>2. ASSUME NEW st \in {"OK", "ERROR"}, RunOneHandler(st), frame' = frame
          PROVE  LifecycleInvariant'
      BY <1>2, <2>1, <2>2, WorkflowFacts, Answered DEF FetchInstanceIdentityToken
    <2>3. CASE Wait("identity_token")
      BY <1>2, <2>1, <2>3, WorkflowFacts, Waits, Unwinding
         DEF FetchInstanceIdentityToken, Wait, Calls, Position
    <2> QED BY <1>2, <2>2, <2>3 DEF FetchInstanceIdentityToken
  <1>3. CASE TokenFetched
    <2>1. index \in 1 .. 2
      BY <1>3 DEF TokenFetched, LifecycleInvariant, CallPosition, Position
    <2>2. PICK st \in {"OK", "ERROR"} : RunOneHandler(st)
      BY <1>3 DEF TokenFetched
    <2> QED BY <1>3, <2>1, <2>2, WorkflowFacts, Answered DEF TokenFetched
  <1> QED BY <1>1, <1>2, <1>3

LEMMA AuthSteps ==
  ASSUME LifecycleInvariant, CheckAuth \/ PostFetchJwksUri \/ PostFetchPubKey
  PROVE  LifecycleInvariant'
  <1> USE DEF Typed
  <1>0. index = 3
    BY Handlers DEF CheckAuth, PostFetchJwksUri, PostFetchPubKey,
                    LifecycleInvariant, CallPosition, Position
  <1>1. ASSUME NEW v \in {"ok", "denied"}, NEW st \in {"OK", "ERROR"},
               Answer("auth", v, st), st = "OK" => v = "ok",
               UNCHANGED <<conf, requestVars, continuation, tests, reportVars, crashed,
                           boundVars>>,
               Touch("auth") \/ stale' = stale,
               frame' = frame \/ (frame = "none" /\ frame' = "answer")
        PROVE  LifecycleInvariant'
    <2>1. verdict' = [verdict EXCEPT !["auth"] = v] /\ RunOneHandler(st)
      BY <1>1 DEF Answer
    <2>2. verdict' \in Verdicts /\ verdict'["auth"] = v
      BY <2>1, WorkflowFacts DEF Verdicts, Check
    <2>3. stale' \subseteq Sites /\ "continuation" \notin stale'
      BY <1>1, WorkflowFacts, Touching DEF Sites
    <2>4. st = "OK" => AuthAllowed'
      BY <1>1, <2>2 DEF AuthAllowed
    <2> QED BY <1>0, <1>1, <2>1, <2>2, <2>3, <2>4, WorkflowFacts, Answered
  <1>2. CASE CheckAuth
    <2>1. CASE ~conf.auth /\ RunOneHandler("OK") /\ UNCHANGED <<frame, verdict, stale>>
      <3>1. AuthAllowed'
        BY <1>2, <2>1 DEF AuthAllowed, CheckAuth
      <3> QED BY <1>0, <1>2, <2>1, <3>1, WorkflowFacts, Answered DEF CheckAuth
    <2>2. CASE \E c \in {"jwks_uri", "pub_key"} :
                 Touch("auth") /\ Wait(c) /\ UNCHANGED verdict
      <3>1. stale' \subseteq Sites /\ "continuation" \notin stale'
        BY <2>2, WorkflowFacts, Touching DEF Sites
      <3>2. call' \in Calls /\ Position[call'] = index
        BY <1>0, <2>2 DEF Wait, Calls, Position
      <3>3. call' # "check"
        BY <2>2 DEF Wait
      <3> QED BY <1>0, <1>2, <2>2, <3>1, <3>2, <3>3, WorkflowFacts, Waits, Unwinding
              DEF CheckAuth, Wait
    <2> QED BY <1>1, <1>2, <2>1, <2>2 DEF CheckAuth
  <1>3. CASE PostFetchJwksUri
    <2>1. CASE call' = "pub_key" /\ UNCHANGED <<frame, index, result, verdict>>
      BY <1>0, <1>3, <2>1, WorkflowFacts, Waits DEF PostFetchJwksUri, Calls, Position
    <2> QED BY <1>1, <1>3, <2>1 DEF PostFetchJwksUri
  <1>4. CASE PostFetchPubKey
    BY <1>1, <1>4 DEF PostFetchPubKey
  <1> QED BY <1>2, <1>3, <1>4

LEMMA RulesSteps ==
  ASSUME LifecycleInvariant, CheckSecurityRules \/ ReleaseFetched \/ RulesetTested
  PROVE  LifecycleInvariant'
  <1> USE DEF Typed
  <1>0. index = 4
    BY Handlers DEF CheckSecurityRules, ReleaseFetched, RulesetTested,
                    LifecycleInvariant, CallPosition, Position
  <1>1. ASSUME NEW v \in {"ok", "denied", "unavailable"},
               NEW st \in {"OK", "ERROR"},
               Answer("rules", v, st), st = "OK" => v = "ok",
               UNCHANGED <<conf, requestVars, continuation, tests, reportVars, crashed,
                           boundVars>>,
               Touch("rules") \/ stale' = stale,
               frame' = frame \/ (frame = "none" /\ frame' = "answer")
        PROVE  LifecycleInvariant'
    <2>1. verdict' = [verdict EXCEPT !["rules"] = v] /\ RunOneHandler(st)
      BY <1>1 DEF Answer
    <2>2. /\ verdict' \in Verdicts /\ verdict'["rules"] = v
          /\ verdict'["auth"] = verdict["auth"]
      BY <2>1, WorkflowFacts DEF Verdicts, Check
    <2>3. stale' \subseteq Sites /\ "continuation" \notin stale'
      BY <1>1, WorkflowFacts, Touching DEF Sites
    <2>4. st = "OK" => RulesAllowed'
      BY <1>1, <2>2 DEF RulesAllowed
    <2> QED BY <1>0, <1>1, <2>1, <2>2, <2>3, <2>4, WorkflowFacts, Answered
  <1>2. CASE CheckSecurityRules
    <2>1. CASE ~conf.rules /\ RunOneHandler("OK") /\ UNCHANGED <<frame, verdict, stale>>
      <3>1. RulesAllowed'
        BY <1>2, <2>1 DEF RulesAllowed, CheckSecurityRules
      <3> QED BY <1>0, <1>2, <2>1, <3>1, WorkflowFacts, Answered DEF CheckSecurityRules
    <2>2. CASE Touch("rules") /\ Wait("release") /\ UNCHANGED verdict
      <3>1. stale' \subseteq Sites /\ "continuation" \notin stale'
        BY <2>2, WorkflowFacts, Touching DEF Sites
      <3> QED BY <1>0, <1>2, <2>2, <3>1, WorkflowFacts, Waits, Unwinding
              DEF CheckSecurityRules, Wait, Calls, Position
    <2> QED BY <1>1, <1>2, <2>1, <2>2 DEF CheckSecurityRules
  <1>3. CASE ReleaseFetched
    <2>1. CASE /\ call' = "ruleset" /\ tests' = 1 /\ Touch("rules")
               /\ UNCHANGED <<frame, index, result, verdict>>
      <3>1. stale' \subseteq Sites /\ "continuation" \notin stale'
        BY <2>1, WorkflowFacts, Touching DEF Sites
      <3> QED BY <1>0, <1>3, <2>1, <3>1, WorkflowFacts, Waits
              DEF ReleaseFetched, Calls, Position
    <2> QED BY <1>1, <1>3, <2>1 DEF ReleaseFetched
  <1>4. CASE RulesetTested
    <2>1. CASE /\ tests' = tests + 1
               /\ UNCHANGED <<frame, index, result, call, verdict, stale>>
      BY <1>0, <1>4, <2>1, WorkflowFacts, Waits DEF RulesetTested, Calls, Position
    <2> QED BY <1>1, <1>4, <2>1 DEF RulesetTested
  <1> QED BY <1>2, <1>3, <1>4

LEMMA CheckSteps ==
  ASSUME LifecycleInvariant, CheckServiceControl \/ ServiceControlChecked
  PROVE  LifecycleInvariant'
  <1> USE DEF Typed
  <1>0. index = 5
    BY Handlers DEF CheckServiceControl, ServiceControlChecked,
                    LifecycleInvariant, CallPosition, Position
  <1>1. ASSUME NEW v \in {"ok", "denied", "unavailable"}, conf.method,
               Answer("check", v, CheckStatus(v)),
               UNCHANGED <<conf, requestVars, continuation, tests, reportVars, crashed,
                           boundVars>>,
               Touch("check") \/ stale' = stale,
               frame' = frame \/ (frame = "none" /\ frame' = "answer")
        PROVE  LifecycleInvariant'
    <2>1. /\ verdict' = [verdict EXCEPT !["check"] = v]
          /\ RunOneHandler(CheckStatus(v))
      BY <1>1 DEF Answer
    <2>2. /\ verdict' \in Verdicts /\ verdict'["check"] = v
          /\ verdict'["auth"] = verdict["auth"]
          /\ verdict'["rules"] = verdict["rules"]
      BY <2>1, WorkflowFacts DEF Verdicts, Check
    <2>3. stale' \subseteq Sites /\ "continuation" \notin stale'
      BY <1>1, WorkflowFacts, Touching DEF Sites
    <2>4. CheckStatus(v) = "OK" => CheckAllowed'
      BY <1>1, <2>2 DEF CheckAllowed, CheckStatus
    <2>5. CheckStatus(v) \in {"OK", "ERROR"}
      BY DEF CheckStatus
    <2> QED BY <1>0, <1>1, <2>1, <2>2, <2>3, <2>4, <2>5, WorkflowFacts, Answered
  <1>2. CASE CheckServiceControl
    <2>1. ASSUME NEW st \in {"OK", "ERROR"}, RunOneHandler(st),
                 st = "OK" => CheckAllowed', UNCHANGED <<frame, verdict, stale>>
          PROVE  LifecycleInvariant'
      BY <1>0, <1>2, <2>1, WorkflowFacts, Answered DEF CheckServiceControl
    <2>2. CASE /\ conf.method
               /\ \/ ~conf.control \/ conf.skip_service_control
                  \/ ~conf.api_key /\ conf.allow_unregistered_calls
               /\ RunOneHandler("OK") /\ UNCHANGED <<frame, verdict, stale>>
      <3>1. CheckAllowed'
        BY <1>2, <2>2 DEF CheckAllowed, CheckServiceControl
      <3> QED BY <2>1, <2>2, <3>1
    <2>3. CASE conf.method /\ Touch("check") /\ Wait("check") /\ UNCHANGED verdict
      <3>1. stale' \subseteq Sites /\ "continuation" \notin stale'
        BY <2>3, WorkflowFacts, Touching DEF Sites
      <3> QED BY <1>0, <1>2, <2>3, <3>1, WorkflowFacts, Waits, Unwinding
              DEF CheckServiceControl, Wait, Calls, Position
    <2>4. CheckStatus("denied") = "ERROR"
      BY DEF CheckStatus
    <2> QED BY <1>1, <1>2, <2>1, <2>2, <2>3, <2>4 DEF CheckServiceControl
  <1>3. CASE ServiceControlChecked
    <2>1. conf.method
      BY <1>3 DEF ServiceControlChecked, LifecycleInvariant, CallPosition
    <2> QED BY <1>1, <1>3, <2>1 DEF ServiceControlChecked
  <1> QED BY <1>2, <1>3

(* The worker dies: nothing of the request is left.                          *)
LEMMA CrashStep ==
  ASSUME LifecycleInvariant, Crash, conf.method, phase # "new",
         UNCHANGED <<conf, handler_set, status, continuation, result, tests, verdict,
                     reportVars, stale>>,
         writes' \in Nat, messages' \in Nat
  PROVE  LifecycleInvariant'
  <1> USE DEF LifecycleInvariant, Crash, reportVars
  <1>1. TypeOK'
    <2>1. index' \in 0 .. 7
      OBVIOUS
    <2>2. /\ conf' = conf /\ handler_set' = handler_set /\ status' = status
          /\ continuation' = continuation /\ result' = result /\ tests' = tests
          /\ verdict' = verdict /\ client' = client /\ reports' = reports
          /\ first_report' = first_report /\ stale' = stale
      OBVIOUS
    <2> QED BY <2>1, <2>2, Zenon DEF TypeOK
  <1>2. CallPosition' /\ Standing' /\ Waiting' /\ Linked' /\ WakeupPosted'
    BY DEF CallPosition, Standing, Past, Waiting, Linked, WakeupPosted
  <1>3. Admitted'
    BY DEF Admitted, AuthAllowed, RulesAllowed, CheckAllowed, QuotaAllowed
  <1>4. QuotaKnowsMethod' /\ CancelledCheckIgnored'
    BY DEF QuotaKnowsMethod, CancelledCheckIgnored
  <1> QED BY <1>1, <1>2, <1>3, <1>4

LEMMA QuotaSteps ==
  ASSUME LifecycleInvariant, QuotaControl \/ QuotaAllocated
  PROVE  LifecycleInvariant'
  <1> USE DEF Typed
  <1>0. index = 6
    BY Handlers DEF QuotaControl, QuotaAllocated, LifecycleInvariant, CallPosition,
                    Position
  <1>m. conf.method /\ phase # "new"
    BY <1>0 DEF LifecycleInvariant, Standing, Past, CheckAllowed, Waiting
  <1>1. ASSUME NEW v \in {"ok", "denied", "unavailable"},
               Answer("quota", v, QuotaStatus(v)),
               UNCHANGED <<conf, requestVars, continuation, tests, reportVars, crashed,
                           boundVars>>,
               Touch("quota") \/ stale' = stale,
               frame' = frame \/ (frame = "none" /\ frame' = "answer")
        PROVE  LifecycleInvariant'
    <2>1. /\ verdict' = [verdict EXCEPT !["quota"] = v]
          /\ RunOneHandler(QuotaStatus(v))
      BY <1>1 DEF Answer
    <2>2. /\ verdict' \in Verdicts /\ verdict'["quota"] = v
          /\ verdict'["auth"] = verdict["auth"]
          /\ verdict'["rules"] = verdict["rules"]
          /\ verdict'["check"] = verdict["check"]
      BY <2>1, WorkflowFacts DEF Verdicts, Check
    <2>3. stale' \subseteq Sites /\ "continuation" \notin stale'
      BY <1>1, WorkflowFacts, Touching DEF Sites
    <2>4. QuotaStatus(v) = "OK" => QuotaAllowed'
      BY <1>1, <2>2 DEF QuotaAllowed, QuotaStatus
    <2>5. QuotaStatus(v) \in {"OK", "ERROR"}
      BY DEF QuotaStatus
    <2> QED BY <1>0, <1>1, <2>1, <2>2, <2>3, <2>4, <2>5, WorkflowFacts, Answered
  <1>2. CASE QuotaControl
    <2>0. UNCHANGED <<conf, handler_set, status, continuation, tests, reportVars,
                      boundVars>>
      BY <1>2 DEF QuotaControl
    <2>1. CASE /\ ~conf.costs \/ conf.skip_service_control
               /\ RunOneHandler("OK")
               /\ UNCHANGED <<phase, linked, wakeup, frame, verdict, stale, crashed>>
      <3>1. QuotaAllowed'
        BY <2>0, <2>1 DEF QuotaAllowed
      <3>2. UNCHANGED requestVars
        BY <2>0, <2>1 DEF requestVars
      <3> QED BY <1>0, <2>0, <2>1, <3>1, <3>2, WorkflowFacts, Answered
    <2>2. CASE /\ Touch("quota")
               /\ \/ ~client /\ Answer("quota", "denied", "ERROR") /\ UNCHANGED frame
                  \/ /\ client /\ UNCHANGED frame
                     /\ \E v \in {"ok", "denied", "unavailable"} :
                          Answer("quota", v, QuotaStatus(v))
                  \/ client /\ Wait("quota") /\ UNCHANGED verdict
               /\ UNCHANGED <<phase, linked, wakeup, crashed>>
      <3>1. UNCHANGED requestVars
        BY <2>0, <2>2 DEF requestVars
      <3>2. stale' \subseteq Sites /\ "continuation" \notin stale'
        BY <2>2, WorkflowFacts, Touching DEF Sites
      <3>3. CASE Wait("quota") /\ UNCHANGED verdict
        BY <1>0, <2>0, <2>2, <3>1, <3>2, <3>3, WorkflowFacts, Waits, Unwinding
           DEF Wait, Calls, Position
      <3>4. QuotaStatus("denied") = "ERROR"
        BY DEF QuotaStatus
      <3> QED BY <1>1, <2>0, <2>2, <3>1, <3>3, <3>4
    <2>3. CASE Crash /\ UNCHANGED <<result, verdict, stale>>
      <3>1. writes' \in Nat /\ messages' \in Nat
        BY <2>0 DEF LifecycleInvariant, TypeOK, boundVars
      <3> QED BY <1>m, <2>0, <2>3, <3>1, CrashStep
    <2> QED BY <1>2, <1>m, <2>1, <2>2, <2>3 DEF QuotaControl
  <1>3. CASE QuotaAllocated
    BY <1>1, <1>3 DEF QuotaAllocated
  <1> QED BY <1>2, <1>3

LEMMA CompleteStep ==
  ASSUME LifecycleInvariant, CompleteCheck
  PROVE  LifecycleInvariant'
  <1> USE DEF LifecycleInvariant, reportVars, boundVars
  <1>0. index = 7
    BY Handlers DEF CompleteCheck
  <1>1. ~(phase = "gone" /\ linked)
    BY DEF Linked
  <1>2. stale' \subseteq Sites /\ "continuation" \notin stale'
    BY <1>1, WorkflowFacts DEF CompleteCheck, Sites
  <1>3. status' \in {"OK", "ERROR", "AGAIN"} /\ wakeup' \in BOOLEAN
    BY DEF CompleteCheck, TypeOK
  <1>4. TypeOK'
    <2>1. frame' \in {"none", "access", "answer"} /\ index' \in 0 .. 7
      BY DEF CompleteCheck, TypeOK, Unwind
    <2> QED BY <1>2, <1>3, <2>1, ZenonT(60) DEF CompleteCheck, TypeOK, Sites
  <1>5. CallPosition' /\ Standing' /\ Waiting'
    BY <1>0 DEF CompleteCheck, CallPosition, Position, Standing, Past, Waiting, TypeOK
  <1>6. Admitted'
    <2>1. status = "AGAIN" /\ phase # "new"
      BY <1>0 DEF Waiting
    <2>2. result = "OK" => AuthAllowed /\ RulesAllowed /\ CheckAllowed /\ QuotaAllowed
      BY <1>0 DEF Standing, Past
    <2> QED BY <2>1, <2>2 DEF CompleteCheck, Admitted, AuthAllowed, RulesAllowed,
                              CheckAllowed, QuotaAllowed
  <1>7. Linked' /\ WakeupPosted'
    BY <1>0 DEF CompleteCheck, Linked, WakeupPosted, Unwind, Waiting, TypeOK
  <1>8. QuotaKnowsMethod' /\ CancelledCheckIgnored'
    BY <1>2 DEF CompleteCheck, QuotaKnowsMethod, CancelledCheckIgnored
  <1> QED BY <1>4, <1>5, <1>6, <1>7, <1>8

LEMMA AccessSteps ==
  ASSUME LifecycleInvariant, AccessHandler \/ CheckReturns \/ WakeupEvent \/ WriteEvent
  PROVE  LifecycleInvariant'
  <1> USE DEF LifecycleInvariant, checkVars, reportVars, boundVars
  <1>0. /\ AccessResult("AGAIN") = "access" /\ AccessResult("OK") = "content"
        /\ AccessResult("ERROR") = "finalizing"
    BY DEF AccessResult
  <1>1. CASE AccessHandler
    <2> USE <1>1 DEF AccessHandler
    <2>1. TypeOK'
      BY DEF TypeOK
    <2>2. index = 0 /\ call = "none" /\ frame = "none" /\ ~linked
      BY DEF Waiting, Linked
    <2>3. CallPosition' /\ Standing' /\ Admitted' /\ Waiting'
      BY <2>2 DEF CallPosition, Standing, Past, Admitted, Waiting
    <2>4. Linked' /\ WakeupPosted' /\ QuotaKnowsMethod' /\ CancelledCheckIgnored'
      BY <2>2 DEF Linked, WakeupPosted, QuotaKnowsMethod, CancelledCheckIgnored
    <2> QED BY <2>1, <2>3, <2>4
  <1>2. ASSUME UNCHANGED <<conf, status, linked, continuation, index, result, call,
                           tests, verdict, reportVars, crashed, messages>>,
               linked, frame # "answer", frame' = "none", handler_set',
               phase' = AccessResult(status) \/ phase' = phase,
               phase' = "access" => status = "AGAIN",
               phase' = "content" => status = "OK",
               wakeup' \in BOOLEAN, writes' \in Nat,
               stale' \subseteq Sites, "continuation" \notin stale'
        PROVE  LifecycleInvariant'
    <2>1. phase \notin {"new", "gone"}
      BY <1>2 DEF Linked
    <2>2. phase' \in {"access", "content", "finalizing"}
      BY <1>0, <1>2, <2>1 DEF TypeOK
    <2>3. TypeOK'
      BY <1>2, <2>2 DEF TypeOK, Sites
    <2>4. CallPosition' /\ Standing'
      BY <1>2 DEF CallPosition, Standing, Past, AuthAllowed, RulesAllowed,
                  CheckAllowed, QuotaAllowed
    <2>5. Admitted'
      BY <1>2, <2>1, <2>2 DEF Admitted, AuthAllowed, RulesAllowed, CheckAllowed,
                              QuotaAllowed
    <2>6. Waiting' /\ Linked' /\ WakeupPosted'
      BY <1>2, <2>1, <2>2 DEF Waiting, Linked, WakeupPosted
    <2>7. QuotaKnowsMethod' /\ CancelledCheckIgnored'
      BY <1>2 DEF QuotaKnowsMethod, CancelledCheckIgnored
    <2> QED BY <2>3, <2>4, <2>5, <2>6, <2>7
  <1>3. status \in {"OK", "ERROR", "AGAIN"} /\ writes \in Nat /\ wakeup \in BOOLEAN
    BY DEF TypeOK
  <1>4. CASE CheckReturns
    <2>1. linked
      BY <1>4 DEF CheckReturns, Linked
    <2> QED BY <1>0, <1>2, <1>3, <1>4, <2>1, WorkflowFacts DEF CheckReturns
  <1>5. CASE WriteEvent
    <2>1. linked /\ handler_set
      BY <1>5 DEF WriteEvent, Linked
    <2> QED BY <1>0, <1>2, <1>3, <1>5, <2>1, WorkflowFacts DEF WriteEvent
  <1>6. CASE WakeupEvent
    <2> USE <1>6 DEF WakeupEvent
    <2>1. stale' \subseteq Sites /\ "continuation" \notin stale'
      BY WorkflowFacts, Touching DEF Sites
    <2>2. CASE phase = "access"
      <3>1. linked /\ handler_set
        BY <2>2 DEF Linked
      <3> QED BY <1>0, <1>2, <1>3, <2>1, <2>2, <3>1
    <2>3. CASE phase # "access"
      <3>1. UNCHANGED <<conf, phase, handler_set, status, linked, checkVars,
                        reportVars, crashed, boundVars>>
        BY <2>3
      <3>0. /\ conf' = conf /\ phase' = phase
            /\ handler_set' = handler_set /\ status' = status
            /\ linked' = linked /\ continuation' = continuation
            /\ frame' = frame /\ index' = index /\ result' = result
            /\ call' = call /\ tests' = tests /\ verdict' = verdict
            /\ client' = client /\ first_report' = first_report
            /\ reports' = reports /\ crashed' = crashed
            /\ writes' = writes /\ messages' = messages
        BY <3>1
      <3>5. wakeup' \in BOOLEAN /\ stale' \subseteq Sites
        BY <2>1
      <3>6. TypeOK
        OBVIOUS
      <3> HIDE <1>6 DEF WakeupEvent, LifecycleInvariant
      <3>2. TypeOK'
        BY <3>0, <3>5, <3>6 DEF TypeOK, Sites
      <3> USE <1>6 DEF WakeupEvent, LifecycleInvariant
      <3>3. CallPosition' /\ Standing' /\ Admitted'
        BY <3>1 DEF CallPosition, Standing, Past, Admitted, AuthAllowed, RulesAllowed,
                    CheckAllowed, QuotaAllowed
      <3>4. /\ Waiting' /\ Linked' /\ WakeupPosted' /\ QuotaKnowsMethod'
            /\ CancelledCheckIgnored'
        BY <2>1, <2>3, <3>1 DEF Waiting, Linked, WakeupPosted, QuotaKnowsMethod,
                                CancelledCheckIgnored
      <3> QED BY <3>2, <3>3, <3>4
    <2> QED BY <2>2, <2>3
  <1> QED BY <1>1, <1>4, <1>5, <1>6

(* A report is appended, or not.                                             *)
LEMMA Reporting ==
  ASSUME TypeOK, NEW final \in BOOLEAN
  PROVE  Report(final) \in Seq([first : BOOLEAN, final : BOOLEAN])
  <1>1. [first |-> first_report, final |-> final] \in [first : BOOLEAN, final : BOOLEAN]
    BY DEF TypeOK
  <1> QED BY <1>1, AppendProperties DEF Report, TypeOK

(* Steps in the content phase and at the end of the request.                 *)
LEMMA ContentSteps ==
  ASSUME LifecycleInvariant,
         StreamMessage \/ BackendDone \/ RequestDone \/ TerminateRequest
                       \/ AttemptShutdown
  PROVE  LifecycleInvariant'
  <1> USE DEF LifecycleInvariant, requestVars, checkVars, reportVars, boundVars
  <1>1. ASSUME UNCHANGED <<conf, handler_set, status, wakeup, checkVars, stale,
                           crashed>>,
               phase' # "new", phase # "new", frame = "none",
               phase' = "access" => phase = "access",
               phase' = "content" => phase = "content",
               linked' <=> phase' # "gone", linked => handler_set,
               linked' => linked,
               TypeOK'
        PROVE  LifecycleInvariant'
    <2>1. CallPosition' /\ Standing' /\ Admitted'
      BY <1>1 DEF CallPosition, Standing, Past, Admitted, AuthAllowed, RulesAllowed,
                  CheckAllowed, QuotaAllowed
    <2>2. /\ Waiting' /\ Linked' /\ WakeupPosted' /\ QuotaKnowsMethod'
          /\ CancelledCheckIgnored'
      BY <1>1 DEF Waiting, Linked, WakeupPosted, QuotaKnowsMethod,
                  CancelledCheckIgnored
    <2> QED BY <1>1, <2>1, <2>2
  <1>2. CASE StreamMessage
    <2> USE <1>2 DEF StreamMessage
    <2>1. /\ linked /\ handler_set /\ conf.method
          /\ writes' \in Nat /\ messages' \in Nat
      BY DEF Linked, Waiting, Admitted, CheckAllowed, TypeOK
    <2>2. CASE Crash /\ UNCHANGED <<first_report, reports>>
      BY <2>1, <2>2, CrashStep
    <2>3. CASE /\ UNCHANGED <<phase, linked, wakeup, frame, index, call, crashed>>
               /\ \/ UNCHANGED <<first_report, reports>>
                  \/ /\ reports' = IF client THEN Report(FALSE) ELSE reports
                     /\ first_report' = IF client THEN FALSE ELSE first_report
      <3>1. /\ reports' \in Seq([first : BOOLEAN, final : BOOLEAN])
            /\ first_report' \in BOOLEAN
        BY <2>3, Reporting DEF TypeOK
      <3>2. TypeOK'
        BY <2>1, <2>3, <3>1 DEF TypeOK
      <3> QED BY <1>1, <2>1, <2>3, <3>2
    <2> QED BY <2>2, <2>3
  <1>3. CASE BackendDone
    <2>1. TypeOK'
      BY <1>3 DEF BackendDone, TypeOK
    <2> QED BY <1>1, <1>3, <2>1 DEF BackendDone, Linked
  <1>4. CASE RequestDone \/ TerminateRequest
    <2> USE <1>4 DEF RequestDone, TerminateRequest, FreeRequest
    <2>1. reports' \in Seq([first : BOOLEAN, final : BOOLEAN])
      BY Reporting DEF TypeOK
    <2>0. /\ conf' = conf /\ handler_set' = handler_set
          /\ status' = status /\ wakeup' = wakeup
          /\ continuation' = continuation /\ frame' = frame
          /\ index' = index /\ result' = result /\ call' = call
          /\ tests' = tests /\ verdict' = verdict /\ client' = client
          /\ first_report' = first_report /\ stale' = stale
          /\ crashed' = crashed /\ writes' = writes
          /\ messages' = messages
      OBVIOUS
    <2>3. phase' = "gone" /\ linked' \in BOOLEAN /\ TypeOK
      OBVIOUS
    <2> HIDE <1>4 DEF RequestDone, TerminateRequest, FreeRequest, LifecycleInvariant
    <2>2. TypeOK'
      BY <2>0, <2>1, <2>3 DEF TypeOK
    <2> USE <1>4 DEF RequestDone, TerminateRequest, FreeRequest, LifecycleInvariant
    <2> QED BY <1>1, <2>2 DEF Linked
  <1>5. CASE AttemptShutdown
    <2> USE <1>5 DEF AttemptShutdown
    <2>0. /\ conf' = conf /\ phase' = phase
          /\ handler_set' = handler_set /\ status' = status
          /\ linked' = linked /\ wakeup' = wakeup
          /\ continuation' = continuation /\ frame' = frame
          /\ index' = index /\ result' = result /\ call' = call
          /\ tests' = tests /\ verdict' = verdict
          /\ first_report' = first_report /\ reports' = reports
          /\ stale' = stale /\ crashed' = crashed /\ writes' = writes
          /\ messages' = messages
      OBVIOUS
    <2>4. client' \in BOOLEAN /\ TypeOK
      OBVIOUS
    <2> HIDE <1>5 DEF AttemptShutdown, LifecycleInvariant
    <2>1. TypeOK'
      BY <2>0, <2>4 DEF TypeOK
    <2> USE <1>5 DEF AttemptShutdown, LifecycleInvariant
    <2>2. CallPosition' /\ Standing' /\ Admitted'
      BY DEF CallPosition, Standing, Past, Admitted, AuthAllowed, RulesAllowed,
             CheckAllowed, QuotaAllowed
    <2>3. /\ Waiting' /\ Linked' /\ WakeupPosted' /\ QuotaKnowsMethod'
          /\ CancelledCheckIgnored'
      BY DEF Waiting, Linked, WakeupPosted, QuotaKnowsMethod, CancelledCheckIgnored
    <2> QED BY <2>1, <2>2, <2>3
  <1> QED BY <1>2, <1>3, <1>4, <1>5

LEMMA NextLifecycle == LifecycleInvariant /\ [Next]_vars => LifecycleInvariant'
  <1> SUFFICES ASSUME LifecycleInvariant, [Next]_vars PROVE LifecycleInvariant'
    OBVIOUS
  <1>1. CASE Handler
    BY <1>1, TokenSteps, AuthSteps, RulesSteps, CheckSteps, QuotaSteps, CompleteStep,
       AccessSteps DEF Handler
  <1>2. CASE CallAnswered
    BY <1>2, TokenSteps, AuthSteps, RulesSteps, CheckSteps, QuotaSteps
       DEF CallAnswered
  <1>3. CASE WakeupEvent \/ WriteEvent
    BY <1>3, AccessSteps
  <1>4. CASE \/ StreamMessage \/ BackendDone \/ RequestDone \/ TerminateRequest
             \/ AttemptShutdown
    BY <1>4, ContentSteps
  <1>5. CASE UNCHANGED vars
    <2> USE <1>5 DEF vars, requestVars, checkVars, reportVars, boundVars,
                     LifecycleInvariant
    <2>1. TypeOK'
      BY DEF TypeOK
    <2>2. CallPosition' /\ Standing' /\ Admitted'
      BY DEF CallPosition, Standing, Past, Admitted, AuthAllowed, RulesAllowed,
             CheckAllowed, QuotaAllowed
    <2>3. /\ Waiting' /\ Linked' /\ WakeupPosted' /\ QuotaKnowsMethod'
          /\ CancelledCheckIgnored'
      BY DEF Waiting, Linked, WakeupPosted, QuotaKnowsMethod, CancelledCheckIgnored
    <2> QED BY <2>1, <2>2, <2>3
  <1> QED BY <1>1, <1>2, <1>3, <1>4, <1>5 DEF Next

LEMMA Lifecycle == Spec => []LifecycleInvariant
  BY InitLifecycle, NextLifecycle, PTL DEF Spec

(* The type invariant of a request's variables holds in every behaviour.     *)
THEOREM TypeCorrect == Spec => []TypeOK
  <1>1. LifecycleInvariant => TypeOK
    BY DEF LifecycleInvariant
  <1> QED BY <1>1, Lifecycle, PTL

(* No request reaches the backend without the checks the service config asks *)
(* for (access_handler, access_wrapper, RunOneHandler and the handlers), for *)
(* any number of write events, messages and ruleset calls.                   *)
THEOREM OnlyAllowedRequestsPass == Spec => []ContentOnlyIfAllowed
  <1>1. LifecycleInvariant => ContentOnlyIfAllowed
    BY DEF LifecycleInvariant, Admitted, Waiting, ContentOnlyIfAllowed
  <1> QED BY <1>1, Lifecycle, PTL

(* A request that waits for a check already answered has its wake-up posted  *)
(* (the continuation in access_handler, wakeup_client_request).              *)
THEOREM NoLostWakeup == Spec => []WakeupPosted
  <1>1. LifecycleInvariant => WakeupPosted
    BY DEF LifecycleInvariant
  <1> QED BY <1>1, Lifecycle, PTL

(* RequestContext::CompleteCheck runs its continuation once, QuotaControl    *)
(* never meets a request without a method, and a check that outlives its     *)
(* request does not touch the freed context.                                 *)
THEOREM CheckEndsWell ==
  Spec => [](CompletedOnce /\ QuotaKnowsMethod /\ CancelledCheckIgnored)
  <1>1. LifecycleInvariant => CompletedOnce /\ QuotaKnowsMethod /\ CancelledCheckIgnored
    BY Handlers DEF LifecycleInvariant, Waiting, CompletedOnce
  <1> QED BY <1>1, Lifecycle, PTL

(* A check whose request was released before it ended leaves the freed       *)
(* context alone: the continuation of access_handler tests wakeup_context,   *)
(* which the destructor of the request context unlinked.                     *)
THEOREM CancelledCheckHarmless == Spec => []CancelledCheckIgnored
  <1>1. LifecycleInvariant => CancelledCheckIgnored
    BY DEF LifecycleInvariant
  <1> QED BY <1>1, Lifecycle, PTL
===============================================================================
