-------------------------- MODULE HttpClientProofs --------------------------
(* The HTTP client calls the continuation of a request at most once and      *)
(* destroys every pool at most once and after its last handler, for any      *)
(* budget of retries.  The argument rests on ClientInvariant.                *)
EXTENDS HttpClient, SequenceTheorems, TLAPS

Stages == {"none", "connecting", "status", "header", "body", "abandoned", "finalized",
           "gone"}
Zero == [p \in Pool |-> 0]
Codes == Status \union {NoCode, NGX_ERROR}

LEMMA ZeroTyped == Zero \in [Pool -> Nat] /\ Zero["esp"] = 0 /\ \A p \in Pool : Zero[p] = 0
  BY DEF Zero, Pool

LEMMA InitClient == Init => ClientInvariant
  <1> SUFFICES ASSUME Init PROVE ClientInvariant
    OBVIOUS
  <1>1. TypeOK
    <2>1. /\ answers \in Seq(Status \union {NoCode, NGX_ERROR}) /\ frames \in Seq(Attempt)
          /\ posted \subseteq Attempt
      BY DEF Init
    <2>2. /\ code \in [Attempt -> Status \union {NoCode}]
          /\ body \in [Attempt -> 0..MaxBody]
          /\ destroyed \in [Attempt -> [Pool -> Nat]]
          /\ created \in [Attempt -> SUBSET Pool]
      BY ClientAssumption, ZeroTyped DEF Init, Zero
    <2>3. /\ max_retries \in 0..MaxRetries
          /\ url_ok \in BOOLEAN /\ sent \in BOOLEAN /\ refused \in BOOLEAN
          /\ esp_request \in [Attempt -> BOOLEAN]
          /\ stage \in [Attempt -> Stages]
          /\ line \in [Attempt -> {"start", "digits", "code"}]
          /\ server \in Status
      BY DEF Init, Stages
    <2> QED BY <2>1, <2>2, <2>3 DEF TypeOK, Stages
  <1>2. RequestInvariant
    BY DEF Init, RequestInvariant, Untouched, Holding, Active
  <1>3. PoolInvariant /\ PoolsOutliveHandlers
    BY ZeroTyped DEF Init, PoolInvariant, PoolsOutliveHandlers, Zero
  <1> QED BY <1>1, <1>2, <1>3 DEF ClientInvariant

-----------------------------------------------------------------------------
(* A step of the upstream module within an attempt.                          *)
LEMMA UpstreamMoves ==
  ASSUME ClientInvariant, NEW a \in Attempt, Holding(a),
         NEW s \in {"connecting", "status", "header", "body", "abandoned"},
         stage' = [stage EXCEPT ![a] = s],
         UNCHANGED <<max_retries, sent, answers, esp_request, frames, posted, destroyed>>,
         TypeOK'
  PROVE  ClientInvariant'
  <1>1. TypeOK /\ RequestInvariant /\ PoolInvariant /\ PoolsOutliveHandlers
    BY DEF ClientInvariant
  <1>2. \A b \in Attempt : stage'[b] = IF b = a THEN s ELSE stage[b]
    BY <1>1 DEF TypeOK
  <1>3. \A b \in Attempt : Holding(b)' <=> Holding(b)
    BY <1>2 DEF Holding, Active
  <1>4. \A b \in Attempt : Untouched(b)' <=> Untouched(b)
    BY <1>2 DEF Holding, Active, Untouched
  <1>5. RequestInvariant'
    BY <1>1, <1>3, <1>4 DEF RequestInvariant
  <1>6. PoolInvariant'
    <2>1. \A b \in Attempt : stage[b] = "finalized" => stage'[b] = "finalized"
      BY <1>2 DEF Holding, Active
    <2>2. \A i \in 1..Len(frames) : frames[i] \in Attempt
      BY <1>1, ElementOfSeq DEF TypeOK
    <2>3. posted \subseteq Attempt
      BY <1>1 DEF TypeOK
    <2> QED BY <1>1, <2>1, <2>2, <2>3 DEF PoolInvariant
  <1>7. PoolsOutliveHandlers'
    BY <1>1 DEF PoolsOutliveHandlers
  <1> QED BY <1>5, <1>6, <1>7 DEF ClientInvariant

LEMMA UpstreamKeeps ==
  ASSUME ClientInvariant, NEW a \in Attempt, Upstream(a)
  PROVE  ClientInvariant'
  <1>1. TypeOK
    BY DEF ClientInvariant
  <1>2. ASSUME NEW s \in {"connecting", "status", "header", "body", "abandoned"}
        PROVE  [stage EXCEPT ![a] = s] \in [Attempt -> Stages]
    BY <1>1 DEF TypeOK, Stages
  <1>3. CASE CreateRequest(a)
    <2>1. TypeOK'
      BY <1>1, <1>2, <1>3 DEF CreateRequest, Goto, TypeOK, Stages
    <2> QED BY <1>3, <2>1, UpstreamMoves DEF CreateRequest, Goto, Holding, Active
  <1>4. CASE CreateRequestFails(a)
    <2>1. TypeOK'
      BY <1>1, <1>2, <1>4 DEF CreateRequestFails, Goto, TypeOK, Stages
    <2> QED BY <1>4, <2>1, UpstreamMoves DEF CreateRequestFails, Goto, Holding, Active
  <1>5. CASE StatusLineAgain(a)
    <2>1. line' \in [Attempt -> {"start", "digits", "code"}]
      BY <1>1, <1>5 DEF StatusLineAgain, TypeOK
    <2>2. stage' = [stage EXCEPT ![a] = "status"] /\ stage[a] = "status"
      BY <1>1, <1>5 DEF StatusLineAgain, TypeOK
    <2>3. TypeOK'
      BY <1>1, <1>5, <2>1 DEF StatusLineAgain, TypeOK
    <2> QED BY <1>5, <2>2, <2>3, UpstreamMoves DEF StatusLineAgain, Holding, Active
  <1>6. CASE StatusLineDone(a)
    <2>1. code' \in [Attempt -> Status \union {NoCode}]
      BY <1>1, <1>6 DEF StatusLineDone, TypeOK
    <2>2. TypeOK'
      BY <1>1, <1>2, <1>6, <2>1 DEF StatusLineDone, Goto, TypeOK, Stages
    <2> QED BY <1>6, <2>2, UpstreamMoves DEF StatusLineDone, Goto, Holding, Active
  <1>7. CASE StatusLineError(a)
    <2>1. TypeOK'
      BY <1>1, <1>2, <1>7 DEF StatusLineError, Goto, TypeOK, Stages
    <2> QED BY <1>7, <2>1, UpstreamMoves DEF StatusLineError, Goto, Holding, Active
  <1>8. CASE ngx_esp_upstream_process_header(a)
    <2>1. TypeOK'
      BY <1>1, <1>2, <1>8 DEF ngx_esp_upstream_process_header, Goto, TypeOK, Stages
    <2> QED BY <1>8, <2>1, UpstreamMoves
            DEF ngx_esp_upstream_process_header, Goto, Holding, Active
  <1>9. CASE ngx_esp_upstream_pipe_input_filter(a)
    <2>1. body' \in [Attempt -> 0..MaxBody]
      BY <1>1, <1>9, ClientAssumption DEF ngx_esp_upstream_pipe_input_filter, TypeOK
    <2>2. stage' = [stage EXCEPT ![a] = "body"] /\ stage[a] = "body"
      BY <1>1, <1>9 DEF ngx_esp_upstream_pipe_input_filter, TypeOK
    <2>3. TypeOK'
      BY <1>1, <1>9, <2>1 DEF ngx_esp_upstream_pipe_input_filter, TypeOK
    <2> QED BY <1>9, <2>2, <2>3, UpstreamMoves
            DEF ngx_esp_upstream_pipe_input_filter, Holding, Active
  <1> QED BY <1>3, <1>4, <1>5, <1>6, <1>7, <1>8, <1>9 DEF Upstream

-----------------------------------------------------------------------------
(* ngx_esp_send_http_request and a retry create an attempt or fail.          *)
LEMMA SendOutcome ==
  ASSUME TypeOK, NEW n \in Attempt, NEW requests, NEW stages,
         SendRequest(n, requests, stages)
  PROVE  /\ created' \in [Attempt -> SUBSET Pool]
         /\ \/ /\ esp_request' = [requests EXCEPT ![n] = TRUE]
               /\ stage' = [stages EXCEPT ![n] = "connecting"]
               /\ UNCHANGED <<answers, refused, destroyed>>
            \/ /\ esp_request' = requests /\ stage' = stages
               /\ answers' = Append(answers, NGX_ERROR) /\ refused' = TRUE
               /\ \E d \in [Pool -> 0..1] : destroyed' = [destroyed EXCEPT ![n] = d]
  <1>1. PICK new \in ngx_esp_create_http_request :
          /\ created' = [created EXCEPT ![n] = new.pools]
          /\ IF new.ok
             THEN /\ esp_request' = [requests EXCEPT ![n] = TRUE]
                  /\ stage' = [stages EXCEPT ![n] = "connecting"]
                  /\ UNCHANGED <<answers, refused, destroyed>>
             ELSE /\ answers' = Append(answers, NGX_ERROR)
                  /\ refused' = TRUE
                  /\ destroyed' = [destroyed EXCEPT ![n] =
                                     [p \in Pool |-> IF p \in new.pools THEN 1 ELSE 0]]
                  /\ esp_request' = requests
                  /\ stage' = stages
    BY DEF SendRequest
  <1>2. new.pools \in SUBSET Pool
    BY DEF ngx_esp_create_http_request, allocate_pools, Pool
  <1>3. created' \in [Attempt -> SUBSET Pool]
    BY <1>1, <1>2 DEF TypeOK
  <1>4. [p \in Pool |-> IF p \in new.pools THEN 1 ELSE 0] \in [Pool -> 0..1]
    OBVIOUS
  <1> QED BY <1>1, <1>3, <1>4

(* Nobody holds the request, and attempt n and those after it are untouched: *)
(* attempt n is made.                                                        *)
LEMMA NewAttempt ==
  ASSUME TypeOK, PoolsOutliveHandlers, NEW n \in Attempt,
         NEW requests \in [Attempt -> BOOLEAN], NEW stages \in [Attempt -> Stages],
         SendRequest(n, requests, stages),
         \A b \in Attempt : ~requests[b],
         \A b \in Attempt : stages[b] \in {"none", "finalized", "gone"},
         \A b \in Attempt : b >= n => stages[b] = "none" /\ destroyed[b] = Zero,
         answers = <<>>, sent' = TRUE,
         max_retries' \in 0..MaxRetries, n + max_retries' <= MaxRetries + 1,
         frames' \in Seq(Attempt),
         \A i \in 1..Len(frames') :
           stages[frames'[i]] = "finalized" /\ destroyed[frames'[i]] = Zero,
         \A b \in posted : stages[b] = "finalized" /\ destroyed[b]["esp"] = 0,
         UNCHANGED <<url_ok, line, server, code, body, posted>>
  PROVE  ClientInvariant'
  <1> DEFINE Made == /\ esp_request' = [requests EXCEPT ![n] = TRUE]
                     /\ stage' = [stages EXCEPT ![n] = "connecting"]
                     /\ UNCHANGED <<answers, refused, destroyed>>
             Failed == /\ esp_request' = requests /\ stage' = stages
                       /\ answers' = Append(answers, NGX_ERROR) /\ refused' = TRUE
                       /\ \E d \in [Pool -> 0..1] : destroyed' = [destroyed EXCEPT ![n] = d]
  <1>1. created' \in [Attempt -> SUBSET Pool] /\ (Made \/ Failed)
    BY SendOutcome
  <1>2. stage' \in [Attempt -> Stages] /\ esp_request' \in [Attempt -> BOOLEAN]
        /\ refused' \in BOOLEAN
    <2>1. CASE Made
      <3>1. stage' \in [Attempt -> Stages]
        BY <2>1 DEF Stages
      <3>2. esp_request' \in [Attempt -> BOOLEAN]
        BY <2>1
      <3> QED BY <2>1, <3>1, <3>2 DEF TypeOK
    <2>2. CASE Failed
      BY <2>2
    <2> QED BY <1>1, <2>1, <2>2
  <1>3. /\ destroyed' \in [Attempt -> [Pool -> Nat]]
        /\ \A b \in Attempt : b # n => destroyed'[b] = destroyed[b]
        /\ \A p \in Pool : destroyed'[n][p] \in 0..1
    <2>1. CASE Made
      <3>1. n >= n
        OBVIOUS
      <3>2. destroyed'[n] = Zero
        BY <2>1, <3>1
      <3> QED BY <2>1, <3>2, ZeroTyped DEF TypeOK
    <2>2. CASE Failed
      <3>1. PICK d \in [Pool -> 0..1] : destroyed' = [destroyed EXCEPT ![n] = d]
        BY <2>2
      <3>2. d \in [Pool -> Nat]
        OBVIOUS
      <3> QED BY <3>1, <3>2 DEF TypeOK
    <2> QED BY <1>1, <2>1, <2>2
  <1>4. answers' \in Seq(Codes)
    <2>1. NGX_ERROR \in Codes /\ answers \in Seq(Codes)
      BY DEF Codes, TypeOK
    <2>2. Append(answers, NGX_ERROR) \in Seq(Codes)
      BY <2>1, AppendProperties
    <2> QED BY <1>1, <2>1, <2>2
  <1>5. TypeOK'
    <2>1. /\ url_ok' \in BOOLEAN /\ sent' \in BOOLEAN /\ server' \in Status
          /\ line' \in [Attempt -> {"start", "digits", "code"}]
          /\ code' \in [Attempt -> Status \union {NoCode}]
          /\ body' \in [Attempt -> 0..MaxBody] /\ posted' \subseteq Attempt
      BY DEF TypeOK
    <2> HIDE DEF Made, Failed
    <2> QED BY <1>1, <1>2, <1>3, <1>4, <2>1 DEF TypeOK, Stages, Codes
  <1>6. \A b \in Attempt : b # n =>
          ~esp_request'[b] /\ stage'[b] = stages[b] /\ destroyed'[b] = destroyed[b]
    BY <1>1, <1>3
  <1>7. \A b \in Attempt : b > n => Untouched(b)'
    BY <1>6 DEF Untouched, Zero, Attempt
  <1>8. \A b \in Attempt : Holding(b)' => b = n /\ Made
    BY <1>1, <1>6 DEF Holding, Active
  <1>9. RequestInvariant'
    <2>1. CASE Made
      <3>1. /\ esp_request'[n] /\ stage'[n] = "connecting" /\ answers' = <<>>
            /\ destroyed'[n] = Zero
        BY <2>1 DEF Attempt
      <3>2. Holding(n)'
        BY <3>1 DEF Holding, Active
      <3> HIDE DEF Made
      <3> QED BY <1>6, <1>7, <1>8, <3>1, <3>2 DEF RequestInvariant, Zero
    <2>2. CASE Failed
      <3>1. \A b \in Attempt : ~esp_request'[b]
        BY <2>2
      <3>2. \A b \in Attempt : ~Holding(b)'
        BY <2>2 DEF Holding, Active
      <3> HIDE DEF Failed
      <3> QED BY <3>1, <3>2 DEF RequestInvariant
    <2> QED BY <1>1, <2>1, <2>2
  <1>10. \A b \in Attempt : stages[b] = "finalized" =>
           stage'[b] = "finalized" /\ destroyed'[b] = destroyed[b]
    <2>1. stages[n] = "none"
      BY DEF Attempt
    <2> QED BY <1>6, <2>1
  <1>11. \A i \in 1..Len(frames') : frames'[i] \in Attempt
    BY ElementOfSeq
  <1>12. PoolInvariant'
    <2>1. posted \subseteq Attempt
      BY DEF TypeOK
    <2> QED BY <1>10, <1>11, <2>1 DEF PoolInvariant
  <1>13. PoolsOutliveHandlers'
    <2>1. ASSUME NEW b \in Attempt, NEW p \in Pool PROVE destroyed'[b][p] <= 1
      <3>1. CASE b = n
        BY <1>3, <3>1
      <3>2. CASE b # n
        BY <1>3, <3>2 DEF PoolsOutliveHandlers
      <3> QED BY <3>1, <3>2
    <2> QED BY <1>10, <1>11, <2>1 DEF PoolsOutliveHandlers, Zero
  <1> QED BY <1>5, <1>9, <1>12, <1>13 DEF ClientInvariant

LEMMA SendKeeps ==
  ASSUME ClientInvariant, ngx_esp_send_http_request
  PROVE  ClientInvariant'
  <1>1. TypeOK /\ RequestInvariant /\ PoolInvariant /\ PoolsOutliveHandlers
    BY DEF ClientInvariant
  <1>2. /\ ~sent /\ sent' = TRUE /\ SendRequest(1, esp_request, stage)
        /\ UNCHANGED <<max_retries, url_ok, line, server, code, body, frames, posted>>
    BY DEF ngx_esp_send_http_request
  <1>3. answers = <<>> /\ \A b \in Attempt : Untouched(b)
    BY <1>1, <1>2 DEF RequestInvariant
  <1>4. /\ esp_request \in [Attempt -> BOOLEAN] /\ stage \in [Attempt -> Stages]
        /\ frames \in Seq(Attempt) /\ posted \subseteq Attempt
        /\ max_retries \in 0..MaxRetries
    BY <1>1 DEF TypeOK, Stages
  <1>5. 1 \in Attempt /\ 1 + max_retries' <= MaxRetries + 1
    BY <1>2, <1>4, ClientAssumption DEF Attempt
  <1>6. \A b \in Attempt : ~esp_request[b] /\ stage[b] = "none" /\ destroyed[b] = Zero
    BY <1>3 DEF Untouched, Zero
  <1>7. \A i \in 1..Len(frames') :
          stage[frames'[i]] = "finalized" /\ destroyed[frames'[i]] = Zero
    BY <1>1, <1>2 DEF PoolInvariant, PoolsOutliveHandlers, Zero
  <1>8. \A b \in posted : stage[b] = "finalized" /\ destroyed[b]["esp"] = 0
    BY <1>1 DEF PoolInvariant
  <1> QED BY <1>1, <1>2, <1>3, <1>4, <1>5, <1>6, <1>7, <1>8, NewAttempt

-----------------------------------------------------------------------------
(* ngx_esp_upstream_finalize_request enters its handler.                     *)
LEMMA EnterFrames ==
  ASSUME frames \in Seq(Attempt), NEW a \in Attempt, Enter(a)
  PROVE  /\ frames' \in Seq(Attempt)
         /\ \A i \in 1..Len(frames') :
              frames'[i] = a \/ \E j \in 1..Len(frames) : frames'[i] = frames[j]
  <1>1. <<a>> \in Seq(Attempt) /\ Len(<<a>>) = 1 /\ <<a>>[1] = a
    OBVIOUS
  <1>2. /\ frames' = <<a>> \o frames /\ frames' \in Seq(Attempt)
        /\ Len(frames') = 1 + Len(frames) /\ Len(frames) \in Nat
        /\ \A i \in 1..Len(frames') :
             frames'[i] = IF i <= 1 THEN <<a>>[i] ELSE frames[i - 1]
    BY <1>1, ConcatProperties, LenProperties DEF Enter
  <1>3. ASSUME NEW i \in 1..Len(frames')
        PROVE  frames'[i] = a \/ \E j \in 1..Len(frames) : frames'[i] = frames[j]
    <2>1. CASE i = 1
      BY <1>1, <1>2, <2>1
    <2>2. CASE i # 1
      <3>1. i - 1 \in 1..Len(frames) /\ frames'[i] = frames[i - 1]
        BY <1>2, <2>2
      <3> QED BY <3>1
    <2> QED BY <2>1, <2>2
  <1> QED BY <1>2, <1>3

LEMMA FinalizeKeeps ==
  ASSUME ClientInvariant, NEW a \in Attempt, NEW ok \in BOOLEAN,
         ngx_esp_upstream_finalize_request(a, ok)
  PROVE  ClientInvariant'
  <1>1. TypeOK /\ RequestInvariant /\ PoolInvariant /\ PoolsOutliveHandlers
    BY DEF ClientInvariant
  <1>2. Enter(a) /\ UNCHANGED <<url_ok, sent, line, server, code, body, posted>>
    BY DEF ngx_esp_upstream_finalize_request
  <1>3. /\ frames \in Seq(Attempt) /\ frames' \in Seq(Attempt) /\ posted \subseteq Attempt
        /\ \A i \in 1..Len(frames') :
             frames'[i] = a \/ \E j \in 1..Len(frames) : frames'[i] = frames[j]
        /\ \A i \in 1..Len(frames) :
             /\ frames[i] \in Attempt
             /\ stage[frames[i]] = "finalized" /\ destroyed[frames[i]] = Zero
    <2>1. frames \in Seq(Attempt) /\ posted \subseteq Attempt
      BY <1>1 DEF TypeOK
    <2>2. \A i \in 1..Len(frames) : frames[i] \in Attempt
      BY <2>1, ElementOfSeq
    <2> QED BY <1>1, <1>2, <2>1, <2>2, EnterFrames
            DEF PoolInvariant, PoolsOutliveHandlers, Zero
  <1>4. CASE ~esp_request[a]
    <2>1. UNCHANGED <<max_retries, answers, esp_request, stage, refused, created, destroyed>>
      BY <1>4 DEF ngx_esp_upstream_finalize_request
    <2>2. stage[a] = "finalized" /\ destroyed[a] = Zero
      <3>1. ~Active(a)
        BY <1>1, <1>4 DEF RequestInvariant, Holding
      <3>2. a \in posted /\ destroyed[a] = Zero
        BY <3>1 DEF ngx_esp_upstream_finalize_request, EndsWith, Zero
      <3> QED BY <1>1, <3>2 DEF PoolInvariant
    <2>3. TypeOK'
      BY <1>1, <1>2, <1>3, <2>1 DEF TypeOK
    <2>4. RequestInvariant'
      BY <1>1, <1>2, <2>1 DEF RequestInvariant, Untouched, Holding, Active
    <2>5. PoolInvariant'
      BY <1>1, <1>2, <1>3, <2>1, <2>2 DEF PoolInvariant
    <2>6. PoolsOutliveHandlers'
      BY <1>1, <1>3, <2>1, <2>2 DEF PoolsOutliveHandlers, Zero
    <2> QED BY <2>3, <2>4, <2>5, <2>6 DEF ClientInvariant
  <1>5. CASE esp_request[a]
    <2>1. /\ sent /\ answers = <<>> /\ Holding(a) /\ a + max_retries <= MaxRetries + 1
          /\ destroyed[a] = Zero
          /\ \A b \in Attempt : b > a => Untouched(b)
      BY <1>1, <1>5 DEF RequestInvariant, Zero
    <2>2. \A b \in Attempt : b # a => ~esp_request[b]
      <3>1. ASSUME NEW b \in Attempt, b # a, esp_request[b] PROVE FALSE
        <4>1. CASE b > a
          BY <2>1, <3>1, <4>1 DEF Untouched
        <4>2. CASE a > b
          BY <1>1, <1>5, <3>1, <4>2 DEF RequestInvariant, Untouched
        <4> QED BY <3>1, <4>1, <4>2 DEF Attempt
      <3> QED BY <3>1
    <2>3. /\ Swapped(a) \in [Attempt -> BOOLEAN] /\ Finalized(a) \in [Attempt -> Stages]
          /\ \A b \in Attempt : ~Swapped(a)[b]
          /\ \A b \in Attempt : Finalized(a)[b] = IF b = a THEN "finalized" ELSE stage[b]
      BY <1>1, <2>2 DEF Swapped, Finalized, TypeOK, Stages
    <2>4. \A b \in Attempt : Finalized(a)[b] \in {"none", "finalized", "gone"}
      <3>1. \A b \in Attempt : b # a => ~Holding(b)
        BY <1>1, <2>2 DEF RequestInvariant
      <3> QED BY <1>1, <2>3, <3>1 DEF Holding, Active, TypeOK
    <2>5. \A i \in 1..Len(frames') :
            Finalized(a)[frames'[i]] = "finalized" /\ destroyed[frames'[i]] = Zero
      <3> SUFFICES ASSUME NEW i \in 1..Len(frames')
                   PROVE  Finalized(a)[frames'[i]] = "finalized"
                          /\ destroyed[frames'[i]] = Zero
        OBVIOUS
      <3>1. CASE frames'[i] = a
        BY <2>1, <2>3, <3>1
      <3>2. CASE \E j \in 1..Len(frames) : frames'[i] = frames[j]
        BY <1>3, <2>3, <3>2
      <3> QED BY <1>3, <3>1, <3>2
    <2>6. \A b \in posted : Finalized(a)[b] = "finalized" /\ destroyed[b]["esp"] = 0
      BY <1>1, <1>3, <2>3 DEF PoolInvariant
    <2>7. CASE RetryBudget(Result(a, ok))
      <3>1. /\ max_retries' = max_retries - 1 /\ max_retries > 0
            /\ SendRequest(a + 1, Swapped(a), Finalized(a))
        BY <1>5, <2>7 DEF ngx_esp_upstream_finalize_request, Retry, RetryBudget
      <3>2. /\ max_retries' \in 0..MaxRetries /\ a + 1 \in Attempt
            /\ (a + 1) + max_retries' <= MaxRetries + 1
        BY <1>1, <2>1, <3>1, ClientAssumption DEF TypeOK, Attempt
      <3>3. \A b \in Attempt :
              b >= a + 1 => Finalized(a)[b] = "none" /\ destroyed[b] = Zero
        BY <2>1, <2>3 DEF Untouched, Zero, Attempt
      <3>4. sent' = TRUE
        BY <1>1, <1>2, <2>1 DEF TypeOK
      <3>5. PICK n \in Attempt, requests \in [Attempt -> BOOLEAN],
                 stages \in [Attempt -> Stages] :
              n = a + 1 /\ requests = Swapped(a) /\ stages = Finalized(a)
        BY <2>3, <3>2
      <3>6. TypeOK /\ PoolsOutliveHandlers
        BY <1>1
      <3>7. SendRequest(n, requests, stages)
        BY <3>1, <3>5
      <3>8. /\ \A b \in Attempt : ~requests[b]
            /\ \A b \in Attempt : stages[b] \in {"none", "finalized", "gone"}
            /\ \A b \in Attempt : b >= n => stages[b] = "none" /\ destroyed[b] = Zero
        BY <2>3, <2>4, <3>3, <3>5
      <3>9. /\ answers = <<>> /\ max_retries' \in 0..MaxRetries
            /\ n + max_retries' <= MaxRetries + 1
        BY <2>1, <3>2, <3>5
      <3>10. /\ frames' \in Seq(Attempt)
             /\ \A i \in 1..Len(frames') :
                  stages[frames'[i]] = "finalized" /\ destroyed[frames'[i]] = Zero
             /\ \A b \in posted : stages[b] = "finalized" /\ destroyed[b]["esp"] = 0
        BY <1>3, <2>5, <2>6, <3>5
      <3>11. UNCHANGED <<url_ok, line, server, code, body, posted>>
        BY <1>2
      <3> QED BY <3>4, <3>6, <3>7, <3>8, <3>9, <3>10, <3>11, NewAttempt
    <2>8. CASE ~RetryBudget(Result(a, ok))
      <3>1. OnComplete(a, Result(a, ok), Swapped(a))
        BY <1>5, <2>8 DEF ngx_esp_upstream_finalize_request
      <3>2. /\ answers' = Append(answers, Result(a, ok))
            /\ esp_request' = Swapped(a) /\ stage' = Finalized(a)
            /\ UNCHANGED <<max_retries, refused, created, destroyed>>
        BY <3>1 DEF OnComplete
      <3>3. answers' \in Seq(Codes)
        <4>1. Result(a, ok) \in Codes
          BY <1>1 DEF Result, Codes, TypeOK
        <4>2. answers \in Seq(Codes)
          BY <1>1 DEF TypeOK, Codes
        <4> QED BY <3>2, <4>1, <4>2, AppendProperties
      <3>4. TypeOK'
        BY <1>1, <1>2, <1>3, <2>3, <3>2, <3>3 DEF TypeOK, Stages, Codes
      <3>5. RequestInvariant'
        <4>1. \A b \in Attempt : ~Holding(b)'
          BY <2>4, <3>2 DEF Holding, Active
        <4> QED BY <1>2, <2>1, <2>3, <3>2, <4>1 DEF RequestInvariant
      <3>6. PoolInvariant'
        BY <1>2, <2>5, <2>6, <3>2 DEF PoolInvariant
      <3>7. PoolsOutliveHandlers'
        BY <1>1, <2>5, <3>2 DEF PoolsOutliveHandlers, Zero
      <3> QED BY <3>4, <3>5, <3>6, <3>7 DEF ClientInvariant
    <2> QED BY <2>7, <2>8
  <1> QED BY <1>4, <1>5

-----------------------------------------------------------------------------
(* The end of a handler and the posted event.                                *)
LEMMA PostWakeupKeeps ==
  ASSUME ClientInvariant, PostWakeup
  PROVE  ClientInvariant'
  <1>1. TypeOK /\ RequestInvariant /\ PoolInvariant /\ PoolsOutliveHandlers
    BY DEF ClientInvariant
  <1>2. /\ frames # <<>> /\ posted' = posted \union {Head(frames)}
        /\ UNCHANGED <<max_retries, sent, answers, frames, destroyed, refused, url_ok,
                       esp_request, stage, line, server, code, body, created>>
    BY DEF PostWakeup, Idle, attempts
  <1>3. /\ Head(frames) \in Attempt /\ Head(frames) = frames[1] /\ 1 \in 1..Len(frames)
    BY <1>1, <1>2 DEF TypeOK
  <1>4. stage[Head(frames)] = "finalized" /\ destroyed[Head(frames)] = Zero
    BY <1>1, <1>3 DEF PoolInvariant, PoolsOutliveHandlers, Zero
  <1>5. TypeOK'
    BY <1>1, <1>2, <1>3 DEF TypeOK
  <1>6. RequestInvariant'
    BY <1>1, <1>2 DEF RequestInvariant, Untouched, Holding, Active
  <1>7. PoolInvariant'
    BY <1>1, <1>2, <1>4, ZeroTyped DEF PoolInvariant
  <1>8. PoolsOutliveHandlers'
    BY <1>1, <1>2 DEF PoolsOutliveHandlers
  <1> QED BY <1>5, <1>6, <1>7, <1>8 DEF ClientInvariant

LEMMA TailFrames ==
  ASSUME frames \in Seq(Attempt), frames # <<>>
  PROVE  /\ Tail(frames) \in Seq(Attempt) /\ Head(frames) \in Attempt
         /\ Head(frames) = frames[1] /\ 1 \in 1..Len(frames)
         /\ \A i \in 1..Len(Tail(frames)) :
              /\ Tail(frames)[i] \in Attempt
              /\ \E j \in 1..Len(frames) : Tail(frames)[i] = frames[j]
  <1>1. /\ Tail(frames) \in Seq(Attempt) /\ Head(frames) \in Attempt
        /\ Len(Tail(frames)) = Len(frames) - 1 /\ Len(frames) \in Nat
        /\ \A i \in 1..Len(Tail(frames)) : Tail(frames)[i] = frames[i + 1]
        /\ Head(frames) = frames[1] /\ Len(frames) # 0
    BY HeadTailProperties, LenProperties, EmptySeq
  <1>2. ASSUME NEW i \in 1..Len(Tail(frames))
        PROVE  /\ Tail(frames)[i] \in Attempt
               /\ \E j \in 1..Len(frames) : Tail(frames)[i] = frames[j]
    <2>1. i + 1 \in 1..Len(frames) /\ Tail(frames)[i] = frames[i + 1]
      BY <1>1
    <2>2. Tail(frames)[i] \in Attempt
      BY <1>1, ElementOfSeq
    <2> QED BY <2>1, <2>2
  <1> QED BY <1>1, <1>2

LEMMA ReturnKeeps ==
  ASSUME ClientInvariant, Return
  PROVE  ClientInvariant'
  <1>1. TypeOK /\ RequestInvariant /\ PoolInvariant /\ PoolsOutliveHandlers
    BY DEF ClientInvariant
  <1> DEFINE h == Head(frames)
  <1>2. PICK freed \in SUBSET {"connection", "request"} :
          /\ h \notin {Tail(frames)[i] : i \in 1..Len(Tail(frames))}
          /\ destroyed' = [destroyed EXCEPT ![h] =
                             [p \in Pool |-> IF p \in freed THEN 1 ELSE @[p]]]
    BY DEF Return
  <1>3. /\ frames # <<>> /\ frames' = Tail(frames)
        /\ UNCHANGED <<max_retries, sent, answers, posted, refused, url_ok,
                       esp_request, stage, line, server, code, body, created>>
    BY DEF Return, Idle, attempts
  <1>4. /\ frames' \in Seq(Attempt) /\ h \in Attempt /\ h = frames[1] /\ 1 \in 1..Len(frames)
        /\ \A i \in 1..Len(frames') :
             /\ frames'[i] \in Attempt /\ frames'[i] # h
             /\ \E j \in 1..Len(frames) : frames'[i] = frames[j]
    BY <1>1, <1>2, <1>3, TailFrames DEF TypeOK
  <1>5. stage[h] = "finalized" /\ destroyed[h] = Zero
    BY <1>1, <1>4 DEF PoolInvariant, PoolsOutliveHandlers, Zero
  <1> HIDE DEF h
  <1> DEFINE d == [p \in Pool |-> IF p \in freed THEN 1 ELSE 0]
  <1>6. /\ destroyed' = [destroyed EXCEPT ![h] = d]
        /\ d \in [Pool -> Nat] /\ d["esp"] = 0 /\ \A p \in Pool : d[p] <= 1
    <2>1. [p \in Pool |-> IF p \in freed THEN 1 ELSE destroyed[h][p]] = d
      BY <1>5, ZeroTyped
    <2>2. "esp" \notin freed /\ "esp" \in Pool
      BY DEF Pool
    <2>3. d \in [Pool -> Nat] /\ \A p \in Pool : d[p] <= 1
      OBVIOUS
    <2>4. d["esp"] = 0
      BY <2>2
    <2>5. destroyed' = [destroyed EXCEPT ![h] = d]
      BY <1>2, <2>1
    <2> QED BY <2>3, <2>4, <2>5
  <1> HIDE DEF d
  <1>7. \A b \in Attempt : destroyed'[b] = IF b = h THEN d ELSE destroyed[b]
    BY <1>1, <1>4, <1>6 DEF TypeOK
  <1>8. TypeOK'
    <2>1. destroyed' \in [Attempt -> [Pool -> Nat]]
      BY <1>1, <1>6 DEF TypeOK
    <2> QED BY <1>1, <1>3, <1>4, <2>1 DEF TypeOK
  <1>9. RequestInvariant'
    <2>1. \A b \in Attempt : Holding(b)' => Holding(b) /\ b # h
      BY <1>3, <1>5 DEF Holding, Active
    <2>2. \A b \in Attempt : Holding(b) => Holding(b)'
      BY <1>3 DEF Holding, Active
    <2>3. \A b \in Attempt : Untouched(b) => Untouched(b)'
      BY <1>3, <1>5, <1>7 DEF Untouched
    <2> QED BY <1>1, <1>3, <1>7, <2>1, <2>2, <2>3 DEF RequestInvariant
  <1>10. PoolInvariant'
    <2>1. \A i \in 1..Len(frames') : stage'[frames'[i]] = "finalized"
      BY <1>1, <1>3, <1>4 DEF PoolInvariant
    <2>2. \A b \in posted' : stage'[b] = "finalized" /\ destroyed'[b]["esp"] = 0
      BY <1>1, <1>3, <1>6, <1>7 DEF PoolInvariant, TypeOK
    <2> QED BY <2>1, <2>2 DEF PoolInvariant
  <1>11. PoolsOutliveHandlers'
    <2>1. \A i \in 1..Len(frames') : destroyed'[frames'[i]] = Zero
      BY <1>1, <1>4, <1>7 DEF PoolsOutliveHandlers, Zero
    <2>2. \A b \in Attempt, p \in Pool : destroyed'[b][p] <= 1
      BY <1>1, <1>6, <1>7 DEF PoolsOutliveHandlers
    <2> QED BY <2>1, <2>2 DEF PoolsOutliveHandlers, Zero
  <1> QED BY <1>8, <1>9, <1>10, <1>11 DEF ClientInvariant

LEMMA WakeupKeeps ==
  ASSUME ClientInvariant, NEW a \in Attempt, wakeup_event_handler(a)
  PROVE  ClientInvariant'
  <1>1. TypeOK /\ RequestInvariant /\ PoolInvariant /\ PoolsOutliveHandlers
    BY DEF ClientInvariant
  <1> DEFINE d == DestroyRest(a)
  <1>2. /\ frames = <<>> /\ frames' = <<>> /\ a \in posted /\ posted' = posted \ {a}
        /\ destroyed' = [destroyed EXCEPT ![a] = d]
        /\ stage' = [stage EXCEPT ![a] = "gone"]
        /\ UNCHANGED <<max_retries, url_ok, sent, answers, esp_request, server, created,
                       refused>>
    BY DEF wakeup_event_handler, Idle
  <1>3. stage[a] = "finalized" /\ destroyed[a]["esp"] = 0
    BY <1>1, <1>2 DEF PoolInvariant
  <1>4. d \in [Pool -> Nat] /\ \A p \in Pool : d[p] <= 1
    BY <1>1, <1>3 DEF DestroyRest, TypeOK, PoolsOutliveHandlers
  <1> HIDE DEF d
  <1>5. \A b \in Attempt : /\ destroyed'[b] = IF b = a THEN d ELSE destroyed[b]
                           /\ stage'[b] = IF b = a THEN "gone" ELSE stage[b]
    BY <1>1, <1>2 DEF TypeOK
  <1>6. TypeOK'
    <2>1. destroyed' \in [Attempt -> [Pool -> Nat]] /\ stage' \in [Attempt -> Stages]
      BY <1>1, <1>2, <1>4 DEF TypeOK, Stages
    <2>2. /\ line' \in [Attempt -> {"start", "digits", "code"}]
          /\ code' \in [Attempt -> Status \union {NoCode}]
      BY <1>1 DEF wakeup_event_handler, TypeOK
    <2>3. body' \in [Attempt -> 0..MaxBody]
      BY <1>1, ClientAssumption DEF wakeup_event_handler, TypeOK
    <2> QED BY <1>1, <1>2, <2>1, <2>2, <2>3 DEF TypeOK, Stages
  <1>7. RequestInvariant'
    <2>1. \A b \in Attempt : Holding(b)' <=> Holding(b)
      BY <1>3, <1>5 DEF Holding, Active
    <2>2. \A b \in Attempt : Holding(b) => b # a
      BY <1>3 DEF Holding, Active
    <2>3. \A b \in Attempt : Untouched(b) => Untouched(b)'
      BY <1>2, <1>3, <1>5 DEF Untouched
    <2> QED BY <1>1, <1>2, <1>5, <2>1, <2>2, <2>3 DEF RequestInvariant
  <1>8. PoolInvariant'
    BY <1>1, <1>2, <1>5 DEF PoolInvariant, TypeOK
  <1>9. PoolsOutliveHandlers'
    BY <1>1, <1>2, <1>4, <1>5 DEF PoolsOutliveHandlers
  <1> QED BY <1>6, <1>7, <1>8, <1>9 DEF ClientInvariant

LEMMA NextClient == ClientInvariant /\ [Next]_vars => ClientInvariant'
  <1> SUFFICES ASSUME ClientInvariant, [Next]_vars PROVE ClientInvariant'
    OBVIOUS
  <1>1. CASE UNCHANGED vars
    <2>1. TypeOK'
      BY <1>1 DEF vars, ClientInvariant, TypeOK
    <2>2. RequestInvariant' /\ PoolInvariant' /\ PoolsOutliveHandlers'
      BY <1>1 DEF vars, ClientInvariant, RequestInvariant, PoolInvariant,
                  PoolsOutliveHandlers, Untouched, Holding, Active
    <2> QED BY <2>1, <2>2 DEF ClientInvariant
  <1> QED BY <1>1, SendKeeps, UpstreamKeeps, FinalizeKeeps, WakeupKeeps, PostWakeupKeeps,
             ReturnKeeps DEF Next

-----------------------------------------------------------------------------
(* ClientInvariant is an invariant of the client, for any budget of retries. *)
THEOREM ClientInvariantHolds == Spec => []ClientInvariant
  BY InitClient, NextClient, PTL DEF Spec

(* ngx_esp_upstream_finalize_request never returns into a pool that is gone, *)
(* and no pool is destroyed twice, for any number of retries.                *)
THEOREM PoolsSafe == Spec => []PoolsOutliveHandlers
  <1>1. ClientInvariant => PoolsOutliveHandlers
    BY DEF ClientInvariant
  <1> QED BY <1>1, ClientInvariantHolds, PTL

(* A step of the client is a step of its interface, or leaves that alone.    *)
LEMMA StepImplements ==
  ASSUME ClientInvariant, [Next]_vars
  PROVE  [Exchange!Next]_(Exchange!vars)
  <1>1. TypeOK /\ RequestInvariant
    BY DEF ClientInvariant
  <1> USE DEF Exchange!Next, Exchange!vars, Exchange!Send, Exchange!FailToSend,
              Exchange!OnComplete
  <1>2. CASE ngx_esp_send_http_request
    <2>1. ~sent /\ sent' = TRUE /\ answers = <<>> /\ SendRequest(1, esp_request, stage)
      BY <1>1, <1>2 DEF ngx_esp_send_http_request, RequestInvariant
    <2>2. 1 \in Attempt
      BY ClientAssumption DEF Attempt
    <2>3. UNCHANGED answers \/ answers' = <<NGX_ERROR>>
      <3>1. UNCHANGED answers \/ answers' = Append(answers, NGX_ERROR)
        BY <1>1, <2>1, <2>2, SendOutcome, Zenon
      <3> QED BY <2>1, <3>1
    <2> QED BY <2>1, <2>3
  <1>3. ASSUME NEW a \in Attempt, NEW ok \in BOOLEAN,
               ngx_esp_upstream_finalize_request(a, ok)
        PROVE  [Exchange!Next]_(Exchange!vars)
    <2>1. UNCHANGED sent
      BY <1>3 DEF ngx_esp_upstream_finalize_request
    <2>2. CASE ~esp_request[a]
      BY <1>3, <2>1, <2>2 DEF ngx_esp_upstream_finalize_request
    <2>3. CASE esp_request[a]
      <3>1. sent /\ answers = <<>> /\ a + max_retries <= MaxRetries + 1
        BY <1>1, <2>3 DEF RequestInvariant
      <3>2. CASE RetryBudget(Result(a, ok))
        <4>1. max_retries > 0 /\ SendRequest(a + 1, Swapped(a), Finalized(a))
          BY <1>3, <2>3, <3>2 DEF ngx_esp_upstream_finalize_request, Retry, RetryBudget
        <4>2. a + 1 \in Attempt
          BY <1>1, <3>1, <4>1, ClientAssumption DEF TypeOK, Attempt
        <4>3. UNCHANGED answers \/ answers' = <<NGX_ERROR>>
          <5>1. UNCHANGED answers \/ answers' = Append(answers, NGX_ERROR)
            BY <1>1, <4>1, <4>2, SendOutcome, Zenon
          <5> QED BY <3>1, <5>1
        <4> QED BY <2>1, <3>1, <4>3
      <3>3. CASE ~RetryBudget(Result(a, ok))
        <4>1. answers' = <<Result(a, ok)>>
          BY <1>3, <2>3, <3>1, <3>3 DEF ngx_esp_upstream_finalize_request, OnComplete
        <4>2. Result(a, ok) \in Status \union {NoCode, NGX_ERROR}
          BY <1>1 DEF Result, TypeOK
        <4> QED BY <2>1, <3>1, <4>1, <4>2
      <3> QED BY <3>2, <3>3
    <2> QED BY <2>2, <2>3
  <1>4. ASSUME NEW a \in Attempt, Upstream(a) \/ wakeup_event_handler(a)
        PROVE  UNCHANGED <<sent, answers>>
    BY <1>4 DEF Upstream, CreateRequest, CreateRequestFails, StatusLineAgain, StatusLineDone,
                StatusLineError, ngx_esp_upstream_process_header,
                ngx_esp_upstream_pipe_input_filter, wakeup_event_handler
  <1>5. CASE PostWakeup \/ Return \/ UNCHANGED vars
    BY <1>5 DEF PostWakeup, Return, vars
  <1> QED BY <1>2, <1>3, <1>4, <1>5 DEF Next

(* The client implements its interface: over all attempts the continuation   *)
(* of HTTPRequest is called at most once, after the request was handed over, *)
(* with NGX_ERROR or a status code.                                          *)
THEOREM ImplementsExchange == Spec => OneAnswer
  <1>1. Init => Exchange!Init
    BY DEF Init, Exchange!Init
  <1>2. ClientInvariant /\ [Next]_vars => [Exchange!Next]_(Exchange!vars)
    BY StepImplements
  <1> QED BY <1>1, <1>2, ClientInvariantHolds, PTL DEF Spec, OneAnswer, Exchange!Spec
=============================================================================
