---------------------------- MODULE ConfigRollout ----------------------------
(* Managed rollouts of service configurations: ConfigManager                 *)
(* (src/api_manager/config_manager.cc) learns the newest rollout id from     *)
(* Check and Report responses, fetches the rollout and its configs from      *)
(* Service Management and has ApiManagerImpl deploy them.  Every callback is *)
(* one action of the single-threaded worker; a fetch is a chain of calls     *)
(* that may outlast the throttle window, so that fetches overlap.            *)
EXTENDS Naturals, Sequences, FiniteSets

CONSTANTS
  Config,      \* config ids
  MaxRollout,  \* bound: rollouts the server makes after the first
  ConfigsOf,   \* ConfigsOf[r]: configs with a traffic percentage in rollout r
  Invalid,     \* configs that AddConfig rejects
  Fetch        \* bound: fetches under way at the same time

Rollout == 0..MaxRollout

(* Rollouts are numbered in the order the server makes them.  The process    *)
(* has started, so the first one, which the server config names, is valid.   *)
ASSUME RolloutAssumption ==
  /\ IsFiniteSet(Config)
  /\ MaxRollout \in Nat
  /\ ConfigsOf \in [Rollout -> SUBSET Config]
  /\ ConfigsOf[0] # {} /\ ConfigsOf[0] \cap Invalid = {}

VARIABLES
  latest,               \* newest successful rollout of the server
  reported,             \* rollout ids in Check and Report responses on their way
  outage,               \* calls to other services may fail
  current_rollout_id,   \* current_rollout_id_
  timer,                \* fetch_timer_ is running
  throttled,            \* now < next_window_time_
  fetch,                \* the fetches: see IdleFetch
  service_context_map,  \* config ids of service_context_map_
  service_selector      \* config ids of service_selector_

vars == <<latest, reported, outage, current_rollout_id, timer, throttled, fetch,
          service_context_map, service_selector>>

(* A fetch waits for the token, for the rollouts (rollout: the newest when   *)
(* it asked) or for the configs in left (ConfigsFetchInfo).                  *)
IdleFetch == [at |-> "idle", rollout |-> 0, configs |-> <<>>, left |-> {}]

(* LoadServiceRollouts and Init succeeded: nginx does not start otherwise.   *)
Init ==
  /\ latest = 0 /\ reported = {} /\ outage = FALSE
  /\ current_rollout_id = 0
  /\ timer = FALSE /\ throttled = FALSE
  /\ fetch = [f \in Fetch |-> IdleFetch]
  /\ service_context_map = ConfigsOf[0]
  /\ service_selector = ConfigsOf[0]

-----------------------------------------------------------------------------
(* ApiManagerImpl.                                                           *)

(* Configs are added in the order they arrived up to the first that is       *)
(* rejected, which leaves the selector alone.                                *)
Accepted(configs) ==
  {configs[i] : i \in {j \in DOMAIN configs : \A k \in 1..j : configs[k] \notin Invalid}}
AllAccepted(configs) == \A i \in DOMAIN configs : configs[i] \notin Invalid

(* A faulty variant: a config that is already there counts as rejected.      *)
DeployOnlyNew(configs) ==
  /\ service_context_map' = service_context_map \cup Accepted(configs)
  /\ service_selector' =
       IF AllAccepted(configs) /\ \A i \in DOMAIN configs : configs[i] \notin service_context_map
       THEN {configs[i] : i \in DOMAIN configs} ELSE service_selector

AddAndDeployConfigs(configs) ==
  /\ service_context_map' = service_context_map \cup Accepted(configs)
  /\ service_selector' =
       IF AllAccepted(configs) THEN {configs[i] : i \in DOMAIN configs} ELSE service_selector

-----------------------------------------------------------------------------
(* ConfigManager.                                                            *)

(* The periodic report, or a Check or Report for a request, is answered with *)
(* the newest id.  Without a token, or without an answer, nothing happens.   *)
SendEmptyReport == reported' = reported \cup {latest}
OnDetectRolloutChangeTimer ==
  /\ SendEmptyReport
  /\ UNCHANGED <<latest, outage, current_rollout_id, timer, throttled, fetch,
                 service_context_map, service_selector>>

(* Aggregated::HandleResponse passes the id of a response on.                *)
HandleResponse(id) == id \in reported /\ reported' = reported \ {id}

(* A response arrives, perhaps late.  A new id starts the timer, unless it   *)
(* is running or the last fetch is too recent.                               *)
SetLatestRolloutId(id) ==
  /\ HandleResponse(id)
  /\ timer' = (timer \/ (id # current_rollout_id /\ ~throttled))
  /\ UNCHANGED <<latest, outage, current_rollout_id, throttled, fetch,
                 service_context_map, service_selector>>

(* The timer stops itself, opens a throttle window and asks for a token.     *)
OnRolloutsRefreshTimer(f) ==
  /\ timer /\ fetch[f] = IdleFetch
  /\ timer' = FALSE
  /\ throttled' = TRUE
  /\ fetch' = [fetch EXCEPT ![f].at = "token"]
  /\ UNCHANGED <<latest, reported, outage, current_rollout_id,
                 service_context_map, service_selector>>

WindowPasses ==
  /\ throttled
  /\ throttled' = FALSE
  /\ UNCHANGED <<latest, reported, outage, current_rollout_id, timer, fetch,
                 service_context_map, service_selector>>

(* The token is there: the rollouts are requested.                           *)
FetchRollouts(f) ==
  /\ fetch[f].at = "token"
  /\ fetch' = [fetch EXCEPT ![f].at = "rollouts", ![f].rollout = latest]
  /\ UNCHANGED <<latest, reported, outage, current_rollout_id, timer, throttled,
                 service_context_map, service_selector>>

(* No token, or no usable answer to the request for the rollouts.            *)
CallFails(f) ==
  /\ outage /\ fetch[f].at \in {"token", "rollouts"}
  /\ fetch' = [fetch EXCEPT ![f] = IdleFetch]
  /\ UNCHANGED <<latest, reported, outage, current_rollout_id, timer, throttled,
                 service_context_map, service_selector>>

(* The rollouts arrive; rollouts(0) is the newest when the server answered.  *)
OnRolloutResponse(f) ==
  /\ fetch[f].at = "rollouts"
  /\ \E r \in fetch[f].rollout..latest :
       fetch' = [fetch EXCEPT ![f] =
                   IF r = current_rollout_id \/ ConfigsOf[r] = {} THEN IdleFetch
                   ELSE [at |-> "configs", rollout |-> r,
                         configs |-> <<>>, left |-> ConfigsOf[r]]]
  /\ UNCHANGED <<latest, reported, outage, current_rollout_id, timer, throttled,
                 service_context_map, service_selector>>

(* Faulty variants: what did arrive is deployed; the end of the downloads is *)
(* not noticed.                                                              *)
OnConfigAnyNumber(f, c, ok) ==
  LET configs == IF ok THEN Append(fetch[f].configs, c) ELSE fetch[f].configs
      left == fetch[f].left \ {c} IN
  IF left # {}
  THEN /\ fetch' = [fetch EXCEPT ![f].configs = configs, ![f].left = left]
       /\ UNCHANGED <<current_rollout_id, service_context_map, service_selector>>
  ELSE /\ fetch' = [fetch EXCEPT ![f] = IdleFetch]
       /\ IF configs = <<>>
          THEN UNCHANGED <<current_rollout_id, service_context_map, service_selector>>
          ELSE /\ AddAndDeployConfigs(configs)
               /\ current_rollout_id' = fetch[f].rollout
OnConfigNotCounted(f, c, ok) ==
  LET configs == IF ok THEN Append(fetch[f].configs, c) ELSE fetch[f].configs IN
  /\ fetch' = [fetch EXCEPT ![f].configs = configs, ![f].left = @ \ {c}]
  /\ UNCHANGED <<current_rollout_id, service_context_map, service_selector>>

(* One download has ended.  After the last, the rollout is applied if none   *)
(* failed, and its id noted whatever AddAndDeployConfigs returned.           *)
OnConfig(f, c, ok) ==
  LET configs == IF ok THEN Append(fetch[f].configs, c) ELSE fetch[f].configs
      left == fetch[f].left \ {c} IN
  IF left # {}
  THEN /\ fetch' = [fetch EXCEPT ![f].configs = configs, ![f].left = left]
       /\ UNCHANGED <<current_rollout_id, service_context_map, service_selector>>
  ELSE /\ fetch' = [fetch EXCEPT ![f] = IdleFetch]
       /\ IF Len(configs) # Cardinality(ConfigsOf[fetch[f].rollout])
          THEN UNCHANGED <<current_rollout_id, service_context_map, service_selector>>
          ELSE /\ AddAndDeployConfigs(configs)
               /\ current_rollout_id' = fetch[f].rollout

FetchConfigs(f) ==
  /\ \E c \in fetch[f].left, ok \in BOOLEAN :
       (ok \/ outage) /\ OnConfig(f, c, ok)
  /\ UNCHANGED <<latest, reported, outage, timer, throttled>>

-----------------------------------------------------------------------------
(* The other services.                                                       *)

ServerRollout ==
  /\ latest + 1 \in Rollout
  /\ latest' = latest + 1
  /\ UNCHANGED <<reported, outage, current_rollout_id, timer, throttled, fetch,
                 service_context_map, service_selector>>

Outage ==
  /\ outage' = ~outage
  /\ UNCHANGED <<latest, reported, current_rollout_id, timer, throttled, fetch,
                 service_context_map, service_selector>>

-----------------------------------------------------------------------------
FetchStep(f) == FetchRollouts(f) \/ CallFails(f) \/ OnRolloutResponse(f) \/ FetchConfigs(f)

Next ==
  \/ OnDetectRolloutChangeTimer
  \/ \E id \in Rollout : SetLatestRolloutId(id)
  \/ \E f \in Fetch : OnRolloutsRefreshTimer(f) \/ FetchStep(f)
  \/ WindowPasses
  \/ ServerRollout \/ Outage

Spec == Init /\ [][Next]_vars

(* Timers fire and RunHTTPRequest calls back, if only with its timeout.  The *)
(* periodic report is answered while there is no outage.                     *)
Fairness ==
  /\ WF_vars(~outage /\ OnDetectRolloutChangeTimer)
  /\ \A id \in Rollout : WF_vars(SetLatestRolloutId(id))
  /\ WF_vars(\E f \in Fetch : OnRolloutsRefreshTimer(f))
  /\ \A f \in Fetch : WF_vars(FetchStep(f))
  /\ WF_vars(WindowPasses)
FairSpec == Spec /\ Fairness

-----------------------------------------------------------------------------
Valid(r) == ConfigsOf[r] \cap Invalid = {}

TypeOK ==
  /\ latest \in Rollout /\ reported \subseteq Rollout /\ outage \in BOOLEAN
  /\ current_rollout_id \in Rollout
  /\ timer \in BOOLEAN /\ throttled \in BOOLEAN
  /\ fetch \in [Fetch -> [at : {"idle", "token", "rollouts", "configs"},
                          rollout : Rollout, configs : Seq(Config), left : SUBSET Config]]
  /\ service_context_map \subseteq Config /\ service_selector \subseteq Config

(* The traffic is split over the configs of one rollout of the server, all   *)
(* of them, although downloads fail, configs are rejected after others were  *)
(* added, and two rollouts are fetched at the same time.                     *)
DeployedWhole == \E r \in 0..latest : Valid(r) /\ service_selector = ConfigsOf[r]

(* The id that SetLatestRolloutId compares with, and that /endpoints_status  *)
(* shows, is that of the deployed rollout unless that one was rejected.      *)
ValidIdIsDeployed ==
  Valid(current_rollout_id) => service_selector = ConfigsOf[current_rollout_id]

(* What a fetch knows, however long ago it asked: it is after a rollout the  *)
(* server has made, and holds configs of that rollout, each once, none of    *)
(* which it still waits for.  OnConfig compares only numbers of configs.     *)
Got(configs) == {configs[i] : i \in DOMAIN configs}
FetchSound(fe) ==
  /\ fe.rollout <= latest
  /\ fe.at # "configs" => fe.left = {} /\ fe.configs = <<>>
  /\ fe.left \subseteq ConfigsOf[fe.rollout]
  /\ Got(fe.configs) \subseteq ConfigsOf[fe.rollout] \ fe.left
  /\ Cardinality(Got(fe.configs)) = Len(fe.configs)

RolloutInvariant ==
  /\ TypeOK
  /\ \A f \in Fetch : FetchSound(fetch[f])
  /\ DeployedWhole /\ ValidIdIsDeployed

(* The newest rollout is deployed once calls stop failing, also if an older  *)
(* rollout, fetched by a slow chain of calls, was applied after a newer one. *)
ConvergesToLatest ==
  <>[]~outage =>
    <>[](ConfigsOf[latest] # {} =>
           /\ current_rollout_id = latest
           /\ Valid(latest) => service_selector = ConfigsOf[latest])

(* ServiceConfigRolloutsInfo (include/api_manager/api_manager.h): "Current   *)
(* rollout_id", beside the traffic percentages that are in force.            *)
StatusMatchesTraffic == service_selector = ConfigsOf[current_rollout_id]
=============================================================================
