-------------------------- MODULE MCServiceControl --------------------------
(* A service with the metrics that are counted over several reports, one     *)
(* metric it describes differently than ESP supports it, a log it does not   *)
(* describe and a destination with an unknown resource.                      *)
EXTENDS ServiceControl

Label(k) == [key |-> k, string |-> TRUE]
M(f, m) == [family |-> f, mark |-> m, delta |-> TRUE, labels |-> {Label("credential_id")}]
Names == {"request_count", "request_bytes", "response_bytes"}
MCService ==
  [resources |-> [api |-> {Label("location"), Label("protocol")}],
   logs |-> [endpoints_log |-> {Label("response_code")}],
   metrics |-> [c_count |-> M("request_count", "CONSUMER"),
                p_count |-> M("request_count", "PRODUCER"),
                b_count |-> M("request_count", "PRODUCER_BY_CONSUMER"),
                c_in |-> M("request_bytes", "CONSUMER"),
                p_in |-> M("request_bytes", "PRODUCER"),
                p_out |-> M("response_bytes", "PRODUCER"),
                p_errors |-> [M("error_count", "PRODUCER") EXCEPT !.delta = FALSE]],
   logging |-> << [resource |-> "api", items |-> <<"endpoints_log", "other_log">>] >>,
   producer_monitoring |->
     << [resource |-> "api", items |-> <<"p_count", "b_count", "p_in", "p_out", "p_errors">>],
        [resource |-> "gone", items |-> <<"p_in">>] >>,
   consumer_monitoring |-> << [resource |-> "api", items |-> <<"c_count", "c_in">>] >>]

MCHttpAnswer == {-1, 200, 204, 403, 503}
MCCheckAnswer == {NoErrors, <<"API_KEY_INVALID">>, <<"SERVICE_NOT_ACTIVATED">>,
                  <<"QUOTA_CHECK_UNAVAILABLE">>, <<"PERMISSION_DENIED">>}
MCCosts == {{}, {[metric |-> "reads", cost |-> 0], [metric |-> "writes", cost |-> 2]}}
MCQuotaAnswer == {NoErrors, <<"RESOURCE_EXHAUSTED">>}
=============================================================================
