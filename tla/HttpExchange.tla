---------------------------- MODULE HttpExchange ----------------------------
(* What ApiManagerEnvInterface::RunHTTPRequest promises its callers          *)
(* (include/api_manager/http_request.h): the continuation of a request is    *)
(* called once, with NGX_ERROR or with a status of the server.               *)
EXTENDS Integers, Sequences

CONSTANT Answer      \* what a continuation may be called with

VARIABLES sent,      \* the caller has handed the request over
          answers    \* the calls of the continuation so far

vars == <<sent, answers>>

Init == sent = FALSE /\ answers = <<>>

Send == ~sent /\ sent' = TRUE /\ UNCHANGED answers

(* The request cannot even be created: the caller is answered at once.       *)
FailToSend(a) == ~sent /\ sent' = TRUE /\ answers' = <<a>>

OnComplete(a) == sent /\ answers = <<>> /\ answers' = <<a>> /\ UNCHANGED sent

Next == Send \/ \E a \in Answer : FailToSend(a) \/ OnComplete(a)

Spec == Init /\ [][Next]_vars
=============================================================================
