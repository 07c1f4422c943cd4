------------------------------ MODULE RpcRelay ------------------------------
(* What a gRPC proxy promises the client of one call: the responses it sees  *)
(* are a prefix of what the backend sent, it is told one final status, after *)
(* which it gets nothing more, and it is told OK only if the backend said OK *)
(* and every response has been passed on.                                    *)
EXTENDS Naturals, Sequences

CONSTANT MaxResp

VARIABLES sent,       \* responses the backend has sent
          closed,     \* "open", or how the backend's side ended
          delivered,  \* responses passed on to the client
          status      \* final status told to the client, or "none"

relayVars == <<sent, closed, delivered, status>>

RelayInit == sent = 0 /\ closed = "open" /\ delivered = <<>> /\ status = "none"

Send ==
  /\ closed = "open" /\ sent < MaxResp
  /\ sent' = sent + 1
  /\ UNCHANGED <<closed, delivered, status>>

Close ==
  /\ closed = "open"
  /\ closed' \in {"OK", "ERR", "CANCELLED"}
  /\ UNCHANGED <<sent, delivered, status>>

Deliver ==
  /\ status = "none" /\ Len(delivered) < sent
  /\ delivered' = Append(delivered, Len(delivered) + 1)
  /\ UNCHANGED <<sent, closed, status>>

End ==
  /\ status = "none" /\ status' # "none"
  /\ status' = "OK" => closed = "OK" /\ Len(delivered) = sent
  /\ UNCHANGED <<sent, closed, delivered>>

RelayNext == Send \/ Close \/ Deliver \/ End

RelaySpec == RelayInit /\ [][RelayNext]_relayVars
=============================================================================
