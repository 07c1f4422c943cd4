--------------------------- MODULE MCConfigRollout ---------------------------
(* Rollouts for model checking ConfigRollout.  Each shares a config with the *)
(* one before it; one holds a config that AddConfig rejects, one has no traffic.            *)
EXTENDS ConfigRollout, TLC

MCConfig == {"a", "b", "bad"}
MCInvalid == {"bad"}
MCConfigsOf == (0 :> {"a"}) @@ (1 :> {"a", "b"}) @@ (2 :> {"b", "bad"}) @@ (3 :> {})
=============================================================================
