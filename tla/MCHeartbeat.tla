----------------------------- MODULE MCHeartbeat -----------------------------
(* Heartbeat for TLC: every constant is given in the configuration. *)
EXTENDS Heartbeat
==============================================================================
