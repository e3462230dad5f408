---------------------------- MODULE MCConnection ----------------------------
(* Connection for TLC: every constant is given in the configuration. *)
EXTENDS Connection
=============================================================================
