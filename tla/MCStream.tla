------------------------------- MODULE MCStream -------------------------------
(* Stream for TLC: every constant is given in the configuration. *)
EXTENDS Stream
=============================================================================
