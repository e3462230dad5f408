---------------------------- MODULE MCMultiplexer ----------------------------
(* Multiplexer for TLC: every constant is given in the configuration. *)
EXTENDS Multiplexer
=============================================================================
