---------------------------- MODULE MCEventQueue ----------------------------
(* EventQueue for TLC: every constant is given in the configuration. *)
EXTENDS EventQueue
=============================================================================
