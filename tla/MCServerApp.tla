----------------------------- MODULE MCServerApp -----------------------------
(* ServerApp for TLC: every constant is a number or a set of strings. *)
EXTENDS ServerApp
=============================================================================
