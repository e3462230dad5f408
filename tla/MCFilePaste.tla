----------------------------- MODULE MCFilePaste -----------------------------
(* FilePaste for TLC. *)
EXTENDS FilePaste
=============================================================================
