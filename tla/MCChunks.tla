------------------------------- MODULE MCChunks -------------------------------
(* Chunks for TLC: clients are interchangeable. *)
EXTENDS Chunks, TLC
Symmetry == Permutations(Clients)
=============================================================================
