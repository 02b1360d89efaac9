-------------------------- MODULE MCReleaseFlusher --------------------------
(* Small instances of ReleaseFlusher for TLC. *)
EXTENDS ReleaseFlusher, TLC

Symmetry == Permutations(Groups)
=============================================================================
