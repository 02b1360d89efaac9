------------------------ MODULE MCExecutionRegistry ------------------------
(* Small instances of ExecutionRegistry for TLC: callers of the same kind *)
(* and release sinks are interchangeable.                                 *)
EXTENDS ExecutionRegistry, TLC

Symmetry ==
  Permutations(Drainers) \cup Permutations(Closers) \cup Permutations(Sinks)
=============================================================================
