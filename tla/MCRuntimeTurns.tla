---------------------------- MODULE MCRuntimeTurns ----------------------------
(* RuntimeTurns for TLC: servers and process ids are interchangeable.      *)
EXTENDS RuntimeTurns, TLC

Symmetry == Permutations(Owners) \cup Permutations(Pids)
=============================================================================
