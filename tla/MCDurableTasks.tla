---------------------------- MODULE MCDurableTasks ----------------------------
EXTENDS DurableTasks, TLC

(* Processes and owner tokens are interchangeable; tasks are ordered.      *)
Symmetry == Permutations(Procs) \cup Permutations(Tokens)
=============================================================================
