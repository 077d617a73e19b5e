-------------------------------- MODULE Parts --------------------------------
(* Components that share no state, run one at a time in one instance for   *)
(* TLC: a behaviour is about one part, and what the others keep is Off for *)
(* all of it.                                                              *)
CONSTANT Off    \* the state of what does not run
VARIABLE part   \* what runs
=============================================================================
