------------------------------ MODULE MCService ------------------------------
(* The daemon with a few clients, workers and targets.  None of them is told  *)
(* apart from its like, so the runs without a liveness property use their     *)
(* permutations as symmetry.                                                  *)
EXTENDS ServiceTable, TLC

Sym == Permutations(Pids) \cup Permutations(Workers) \cup Permutations(Clients)
=============================================================================
