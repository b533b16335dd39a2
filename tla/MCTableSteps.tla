----------------------------- MODULE MCTableSteps ----------------------------
(* The table with a few processes and workers, which are not told apart.      *)
EXTENDS TableSteps, TLC

Sym == Permutations(Pids) \cup Permutations(Workers)
=============================================================================
