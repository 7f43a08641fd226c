------------------------------ MODULE MCRetryPersistence ------------------------------
(* Symmetry for the safety runs of RetryPersistence. *)
EXTENDS RetryPersistence, TLC

Symmetry == Permutations(Ids) \cup Permutations(Times) \cup Permutations(Writers)
=============================================================================
