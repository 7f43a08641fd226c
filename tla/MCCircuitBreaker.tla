----------------------------- MODULE MCCircuitBreaker -----------------------------
(* Model values for CircuitBreaker and the symmetry of its callers. *)
EXTENDS CircuitBreaker, TLC

SendSymmetry == Permutations(Sends)
=============================================================================
