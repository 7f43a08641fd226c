----------------------------- MODULE MCConnectionPool -----------------------------
(* Model values for ConnectionPool and their symmetry. *)
EXTENDS ConnectionPool, TLC

Symmetry == Permutations(Clients) \cup Permutations(Conns)
=============================================================================
