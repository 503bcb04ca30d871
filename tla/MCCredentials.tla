--------------------------- MODULE MCCredentials ---------------------------
(* Credentials with three requests, one OAuth state and two connections.   *)
EXTENDS Credentials, TLC

Symmetry == Permutations(Requests) \cup Permutations(Conns)
=============================================================================
