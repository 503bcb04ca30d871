----------------------------- MODULE MCGateway -----------------------------
(* Instances of Gateway for TLC. *)
EXTENDS Gateway, TLC

Callers == Permutations(Requests)

AllTools == DOMAIN ToolTable
=============================================================================
