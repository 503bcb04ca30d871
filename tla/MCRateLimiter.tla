--------------------------- MODULE MCRateLimiter ---------------------------
(***************************************************************************)
(* A small instance of RateLimiter for TLC: ann sends up to three requests *)
(* at once; tools are local or on the gateway.                             *)
(***************************************************************************)
EXTENDS RateLimiter

CONSTANTS a1, a2, a3, ann, gateway

ThreeOfAnn == {a1, a2, a3}
OnlyAnn    == {ann}
OwnerOf    == [r \in Runs |-> ann]
Gateway    == {gateway}
=============================================================================
