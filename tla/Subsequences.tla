---------------------------- MODULE Subsequences ----------------------------
(***************************************************************************)
(* The entries of a sequence that a list comprehension or a query keeps,   *)
(* given by their positions.  The proofs need the positions: they say of   *)
(* what is kept where it was before.                                       *)
(***************************************************************************)
EXTENDS Naturals, Sequences, FiniteSets

\* The positions of a set up to one of them, counted.
Rank(S, i) == Cardinality({j \in S : j <= i})

Nth(S, k) == CHOOSE i \in S : Rank(S, i) = k

\* The entries at the positions of S, in their order.
At(seq, S) == [k \in 1..Cardinality(S) |-> seq[Nth(S, k)]]
=============================================================================
