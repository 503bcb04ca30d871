--------------------------- MODULE MCConversation ---------------------------
(* Conversation with small thresholds; sessions are interchangeable.       *)
EXTENDS Conversation, TLC

Symmetry == Permutations(Sessions)
=============================================================================
