--------------------------- MODULE MCConversations ---------------------------
(* Conversations for TLC: the symmetry of its messages. *)
EXTENDS Conversations, TLC

Symmetry == Permutations(Msgs)
=============================================================================
