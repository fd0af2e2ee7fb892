---------------------------- MODULE MCFilterStore ----------------------------
(* FilterStore for TLC: the symmetry of its model values. *)
EXTENDS FilterStore, TLC

HandlerSymmetry == Permutations(Handlers) \cup Permutations(Chats) \cup Permutations(Texts)
Symmetry == HandlerSymmetry \cup Permutations(Media)
=============================================================================
