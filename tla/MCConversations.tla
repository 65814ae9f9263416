-------------------------- MODULE MCConversations --------------------------
(* A small instance of Conversations with its views. *)
EXTENDS Insights, TLC

CONSTANTS u1, u2, k1, k2

TwoUsers == {u1, u2}
TwoSlots == {k1, k2}
Symmetry == Permutations(TwoUsers) \cup Permutations(TwoSlots)
=============================================================================
