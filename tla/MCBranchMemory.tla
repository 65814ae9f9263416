--------------------------- MODULE MCBranchMemory ---------------------------
(* A small instance of BranchMemory. *)
EXTENDS BranchMemory, TLC

CONSTANTS r1, r2, c1, c2, k1, k2, main, other

TwoRepositories == {r1, r2}
FirstRepository == {r1}
TwoConversations == {c1, c2}
FirstConversation == {c1}
TwoNames == {main, other}
TwoSlots == {k1, k2}
SlotSymmetry == Permutations(TwoSlots)
=============================================================================
