------------------------------ MODULE MCLive ------------------------------
(* A small instance of Hub. *)
EXTENDS Hub, TLC

CONSTANTS u1, u2, w1, w2, k1

TwoUsers == {u1, u2}
TwoWorkspaces == {w1, w2}
OneConversation == {k1}
TwoConnections == 1 .. 2
\* Two connections of one user, or one each.
Assignments == {<<u1, u1>>, <<u1, u2>>}
=============================================================================
