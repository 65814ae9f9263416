----------------------------- MODULE MCGateway -----------------------------
(***************************************************************************)
(* Constants of Gateway for TLC: members 1, 2 and 3, whose limit is 3.     *)
(***************************************************************************)
EXTENDS Gateway, TLC

ShareOf1 == [u \in Users |-> IF u = 1 THEN 2 ELSE 0]
ShareOfAll == [u \in Users |-> 2]
NoFloor == [u \in Users |-> 0]
FloorOf1 == [u \in Users |-> IF u = 1 THEN 1 ELSE 0]
ByKey == [u \in Users |-> u]

\* Requests differ in nothing but their name.
Symmetry == Permutations(Requests)
=============================================================================
