----------------------------- MODULE CreditBook -----------------------------
(***************************************************************************)
(* What the ledger of a workspace promises, whatever requests run at the   *)
(* same time: a request leaves its mark once and whole.  An answered       *)
(* request takes exactly its cost from its author, plus a loan from one    *)
(* other member to the author; any other request leaves no trace.          *)
(***************************************************************************)
EXTENDS Integers

CONSTANTS Users, Requests, Costs, Loans

VARIABLES
    flow,   \* what each member has gained or spent by the ledger
    out     \* how each request has ended

Init ==
    /\ flow \in [Users -> Int]
    /\ out = [r \in Requests |-> "none"]

End(r, how) ==
    /\ out[r] = "none"
    /\ out' = [out EXCEPT ![r] = how]

Refuse(r, how) ==
    /\ End(r, how)
    /\ UNCHANGED flow

Charge(r, author, cost) ==
    /\ End(r, "ok")
    /\ flow' = [flow EXCEPT ![author] = @ - cost]

ChargeLoan(r, author, cost, lender, loan) ==
    /\ End(r, "ok")
    /\ author # lender
    /\ flow' = [flow EXCEPT ![author] = @ + loan - cost, ![lender] = @ - loan]

Next ==
    \E r \in Requests :
        \/ \E how \in {"402", "502", "unhandled", "fault"} : Refuse(r, how)
        \/ \E u \in Users, c \in Costs :
             \/ Charge(r, u, c)
             \/ \E v \in Users, a \in Loans : ChargeLoan(r, u, c, v, a)

Spec == Init /\ [][Next]_<<flow, out>>
=============================================================================
