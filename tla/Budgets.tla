------------------------------ MODULE Budgets ------------------------------
(***************************************************************************)
(* The credits of the members of one workspace: what a row of the table    *)
(* user_budgets holds and what each method of BudgetService and            *)
(* BorrowEngine does to it.  Every operator here is a function from a row  *)
(* to a row; when a row is read, when it is written and what another       *)
(* request may do in between is the business of module Gateway.            *)
(*                                                                         *)
(* An amount is a whole number of the smallest unit (Numeric(12, 2)).      *)
(* Members are the keys of their rows: SQLAlchemy writes several rows of   *)
(* one flush in the order of their keys, so the order matters.             *)
(***************************************************************************)
EXTENDS Integers, FiniteSets

CONSTANTS
    Users,      \* the members, by the key of their budget row
    Limit,      \* monthly_credit_limit of every member
    Share,      \* Share[u]: monthly_share_limit, 0 if u does not share
    Floor,      \* Floor[u]: minimum_reserved_credits
    Priority    \* Priority[u]: lower is asked first among equals

ASSUME BudgetsAssumption ==
    /\ Users \subseteq Nat \ {0}
    /\ Limit \in Nat
    /\ Share \in [Users -> Nat]
    /\ Floor \in [Users -> Nat]
    /\ Priority \in [Users -> Int]

NoUser == 0

Budget == [used : Nat, borrowed : Nat, lent : Nat, remaining : Int, month : Nat]

\* The row after an allocation in month m, the month of its reset_date.
Allocated(m) ==
    [used |-> 0, borrowed |-> 0, lent |-> 0, remaining |-> Limit, month |-> m]

\* reset_if_needed: the reset date is today or earlier.
Due(b, today) == b.month < today

Current(b, today) == IF Due(b, today) THEN Allocated(today) ELSE b

AtLeastZero(n) == IF n < 0 THEN 0 ELSE n

Charged(b, a) == [b EXCEPT !.used = @ + a, !.remaining = @ - a]

\* adjust_credits by d; a positive d gives credits back.
Adjusted(b, d) ==
    [b EXCEPT !.remaining = @ + d,
              !.used = IF d > 0 THEN AtLeastZero(@ - d) ELSE @ - d]

Lends(b, a) == [b EXCEPT !.remaining = @ - a, !.lent = @ + a]

Borrows(b, a) == [b EXCEPT !.remaining = @ + a, !.borrowed = @ + a]

\* release_borrow, at the lender and at the borrower.
TakesBack(b, a) ==
    [b EXCEPT !.remaining = @ + a, !.lent = AtLeastZero(@ - a)]

GivesBack(b, a) ==
    [b EXCEPT !.remaining = AtLeastZero(@ - a), !.borrowed = AtLeastZero(@ - a)]

(***************************************************************************)
(* Choosing a lender.                                                      *)
(***************************************************************************)
Sharers == {u \in Users : Share[u] > 0}

\* Mutant: what is lent already is not counted.
CapacityWhole(u, b) == Share[u]

Capacity(u, b) == Share[u] - b.lent

\* Mutant: the reserve is compared with the balance before the loan.
CanLendBefore(u, b, a) == Capacity(u, b) >= a /\ b.remaining >= Floor[u]

\* validate_lender
CanLend(u, b, a) == Capacity(u, b) >= a /\ b.remaining - a >= Floor[u]

\* HighestRemainingStrategy; rows is a budget for every member of S.
Best(S, rows) ==
    {u \in S : \A v \in S :
        \/ Capacity(u, rows[u]) > Capacity(v, rows[v])
        \/ /\ Capacity(u, rows[u]) = Capacity(v, rows[v])
           /\ Priority[u] <= Priority[v]}

(***************************************************************************)
(* An UPDATE names only the columns the session changed between old, the   *)
(* row as it was read, and new; the others keep what is in the table.      *)
(***************************************************************************)
Newer(t, o, n) == IF n # o THEN n ELSE t

Overwrite(table, old, new) ==
    [used      |-> Newer(table.used, old.used, new.used),
     borrowed  |-> Newer(table.borrowed, old.borrowed, new.borrowed),
     lent      |-> Newer(table.lent, old.lent, new.lent),
     remaining |-> Newer(table.remaining, old.remaining, new.remaining),
     month     |-> Newer(table.month, old.month, new.month)]
=============================================================================
