------------------------------ MODULE Gateway ------------------------------
(***************************************************************************)
(* The AI gateway and the credits it moves: AIGateway.generate with        *)
(* BudgetService and BorrowEngine, for several chat requests at once.      *)
(*                                                                         *)
(* A request is one database transaction (READ COMMITTED).  It reads rows  *)
(* of user_budgets without locking them, computes in Python, and writes    *)
(* absolute values with an UPDATE that takes the row's lock and keeps it   *)
(* until commit or rollback, so that the lock of the author's row is held  *)
(* while the AI provider works.  The actions are cut where another request *)
(* may come in between: at every read, at every UPDATE, and at the call of *)
(* the provider.  What a request does to rows it has locked already is     *)
(* visible to nobody before its commit and is part of one action.          *)
(*                                                                         *)
(* Only requests with a positive estimate are modelled: with a free        *)
(* provider the estimate and the actual cost are both zero and no budget   *)
(* is touched.                                                             *)
(***************************************************************************)
EXTENDS Budgets

CONSTANTS
    Requests,   \* chat requests, each sent once
    Nobody,     \* the holder of a row that is not locked
    Authors,    \* the members who send requests
    Owners,     \* the members who have a usable AI account
    BorrowModes,\* the values of allow_credit_borrowing a request may find
    HardModes,  \* the values of hard_budget_enforcement a request may find
    Estimates,  \* estimates of a request's cost
    Costs,      \* actual costs of a request
    UsedBefore, \* what a member may have used when the model starts
    Faults,     \* whether a request may be lost to a fault
    MaxActive,  \* bound: requests in flight at once
    MaxMonth    \* bound: number of month ends

ASSUME GatewayAssumption ==
    /\ Nobody \notin Requests
    /\ Authors \subseteq Users
    /\ Owners \subseteq Users
    /\ BorrowModes \subseteq BOOLEAN
    /\ HardModes \subseteq BOOLEAN
    /\ Estimates \subseteq Nat \ {0}
    /\ Costs \subseteq Nat
    /\ UsedBefore \subseteq 0 .. Limit
    /\ Faults \in BOOLEAN
    /\ MaxActive \in Nat
    /\ MaxMonth \in Nat

VARIABLES
    db,      \* the committed rows of user_budgets
    draft,   \* the rows with what the holder of each lock has written
    lock,    \* which request holds the lock of each row
    flow,    \* committed credit_transactions but allocations: sum by member,
             \* a LEND and its BORROW being two sides of one movement
    grants,  \* committed credit_transactions: allocations by member
    spent,   \* monthly_spent of the AI account of each member
    month,   \* the current month
    req      \* the requests

vars == <<db, draft, lock, flow, grants, spent, month, req>>

Pcs == {"idle", "quote", "check", "route", "pick", "reserve", "match", "lend",
        "consume", "charge", "call", "done"}

Outcomes == {"none", "ok", "402", "502", "unhandled", "fault"}

(***************************************************************************)
(* What a request holds in memory, and the ledger rows it has not yet      *)
(* committed (net by member, and allocs).  lender is set once the rows of  *)
(* a loan are about to be written, and todo is those still to be written.  *)
(* acct is the owner of the AI account, monthly its monthly_spent as read. *)
(* mine is the author's row as last read; kept is TRUE where the code      *)
(* holds on to that object, so that reading again yields the same values.  *)
(* today is the month in which the rows were last read, and judged due.    *)
(***************************************************************************)
Request ==
    [pc : Pcs, out : Outcomes,
     author : Users \cup {NoUser}, est : Nat, hard : BOOLEAN, borrows : BOOLEAN,
     acct : Users \cup {NoUser}, monthly : Nat, retried : BOOLEAN,
     mine : Budget, kept : BOOLEAN, today : Nat,
     look : SUBSET Users, seen : [Users -> Budget],
     lender : Users \cup {NoUser}, todo : SUBSET Users,
     net : [Users -> Int], allocs : [Users -> Nat]]

Blank == Allocated(0)

NoRequest ==
    [pc |-> "idle", out |-> "none",
     author |-> NoUser, est |-> 0, hard |-> FALSE, borrows |-> FALSE,
     acct |-> NoUser, monthly |-> 0, retried |-> FALSE,
     mine |-> Blank, kept |-> FALSE, today |-> 0,
     look |-> {}, seen |-> [u \in Users |-> Blank],
     lender |-> NoUser, todo |-> {},
     net |-> [u \in Users |-> 0], allocs |-> [u \in Users |-> 0]]

Init ==
    /\ db \in [Users -> {[Allocated(0) EXCEPT !.used = n, !.remaining = Limit - n]
                            : n \in UsedBefore}]
    /\ draft = db
    /\ lock = [u \in Users |-> Nobody]
    /\ flow = [u \in Users |-> -db[u].used]
    /\ grants = [u \in Users |-> 1]
    /\ spent = [u \in Users |-> 0]
    /\ month = 0
    /\ req = [r \in Requests |-> NoRequest]
-----------------------------------------------------------------------------
(***************************************************************************)
(* Transactions.                                                           *)
(***************************************************************************)
At(r, pc) == req[r].pc = pc

Running(q) == q.pc \notin {"idle", "done"}

Active(r) == Running(req[r])

Holds(r, u) == lock[u] = r

CanWrite(r, u) == lock[u] \in {Nobody, r}

\* A SELECT: what is committed, or what the request itself has written.
Visible(r, u) == IF Holds(r, u) THEN draft[u] ELSE db[u]

\* The session hands out the object it still holds instead of a new one.
AuthorRow(r) == IF req[r].kept THEN req[r].mine ELSE Visible(r, req[r].author)

\* An UPDATE of u by r, which changes row old to row new.
Write(r, u, old, new) ==
    /\ CanWrite(r, u)
    /\ lock' = [lock EXCEPT ![u] = r]
    /\ draft' = [draft EXCEPT ![u] = Overwrite(@, old, new)]

Finished(r, out) ==
    [NoRequest EXCEPT !.pc = "done", !.out = out]

Unlocked(r) == [u \in Users |-> IF Holds(r, u) THEN Nobody ELSE lock[u]]

\* Commits rows, what r leaves in the rows it holds, and its ledger rows.
Commit(r, out, rows, net, allocs) ==
    /\ db' = [u \in Users |-> IF Holds(r, u) THEN rows[u] ELSE db[u]]
    /\ draft' = [u \in Users |-> IF Holds(r, u) THEN rows[u] ELSE draft[u]]
    /\ lock' = Unlocked(r)
    /\ flow' = [u \in Users |-> flow[u] + net[u]]
    /\ grants' = [u \in Users |-> grants[u] + allocs[u]]
    /\ req' = [req EXCEPT ![r] = Finished(r, out)]

Rollback(r, out) ==
    /\ draft' = [u \in Users |-> IF Holds(r, u) THEN db[u] ELSE draft[u]]
    /\ lock' = Unlocked(r)
    /\ req' = [req EXCEPT ![r] = Finished(r, out)]
    /\ UNCHANGED <<db, flow, grants, spent, month>>

\* A step that only reads, or computes in memory.
Think(r, new) ==
    /\ req' = [req EXCEPT ![r] = new]
    /\ UNCHANGED <<db, draft, lock, flow, grants, spent, month>>
-----------------------------------------------------------------------------
(***************************************************************************)
(* Month ends.  reset_if_needed judges a row as soon as it has read it: if *)
(* it was due then, the next step of the request is to renew it.  If not,  *)
(* the month may end before the row is written.                            *)
(***************************************************************************)
NewMonth ==
    /\ month < MaxMonth
    /\ month' = month + 1
    /\ UNCHANGED <<db, draft, lock, flow, grants, spent, req>>

Least(S) == CHOOSE u \in S : \A v \in S : u <= v

DueLenders(r) ==
    IF req[r].pc \in {"pick", "match"}
    THEN {u \in req[r].look : Due(req[r].seen[u], req[r].today)}
    ELSE {}

DueAuthor(r) ==
    req[r].pc \in {"check", "lend", "charge"} /\ Due(req[r].mine, req[r].today)

\* One more ledger row of r, by which u gains amount.
Posted(r, u, amount) == [req[r].net EXCEPT ![u] = @ + amount]

\* Mutant: one ALLOCATION, however many months have ended.
GrantOnce(r, u, b, today) ==
    [req[r].allocs EXCEPT ![u] = IF Due(b, today) THEN @ + 1 ELSE @]

\* One ALLOCATION for every month that has ended since the last.
Grant(r, u, b, today) == [req[r].allocs EXCEPT ![u] = @ + (today - b.month)]

RenewLender(r) ==
    /\ \E u \in DueLenders(r) :
         /\ \A v \in DueLenders(r) : u <= v
         /\ Write(r, u, req[r].seen[u], Allocated(req[r].today))
         /\ req' = [req EXCEPT ![r] = [@ EXCEPT
                !.seen[u] = Allocated(req[r].today),
                !.allocs = Grant(r, u, req[r].seen[u], req[r].today)]]
    /\ UNCHANGED <<db, flow, grants, spent, month>>

RenewAuthor(r) ==
    /\ DueAuthor(r)
    /\ Write(r, req[r].author, req[r].mine, Allocated(req[r].today))
    /\ req' = [req EXCEPT ![r] = [@ EXCEPT
            !.mine = Allocated(req[r].today),
            !.allocs = Grant(r, req[r].author, req[r].mine, req[r].today)]]
    /\ UNCHANGED <<db, flow, grants, spent, month>>

(***************************************************************************)
(* AIGateway.generate up to the charge, on the author's own account.       *)
(***************************************************************************)
Begin(r, u, est, hard, borrows) ==
    /\ At(r, "idle")
    /\ Cardinality({q \in Requests : Active(q)}) < MaxActive
    /\ LET started == [req[r] EXCEPT !.author = u, !.est = est, !.hard = hard,
                                      !.borrows = borrows]
       IN Think(r, IF u \in Owners
                   THEN [started EXCEPT !.pc = "quote", !.acct = u, !.monthly = spent[u]]
                   ELSE [started EXCEPT !.pc = "route"])

\* Without hard enforcement the budget read for the warning is kept.
Quote(r) ==
    /\ At(r, "quote")
    /\ Think(r, [req[r] EXCEPT !.pc = "check", !.mine = AuthorRow(r),
                               !.kept = ~req[r].hard, !.today = month])

\* has_available_credits, or only a warning.
Check(r) ==
    /\ At(r, "check")
    /\ ~DueAuthor(r)
    /\ IF req[r].hard /\ req[r].mine.remaining < req[r].est
       THEN Rollback(r, "402")
       ELSE Think(r, [req[r] EXCEPT !.pc = "consume"])

\* consume_credits: read, check, charge.
Consume(r) ==
    /\ At(r, "consume")
    /\ Think(r, [req[r] EXCEPT !.pc = "charge", !.mine = AuthorRow(r), !.today = month])

\* Mutant: consume_credits does not check again.
AffordableAlways(r) == TRUE

\* Only a soft budget on the author's own account may be overdrawn.
Affordable(r) ==
    \/ req[r].mine.remaining >= req[r].est
    \/ ~req[r].hard /\ req[r].acct = req[r].author

\* InsufficientCreditsError, raised where nothing catches it.
CannotCharge(r) ==
    /\ At(r, "charge")
    /\ ~DueAuthor(r)
    /\ ~Affordable(r)
    /\ Rollback(r, "unhandled")

Charge(r) ==
    /\ At(r, "charge")
    /\ ~DueAuthor(r)
    /\ Affordable(r)
    /\ LET new == Charged(req[r].mine, req[r].est)
       IN /\ Write(r, req[r].author, req[r].mine, new)
          /\ req' = [req EXCEPT ![r] = [@ EXCEPT
                 !.pc = "call", !.mine = new, !.net = Posted(r, req[r].author, -req[r].est)]]
    /\ UNCHANGED <<db, flow, grants, spent, month>>

(***************************************************************************)
(* The account and the credits of somebody else: _resolve_borrowed_routing *)
(* and reserve_shared_credits, each with its own read of the lenders.      *)
(***************************************************************************)
ReadLenders(r, pc) ==
    LET look == Sharers \ {req[r].author}
    IN Think(r, [req[r] EXCEPT !.pc = pc, !.look = look, !.today = month,
                    !.seen = [u \in Users |-> IF u \in look THEN Visible(r, u)
                                                           ELSE Blank]])

Route(r) ==
    /\ At(r, "route")
    /\ req[r].borrows
    /\ ReadLenders(r, "pick")

\* The lenders with capacity left who have an account to use.
Providers(r) ==
    {u \in req[r].look \cap Owners : Capacity(u, req[r].seen[u]) > 0}

Pick(r) ==
    /\ At(r, "pick")
    /\ DueLenders(r) = {}
    /\ \E u \in Best(Providers(r), req[r].seen) :
         Think(r, [req[r] EXCEPT !.pc = "reserve", !.acct = u, !.monthly = spent[u]])

\* Nobody's account: 402, or after the author's own account has failed
\* the end of that failure, whose refund is committed.
NoProvider(r) ==
    /\ \/ At(r, "route") /\ ~req[r].borrows
       \/ At(r, "pick") /\ DueLenders(r) = {} /\ Providers(r) = {}
    /\ IF req[r].retried
       THEN /\ Commit(r, "502", draft, req[r].net, req[r].allocs)
            /\ UNCHANGED <<spent, month>>
       ELSE Rollback(r, "402")

Reserve(r) ==
    /\ At(r, "reserve")
    /\ ReadLenders(r, "match")

\* Mutant: reserve_shared_credits takes any lender that routing accepts.
LendersUnchecked(r) ==
    {u \in req[r].look : Capacity(u, req[r].seen[u]) > 0}

Lenders(r) == {u \in req[r].look : CanLend(u, req[r].seen[u], req[r].est)}

Match(r) ==
    /\ At(r, "match")
    /\ DueLenders(r) = {}
    /\ \E u \in Best(Lenders(r), req[r].seen) :
         Think(r, [req[r] EXCEPT !.pc = "lend", !.lender = u, !.mine = AuthorRow(r),
                                 !.today = month, !.todo = {u, req[r].author}])

NoLender(r) ==
    /\ At(r, "match")
    /\ DueLenders(r) = {}
    /\ Lenders(r) = {}
    /\ Rollback(r, "402")

\* The two UPDATEs of one flush, in the order of the keys.
Lend(r) ==
    /\ At(r, "lend")
    /\ ~DueAuthor(r)
    /\ LET q == req[r]
           u == Least(q.todo)
           old == IF u = q.lender THEN q.seen[u] ELSE q.mine
           new == IF u = q.lender THEN Lends(old, q.est) ELSE Borrows(old, q.est)
       IN /\ Write(r, u, old, new)
          /\ req' = [req EXCEPT ![r] = [@ EXCEPT
                 !.pc = IF q.todo = {u} THEN "consume" ELSE "lend",
                 !.todo = q.todo \ {u},
                 !.mine = IF u = q.author THEN new ELSE q.mine,
                 !.net = Posted(r, u, IF u = q.lender THEN -q.est ELSE q.est)]]
    /\ UNCHANGED <<db, flow, grants, spent, month>>

(***************************************************************************)
(* The provider has answered.  The author's row, and the lender's if there *)
(* is one, are locked by r, so r sees and changes what it has written.     *)
(***************************************************************************)
Lent(r) == req[r].lender # NoUser

\* The author's row after flushes that take the object from old over mid to new.
Flushed(r, old, mid, new) ==
    Overwrite(Overwrite(draft[req[r].author], old, mid), mid, new)

\* Mutant: the cost replaces what was spent.
SpendReplaced(r, cost) == [spent EXCEPT ![req[r].acct] = cost]

\* The account's monthly_spent was read when the account was chosen.
Spend(r, cost) == [spent EXCEPT ![req[r].acct] = req[r].monthly + cost]

\* Reconciles the estimate with the actual cost and commits everything.
Succeed(r, cost) ==
    /\ At(r, "call")
    /\ LET q == req[r]
           old == AuthorRow(r)
           mid == Current(old, month)
           new == Adjusted(mid, q.est - cost)
       IN IF cost = q.est
          THEN Commit(r, "ok", draft, q.net, q.allocs)
          ELSE Commit(r, "ok",
                      [draft EXCEPT ![q.author] = Flushed(r, old, mid, new)],
                      [q.net EXCEPT ![q.author] = @ + (q.est - cost)],
                      Grant(r, q.author, old, month))
    /\ spent' = Spend(r, cost)
    /\ UNCHANGED month

\* release_borrow, at both ends, and the author's object after it.
Released(r) ==
    IF Lent(r)
    THEN [draft EXCEPT ![req[r].lender] = TakesBack(@, req[r].est),
                       ![req[r].author] = Overwrite(@, AuthorRow(r),
                                              GivesBack(AuthorRow(r), req[r].est))]
    ELSE draft

AfterRelease(r) ==
    IF Lent(r) THEN GivesBack(AuthorRow(r), req[r].est) ELSE AuthorRow(r)

\* Mutant: the ledger row of a release names the lender only.
ReleasedNetHalf(r) ==
    IF Lent(r) THEN [req[r].net EXCEPT ![req[r].lender] = @ + req[r].est] ELSE req[r].net

ReleasedNet(r) ==
    IF Lent(r)
    THEN [req[r].net EXCEPT ![req[r].lender] = @ + req[r].est,
                            ![req[r].author] = @ - req[r].est]
    ELSE req[r].net

\* The author's object after _refund_reserved_credits.
Refunded(r) == Adjusted(Current(AfterRelease(r), month), req[r].est)

\* Mutant: the refund changes the balance and writes no ledger row.
RefundedNetSilent(r) == ReleasedNet(r)

RefundedNet(r) == [ReleasedNet(r) EXCEPT ![req[r].author] = @ + req[r].est]

RefundedRows(r) ==
    [Released(r) EXCEPT ![req[r].author] =
        Overwrite(Overwrite(@, AfterRelease(r), Current(AfterRelease(r), month)),
                  Current(AfterRelease(r), month), Refunded(r))]

\* Mutant: a failure on a lender's account turns to a lender again.
RetriesAlways(r) == req[r].borrows

\* The first failure on the author's own account turns to a lender.
Retries(r) ==
    /\ ~req[r].retried
    /\ req[r].acct = req[r].author
    /\ req[r].borrows

RetryBorrowing(r) ==
    /\ At(r, "call")
    /\ Retries(r)
    /\ draft' = RefundedRows(r)
    /\ req' = [req EXCEPT ![r] = [@ EXCEPT
            !.pc = "route", !.retried = TRUE, !.mine = Refunded(r),
            !.net = RefundedNet(r), !.allocs = Grant(r, req[r].author, AfterRelease(r), month)]]
    /\ UNCHANGED <<db, lock, flow, grants, spent, month>>

\* Mutant: the last failure is not refunded.
GiveUpUnrefunded(r) ==
    /\ At(r, "call")
    /\ ~Retries(r)
    /\ Commit(r, "502", Released(r), ReleasedNet(r), req[r].allocs)
    /\ UNCHANGED <<spent, month>>

GiveUp(r) ==
    /\ At(r, "call")
    /\ ~Retries(r)
    /\ Commit(r, "502", RefundedRows(r), RefundedNet(r),
              Grant(r, req[r].author, AfterRelease(r), month))
    /\ UNCHANGED <<spent, month>>

(***************************************************************************)
(* Requests that end without an answer of the gateway.                     *)
(***************************************************************************)
\* The connection, the process or a later query fails: nothing is committed.
Fault(r) ==
    /\ Faults
    /\ Active(r)
    /\ Rollback(r, "fault")

\* The row r must write next, and the request r waits for.
Wants(r) ==
    IF DueLenders(r) # {} THEN Least(DueLenders(r))
    ELSE IF DueAuthor(r) \/ (At(r, "charge") /\ Affordable(r)) THEN req[r].author
    ELSE IF At(r, "lend") THEN Least(req[r].todo)
    ELSE NoUser

Blocker(r) ==
    IF r = Nobody \/ Wants(r) = NoUser \/ Holds(r, Wants(r))
    THEN Nobody
    ELSE lock[Wants(r)]

InDeadlock(r) ==
    LET chain[n \in 0 .. Cardinality(Requests)] ==
            IF n = 0 THEN r ELSE Blocker(chain[n - 1])
    IN \E n \in 1 .. Cardinality(Requests) : chain[n] = r

\* The database breaks a cycle of waiting transactions by aborting one.
AbortDeadlocked(r) ==
    /\ Active(r)
    /\ InDeadlock(r)
    /\ Rollback(r, "fault")
-----------------------------------------------------------------------------
Advance(r) ==
    \/ RenewLender(r) \/ RenewAuthor(r)
    \/ Quote(r) \/ Check(r) \/ Consume(r) \/ CannotCharge(r) \/ Charge(r)
    \/ Route(r) \/ Pick(r) \/ NoProvider(r)
    \/ Reserve(r) \/ Match(r) \/ NoLender(r) \/ Lend(r)
    \/ \E cost \in Costs : Succeed(r, cost)
    \/ RetryBorrowing(r) \/ GiveUp(r)
    \/ AbortDeadlocked(r)

Next ==
    \/ NewMonth
    \/ \E r \in Requests :
         \/ \E u \in Authors, est \in Estimates, hard \in HardModes, borrows \in BorrowModes :
              Begin(r, u, est, hard, borrows)
         \/ Advance(r)
         \/ Fault(r)

Spec == Init /\ [][Next]_vars

(***************************************************************************)
(* A handler runs on, its provider answers or its HTTP client times out,   *)
(* and PostgreSQL looks for deadlocks (deadlock_timeout).                  *)
(***************************************************************************)
Fairness == \A r \in Requests : WF_vars(Advance(r))

FairSpec == Spec /\ Fairness
-----------------------------------------------------------------------------
\* Types of all variables.
TypeOK ==
    /\ db \in [Users -> Budget]
    /\ draft \in [Users -> Budget]
    /\ lock \in [Users -> Requests \cup {Nobody}]
    /\ flow \in [Users -> Int]
    /\ grants \in [Users -> Nat]
    /\ spent \in [Users -> Nat]
    /\ month \in Nat
    /\ req \in [Requests -> Request]

(***************************************************************************)
(* The inductive invariant, in parts.                                      *)
(***************************************************************************)
\* Nobody has seen a month that has not begun.
MonthInv ==
    /\ \A u \in Users : db[u].month <= month /\ draft[u].month <= month
    /\ \A r \in Requests :
         /\ req[r].mine.month <= month /\ req[r].today <= month
         /\ \A u \in Users : req[r].seen[u].month <= month

\* A row that differs from what is committed is locked, by a running request.
LockInv ==
    /\ \A u \in Users : lock[u] = Nobody => draft[u] = db[u]
    /\ \A u \in Users : lock[u] # Nobody => Active(lock[u])

\* Where a request is and what it may hold there.
Staged(q) ==
    /\ q.out = "none" <=> q.pc # "done"
    /\ ~Running(q) => q.net = [u \in Users |-> 0] /\ q.lender = NoUser
    /\ Running(q) => q.author \in Users /\ q.est \in Estimates /\ q.hard \in HardModes
    /\ Running(q) /\ q.pc \notin {"route", "pick"} => q.acct \in Users
    /\ q.pc \in {"reserve", "match"} => q.acct # q.author
    /\ q.pc \in {"pick", "match"} => q.author \notin q.look
    /\ q.pc = "lend" <=> q.todo # {}
    /\ q.todo \subseteq {q.author, q.lender}

\* Who lends is not the author, lends only for somebody else's account, and
\* the loan fits what was read of the lender's row.
Loaned(q) ==
    /\ q.lender # NoUser =>
         /\ q.pc \in {"lend", "consume", "charge", "call"}
         /\ q.lender # q.author
         /\ q.acct # q.author
         /\ q.lender \in q.todo => CanLend(q.lender, q.seen[q.lender], q.est)
    /\ q.pc = "lend" => q.lender # NoUser

\* What the ledger rows of q that are not committed yet come to for member u.
Owed(q, u) ==
    LET charge == IF q.pc = "call" /\ u = q.author THEN q.est ELSE 0
        loan == IF q.lender # NoUser /\ u \notin q.todo THEN q.est ELSE 0
    IN (IF u = q.author THEN loan ELSE IF u = q.lender THEN -loan ELSE 0) - charge

Netted(q) == Running(q) => \A u \in Users : q.net[u] = Owed(q, u)

RequestInv == \A r \in Requests : Staged(req[r]) /\ Loaned(req[r]) /\ Netted(req[r])

\* While the provider works, the rows its answer will change are locked.
\* This is why an answer can be one action.
CallHoldsRows ==
    \A r \in Requests :
        LET q == req[r] IN
        /\ q.pc = "call" => Holds(r, q.author)
        /\ q.lender # NoUser => \A u \in {q.author, q.lender} \ q.todo : Holds(r, u)

\* No row, committed or not, lends more than its share; and a row that lends
\* more than before is that of a lender, and keeps its reserve.
ShareInv ==
    \A u \in Users :
        /\ db[u].lent <= Share[u] /\ draft[u].lent <= Share[u]
        /\ draft[u].lent > db[u].lent =>
             /\ lock[u] # Nobody
             /\ u = req[lock[u]].lender /\ u \notin req[lock[u]].todo
             /\ draft[u].remaining >= Floor[u]

CreditInv ==
    TypeOK /\ MonthInv /\ LockInv /\ RequestInv /\ CallHoldsRows /\ ShareInv
-----------------------------------------------------------------------------
(***************************************************************************)
(* Properties that hold whatever requests run at the same time.            *)
(***************************************************************************)
\* The ledger is right in every interleaving: an answered request leaves
\* exactly its actual cost and at most one whole loan, any other request
\* nothing, although estimate, refund, release and reconciliation are rows
\* written one by one and a second account may be tried after the first.
Book == INSTANCE CreditBook WITH
    Loans <- Estimates, out <- [r \in Requests |-> req[r].out]

BookSpec == Book!Spec

\* No row says that more was lent than its member allows for a month
\* (monthly_share_limit), not even after racing loans.
WithinShare == \A u \in Users : db[u].lent <= Share[u]

\* No loan is committed that leaves the lender's row below
\* minimum_reserved_credits.
LendsAboveFloor ==
    [][\A u \in Users : db'[u].lent > db[u].lent => db'[u].remaining >= Floor[u]]_vars

\* A balance only becomes negative by a request of the member's own that found
\* soft enforcement, or cost more than its estimate (consume_credits,
\* adjust_credits): never by lending, and never by a charge that another
\* request's write has made too high.
CostsMore(r) ==
    flow'[req[r].author] - flow[req[r].author]
        < IF req[r].lender # NoUser THEN 0 ELSE -req[r].est

OverdrawnKnowingly ==
    [][\A u \in Users : db[u].remaining >= 0 /\ db'[u].remaining < 0 =>
         \E r \in Requests : /\ req[r].author = u
                             /\ ~req[r].hard \/ CostsMore(r)]_vars

\* Every request that is started is answered: no endless retry, no endless
\* wait for the rows of other requests.
Answered == \A r \in Requests : Active(r) ~> At(r, "done")

(***************************************************************************)
(* Properties that hold while one request runs at a time.                  *)
(***************************************************************************)
\* user_budgets is a cache derived from credit_transactions (ADR-006).
\* For the first month: the balance is the allocation and the rows since.
CacheMatchesLedger == \A u \in Users : db[u].remaining = Limit + flow[u]

\* In the first month, the cache never shows a member less than the ledger.
CacheCoversLedger ==
    \A u \in Users : db[u].month = 0 => db[u].remaining >= Limit + flow[u]

\* In the first month, and by the ledger, a member who only lends keeps
\* minimum_reserved_credits.
LenderKeepsReserve ==
    \A u \in Users \ Authors : db[u].month = 0 => Limit + flow[u] >= Floor[u]

\* Every month is allocated once, whichever request gets to it first.
AllocatedOnce == \A u \in Users : grants[u] = 1 + db[u].month

\* monthly_spent of an AI account only grows.
AccountSpendGrows == [][\A u \in Users : spent'[u] >= spent[u]]_vars
=============================================================================
