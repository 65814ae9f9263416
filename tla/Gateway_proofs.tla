-------------------------- MODULE Gateway_proofs --------------------------
(***************************************************************************)
(* Proofs about Gateway, for any number of members and requests, any       *)
(* limits, estimates and costs, with month ends, faults and deadlocks.     *)
(*                                                                         *)
(* Whatever requests overlap: CreditInv is an inductive invariant, no      *)
(* member lends more than its share, no loan is committed below the        *)
(* lender's reserve, the ledger implements CreditBook, and every balance   *)
(* below zero has its cause.  While they do not overlap: the balances      *)
(* cover the ledger, a lender keeps its reserve, every month is allocated  *)
(* once, and the spending of an account only grows.                        *)
(***************************************************************************)
EXTENDS Gateway, FiniteSetTheorems, TLAPS

(***************************************************************************)
(* Rows.                                                                   *)
(***************************************************************************)
\* What an UPDATE leaves in a row.
LEMMA OverwriteFacts ==
  ASSUME NEW t \in Budget, NEW o \in Budget, NEW n \in Budget
  PROVE  /\ Overwrite(t, o, n) \in Budget
         /\ Overwrite(t, o, n).month \in {t.month, n.month}
         /\ Overwrite(t, o, n).lent = IF n.lent # o.lent THEN n.lent ELSE t.lent
         /\ Overwrite(t, o, n).remaining
              = IF n.remaining # o.remaining THEN n.remaining ELSE t.remaining
BY DEF Overwrite, Newer, Budget

LEMMA BlankFacts ==
  /\ Blank \in Budget /\ Blank.month = 0 /\ Blank.lent = 0
  /\ \A m \in Nat : Allocated(m) \in Budget /\ Allocated(m).month = m /\ Allocated(m).lent = 0
BY BudgetsAssumption DEF Blank, Allocated, Budget

LEMMA CurrentFacts ==
  ASSUME NEW b \in Budget, NEW m \in Nat, b.month <= m
  PROVE  /\ Current(b, m) \in Budget
         /\ Current(b, m).month <= m
         /\ Current(b, m).lent \in {0, b.lent}
BY BlankFacts DEF Current, Due, Budget

LEMMA AdjustedFacts ==
  ASSUME NEW b \in Budget, NEW d \in Int
  PROVE  /\ Adjusted(b, d) \in Budget
         /\ Adjusted(b, d).month = b.month /\ Adjusted(b, d).lent = b.lent
<1>1. \A x \in Nat, y \in Int : [b EXCEPT !.remaining = y, !.used = x] \in Budget
  BY DEF Budget
<1>2. /\ b.remaining + d \in Int
      /\ (IF d > 0 THEN AtLeastZero(b.used - d) ELSE b.used - d) \in Nat
  BY DEF Budget, AtLeastZero
<1>3. Adjusted(b, d) \in Budget
  BY <1>1, <1>2 DEF Adjusted
<1>. QED
  BY <1>3 DEF Adjusted, Budget

LEMMA RowFacts ==
  ASSUME NEW b \in Budget, NEW a \in Nat
  PROVE  /\ Charged(b, a) \in Budget /\ Charged(b, a).month = b.month /\ Charged(b, a).lent = b.lent
         /\ Lends(b, a) \in Budget /\ Lends(b, a).month = b.month
         /\ Lends(b, a).lent = b.lent + a /\ Lends(b, a).remaining = b.remaining - a
         /\ Borrows(b, a) \in Budget /\ Borrows(b, a).month = b.month /\ Borrows(b, a).lent = b.lent
         /\ TakesBack(b, a) \in Budget /\ TakesBack(b, a).month = b.month
         /\ TakesBack(b, a).lent <= b.lent /\ TakesBack(b, a).remaining >= b.remaining
         /\ GivesBack(b, a) \in Budget /\ GivesBack(b, a).month = b.month
         /\ GivesBack(b, a).lent = b.lent
<1>1. \A x \in Nat, y \in Int :
        /\ [b EXCEPT !.used = x, !.remaining = y] \in Budget
        /\ [b EXCEPT !.remaining = y, !.lent = x] \in Budget
        /\ [b EXCEPT !.remaining = y, !.borrowed = x] \in Budget
  BY DEF Budget
<1>2. /\ b.used + a \in Nat /\ b.lent + a \in Nat /\ b.borrowed + a \in Nat
      /\ b.remaining - a \in Int /\ b.remaining + a \in Int
  BY DEF Budget
<1>3. /\ AtLeastZero(b.lent - a) \in Nat /\ AtLeastZero(b.lent - a) <= b.lent
      /\ AtLeastZero(b.borrowed - a) \in Nat /\ AtLeastZero(b.remaining - a) \in Int
  BY DEF Budget, AtLeastZero
<1>4. /\ Charged(b, a) \in Budget /\ Lends(b, a) \in Budget /\ Borrows(b, a) \in Budget
  BY <1>1, <1>2 DEF Charged, Lends, Borrows
<1>5. TakesBack(b, a) \in Budget /\ GivesBack(b, a) \in Budget
  BY <1>1, <1>2, <1>3 DEF TakesBack, GivesBack
<1>6. /\ Charged(b, a).month = b.month /\ Charged(b, a).lent = b.lent
      /\ Borrows(b, a).month = b.month /\ Borrows(b, a).lent = b.lent
      /\ GivesBack(b, a).month = b.month /\ GivesBack(b, a).lent = b.lent
  BY DEF Charged, Borrows, GivesBack, Budget
<1>7. /\ Lends(b, a).month = b.month
      /\ Lends(b, a).lent = b.lent + a /\ Lends(b, a).remaining = b.remaining - a
  BY DEF Lends, Budget
<1>8. /\ TakesBack(b, a).month = b.month
      /\ TakesBack(b, a).lent = AtLeastZero(b.lent - a) /\ TakesBack(b, a).remaining = b.remaining + a
  BY DEF TakesBack, Budget
<1>9. b.remaining + a >= b.remaining
  BY DEF Budget
<1>. QED
  BY <1>3, <1>4, <1>5, <1>6, <1>7, <1>8, <1>9

(***************************************************************************)
(* What a request knows of months.                                         *)
(***************************************************************************)
InTime(q) ==
  /\ q.mine.month <= month /\ q.today <= month
  /\ \A u \in Users : q.seen[u].month <= month

\* A step of a running request r that commits nothing: it turns to q, and may
\* lock rows nobody else holds and change rows it has locked.
LEMMA StepKeeps ==
  ASSUME CreditInv, NEW r \in Requests, NEW q \in Request,
         req' = [req EXCEPT ![r] = q],
         UNCHANGED <<db, flow, grants, spent, month>>,
         draft' \in [Users -> Budget], lock' \in [Users -> Requests \cup {Nobody}],
         \A u \in Users : lock'[u] = lock[u] \/ (CanWrite(r, u) /\ lock'[u] = r),
         \A u \in Users :
            \/ draft'[u] = draft[u]
            \/ /\ lock'[u] = r
               /\ draft'[u].month <= month
               /\ draft'[u].lent <= Share[u]
               /\ \/ draft'[u].lent <= db[u].lent
                  \/ u = q.lender /\ u \notin q.todo /\ draft'[u].remaining >= Floor[u],
         Running(q), InTime(q), Staged(q), Loaned(q), Netted(q),
         q.pc = "call" => lock'[q.author] = r,
         q.lender # NoUser => \A u \in {q.author, q.lender} \ q.todo : lock'[u] = r,
         req[r].lender # NoUser => q.lender = req[r].lender /\ q.todo \subseteq req[r].todo
  PROVE  CreditInv'
<1>1. \A s \in Requests : req'[s] = IF s = r THEN q ELSE req[s]
  BY DEF CreditInv, TypeOK
<1>2. TypeOK'
  BY DEF CreditInv, TypeOK
<1>3. MonthInv'
  BY <1>1 DEF CreditInv, MonthInv, InTime
<1>4. LockInv'
  <2>1. \A u \in Users : lock'[u] = Nobody => draft'[u] = db'[u]
    BY GatewayAssumption DEF CreditInv, LockInv, CanWrite
  <2>2. ASSUME NEW u \in Users, lock'[u] # Nobody PROVE Running(req'[lock'[u]])
    BY <1>1, <2>2 DEF CreditInv, LockInv, TypeOK, Active
  <2>. QED
    BY <2>1, <2>2 DEF LockInv, Active
<1>5. RequestInv'
  <2>1. ASSUME NEW s \in Requests PROVE (Staged(req[s]) /\ Loaned(req[s]) /\ Netted(req[s]))'
    <3>1. Staged(req'[s]) /\ Loaned(req'[s]) /\ Netted(req'[s])
      BY <1>1 DEF CreditInv, RequestInv
    <3>. QED
      BY <3>1 DEF Staged, Loaned, Netted, Running, Owed
  <2>. QED
    BY <2>1 DEF RequestInv
<1>6. CallHoldsRows'
  <2>1. ASSUME NEW s \in Requests, s # r, NEW u, lock[u] = s, u \in Users PROVE lock'[u] = s
    BY <2>1, GatewayAssumption DEF CanWrite
  <2>2. ASSUME NEW s \in Requests, s # r
        PROVE  /\ req[s].pc = "call" => lock'[req[s].author] = s
               /\ req[s].lender # NoUser =>
                    \A u \in {req[s].author, req[s].lender} \ req[s].todo : lock'[u] = s
    <3>1. req[s].pc = "call" => req[s].author \in Users
      BY DEF CreditInv, RequestInv, Staged, Running
    <3>2. req[s].lender # NoUser => req[s].author \in Users /\ req[s].lender \in Users
      BY DEF CreditInv, RequestInv, Staged, Running, TypeOK, Request, Loaned
    <3>. QED
      BY <2>1, <2>2, <3>1, <3>2 DEF CreditInv, CallHoldsRows, Holds
  <2>. QED
    BY <1>1, <2>2 DEF CallHoldsRows, Holds
<1>7. ShareInv'
  <2> SUFFICES ASSUME NEW u \in Users
               PROVE  /\ db[u].lent <= Share[u] /\ draft'[u].lent <= Share[u]
                      /\ draft'[u].lent > db[u].lent =>
                           /\ lock'[u] # Nobody
                           /\ u = req'[lock'[u]].lender /\ u \notin req'[lock'[u]].todo
                           /\ draft'[u].remaining >= Floor[u]
    BY DEF ShareInv
  <2>1. /\ db[u].lent \in Nat /\ draft'[u].lent \in Nat /\ r # Nobody
    BY GatewayAssumption DEF CreditInv, TypeOK, Budget
  <2>2. CASE draft'[u] = draft[u] /\ ~(draft[u].lent > db[u].lent)
    BY <2>2 DEF CreditInv, ShareInv
  <2>3. CASE draft'[u] = draft[u] /\ draft[u].lent > db[u].lent
    <3>1. /\ lock[u] \in Requests
          /\ u = req[lock[u]].lender /\ u \notin req[lock[u]].todo
          /\ draft[u].remaining >= Floor[u] /\ draft[u].lent <= Share[u] /\ db[u].lent <= Share[u]
      BY <2>3 DEF CreditInv, ShareInv, TypeOK
    <3>2. lock'[u] = lock[u]
      BY <3>1, GatewayAssumption DEF CanWrite
    <3>3. u # NoUser
      BY BudgetsAssumption DEF NoUser
    <3>. QED
      BY <1>1, GatewayAssumption, <2>1, <2>3, <3>1, <3>2, <3>3
  <2>4. CASE draft'[u] # draft[u]
    <3>1. lock'[u] = r /\ draft'[u].lent <= Share[u] /\ db[u].lent <= Share[u]
      BY <2>4 DEF CreditInv, ShareInv
    <3>2. \/ draft'[u].lent <= db[u].lent
          \/ u = q.lender /\ u \notin q.todo /\ draft'[u].remaining >= Floor[u]
      BY <2>4
    <3>3. req'[lock'[u]] = q
      BY <1>1, <3>1
    <3>. QED
      BY <2>1, <3>1, <3>2, <3>3
  <2>. QED
    BY <2>1, <2>2, <2>3, <2>4
<1>. QED
  BY <1>2, <1>3, <1>4, <1>5, <1>6, <1>7 DEF CreditInv

(***************************************************************************)
(* What CreditInv says of one request.                                     *)
(***************************************************************************)
LEMMA RequestFacts ==
  ASSUME CreditInv, NEW r \in Requests
  PROVE  /\ req[r] \in Request /\ InTime(req[r]) /\ month \in Nat
         /\ Staged(req[r]) /\ Loaned(req[r]) /\ Netted(req[r])
         /\ Active(r) => /\ req[r].author \in Users /\ req[r].est \in Estimates
                         /\ req[r].est \in Nat /\ req[r].est > 0
                         /\ AuthorRow(r) \in Budget /\ AuthorRow(r).month <= month
         /\ \A u \in Users : Visible(r, u) \in Budget /\ Visible(r, u).month <= month
<1>1. /\ req[r] \in Request /\ InTime(req[r]) /\ month \in Nat
      /\ Staged(req[r]) /\ Loaned(req[r]) /\ Netted(req[r])
  BY DEF CreditInv, TypeOK, MonthInv, InTime, RequestInv
<1>2. \A u \in Users : Visible(r, u) \in Budget /\ Visible(r, u).month <= month
  BY DEF CreditInv, TypeOK, MonthInv, Visible
<1>3. ASSUME Active(r)
      PROVE  /\ req[r].author \in Users /\ req[r].est \in Estimates
             /\ req[r].est \in Nat /\ req[r].est > 0
  <2>1. req[r].author \in Users /\ req[r].est \in Estimates
    BY <1>1, <1>3 DEF Active, Staged
  <2>2. req[r].est \in Nat \ {0}
    BY <2>1, GatewayAssumption
  <2>. QED
    BY <2>1, <2>2
<1>4. req[r].mine \in Budget /\ req[r].mine.month <= month
  BY <1>1 DEF Request, InTime
<1>5. ASSUME Active(r) PROVE AuthorRow(r) \in Budget /\ AuthorRow(r).month <= month
  BY <1>2, <1>3, <1>4, <1>5 DEF AuthorRow
<1>. QED
  BY <1>1, <1>2, <1>3, <1>5

\* A row that r may write, and that is not that of the loan it has made, lends
\* no more than is committed.
LEMMA WritableRow ==
  ASSUME CreditInv, NEW r \in Requests, NEW u \in Users, CanWrite(r, u),
         req[r].lender # u \/ u \in req[r].todo
  PROVE  /\ draft[u] \in Budget /\ draft[u].month <= month
         /\ draft[u].lent <= db[u].lent /\ draft[u].lent <= Share[u] /\ db[u].lent <= Share[u]
<1>1. /\ draft[u] \in Budget /\ db[u] \in Budget /\ draft[u].month <= month
      /\ draft[u].lent \in Nat /\ db[u].lent \in Nat
      /\ draft[u].lent <= Share[u] /\ db[u].lent <= Share[u]
  BY DEF CreditInv, TypeOK, MonthInv, ShareInv, Budget
<1>2. ~(draft[u].lent > db[u].lent)
  BY GatewayAssumption DEF CreditInv, ShareInv, LockInv, CanWrite
<1>. QED
  BY <1>1, <1>2

(***************************************************************************)
(* A step that ends request r: the rows it holds become those committed.   *)
(***************************************************************************)
LEMMA FinishedFacts ==
  ASSUME NEW r \in Requests, NEW out \in Outcomes \ {"none"}, month \in Nat
  PROVE  /\ Finished(r, out) \in Request /\ InTime(Finished(r, out))
         /\ Finished(r, out).out = out /\ Finished(r, out).pc = "done"
         /\ ~Running(Finished(r, out)) /\ Finished(r, out).lender = NoUser
         /\ Staged(Finished(r, out)) /\ Loaned(Finished(r, out)) /\ Netted(Finished(r, out))
<1> DEFINE q == Finished(r, out)
<1>1. /\ q = [NoRequest EXCEPT !.pc = "done", !.out = out]
  BY DEF Finished
<1>2. NoRequest \in Request /\ "done" \in Pcs /\ out \in Outcomes
  BY BlankFacts DEF NoRequest, Request, Pcs, Outcomes
<1>3. q \in Request
  BY <1>1, <1>2 DEF Request
<1>4. /\ q.out = out /\ q.pc = "done" /\ q.lender = NoUser /\ q.todo = {}
      /\ q.mine = Blank /\ q.seen = [u \in Users |-> Blank] /\ q.net = [u \in Users |-> 0]
      /\ q.today = 0
  BY <1>1 DEF NoRequest
<1>5. InTime(q)
  BY <1>4, BlankFacts DEF InTime
<1>6. ~Running(q)
  BY <1>4 DEF Running
<1>. HIDE DEF q
<1>7. Staged(q) /\ Loaned(q) /\ Netted(q)
  BY <1>4, <1>6 DEF Staged, Loaned, Netted
<1>. QED
  BY <1>3, <1>4, <1>5, <1>6, <1>7 DEF q

\* What the rows r leaves must be for CreditInv to survive their commit, and
\* for no loan to be committed below the lender's reserve.
GoodRow(u, row) ==
    /\ row \in Budget /\ row.month <= month /\ row.lent <= Share[u]
    /\ row.lent > db[u].lent => row.remaining >= Floor[u]

LEMMA EndKeeps ==
  ASSUME CreditInv, NEW r \in Requests, NEW out \in Outcomes \ {"none"},
         req' = [req EXCEPT ![r] = Finished(r, out)], lock' = Unlocked(r), month' = month,
         db' \in [Users -> Budget], draft' \in [Users -> Budget],
         flow' \in [Users -> Int], grants' \in [Users -> Nat], spent' \in [Users -> Nat],
         \A u \in Users :
            IF Holds(r, u) THEN db'[u] = draft'[u] /\ GoodRow(u, db'[u])
                           ELSE db'[u] = db[u] /\ draft'[u] = draft[u]
  PROVE  CreditInv'
<1> DEFINE q == Finished(r, out)
<1>1. /\ q \in Request /\ InTime(q) /\ q.pc = "done" /\ ~Running(q) /\ q.lender = NoUser
      /\ Staged(q) /\ Loaned(q) /\ Netted(q)
  BY FinishedFacts DEF CreditInv, TypeOK
<1>2. /\ \A s \in Requests : req'[s] = IF s = r THEN q ELSE req[s]
      /\ req' \in [Requests -> Request]
  BY <1>1 DEF CreditInv, TypeOK
<1>. HIDE DEF q
<1>3. \A u \in Users : lock'[u] = IF lock[u] = r THEN Nobody ELSE lock[u]
  BY DEF Unlocked, Holds
<1>4. TypeOK'
  <2>1. lock' \in [Users -> Requests \cup {Nobody}]
    BY DEF CreditInv, TypeOK, Unlocked
  <2>. QED
    BY <1>2, <2>1 DEF CreditInv, TypeOK
<1>5. MonthInv'
  <2>1. \A u \in Users : db'[u].month <= month /\ draft'[u].month <= month
    BY DEF CreditInv, MonthInv, GoodRow
  <2>2. \A s \in Requests :
          /\ req'[s].mine.month <= month /\ req'[s].today <= month
          /\ \A u \in Users : req'[s].seen[u].month <= month
    BY <1>1, <1>2 DEF CreditInv, MonthInv, InTime
  <2>. QED
    BY <2>1, <2>2 DEF MonthInv
<1>6. LockInv'
  <2>1. \A u \in Users : lock'[u] = Nobody => draft'[u] = db'[u]
    BY <1>3 DEF CreditInv, LockInv, Holds
  <2>2. ASSUME NEW u \in Users, lock'[u] # Nobody PROVE Running(req'[lock'[u]])
    BY <1>2, <1>3, <2>2 DEF CreditInv, LockInv, TypeOK, Active
  <2>. QED
    BY <2>1, <2>2 DEF LockInv, Active
<1>7. RequestInv'
  <2>1. ASSUME NEW s \in Requests PROVE (Staged(req[s]) /\ Loaned(req[s]) /\ Netted(req[s]))'
    <3>1. Staged(req'[s]) /\ Loaned(req'[s]) /\ Netted(req'[s])
      BY <1>1, <1>2 DEF CreditInv, RequestInv
    <3>. QED
      BY <3>1 DEF Staged, Loaned, Netted, Running, Owed
  <2>. QED
    BY <2>1 DEF RequestInv
<1>8. CallHoldsRows'
  <2>1. ASSUME NEW s \in Requests, s # r, NEW u \in Users, lock[u] = s PROVE lock'[u] = s
    BY <1>3, <2>1
  <2>2. ASSUME NEW s \in Requests, s # r
        PROVE  /\ req[s].pc = "call" => lock'[req[s].author] = s
               /\ req[s].lender # NoUser =>
                    \A u \in {req[s].author, req[s].lender} \ req[s].todo : lock'[u] = s
    <3>1. req[s].pc = "call" => req[s].author \in Users
      BY DEF CreditInv, RequestInv, Staged, Running
    <3>2. req[s].lender # NoUser => req[s].author \in Users /\ req[s].lender \in Users
      BY DEF CreditInv, RequestInv, Staged, Running, TypeOK, Request, Loaned
    <3>. QED
      BY <2>1, <2>2, <3>1, <3>2 DEF CreditInv, CallHoldsRows, Holds
  <2>. QED
    BY <1>1, <1>2, <2>2 DEF CallHoldsRows, Holds
<1>9. ShareInv'
  <2> SUFFICES ASSUME NEW u \in Users
               PROVE  /\ db'[u].lent <= Share[u] /\ draft'[u].lent <= Share[u]
                      /\ draft'[u].lent > db'[u].lent =>
                           /\ lock'[u] # Nobody
                           /\ u = req'[lock'[u]].lender /\ u \notin req'[lock'[u]].todo
                           /\ draft'[u].remaining >= Floor[u]
    BY DEF ShareInv
  <2>1. CASE Holds(r, u)
    BY <2>1, <1>4 DEF GoodRow, TypeOK, Budget
  <2>2. CASE ~Holds(r, u)
    <3>1. /\ db'[u] = db[u] /\ draft'[u] = draft[u] /\ lock'[u] = lock[u] /\ lock[u] # r
      BY <1>3, <2>2 DEF Holds
    <3>2. lock[u] # Nobody => req'[lock[u]] = req[lock[u]]
      BY <1>2, <3>1 DEF CreditInv, TypeOK
    <3>. QED
      BY <3>1, <3>2 DEF CreditInv, ShareInv
  <2>. QED
    BY <2>1, <2>2
<1>. QED
  BY <1>4, <1>5, <1>6, <1>7, <1>8, <1>9 DEF CreditInv

\* Commit and Rollback keep CreditInv; a commit may come with other changes
\* of the spending of AI accounts.
LEMMA CommitKeeps ==
  ASSUME CreditInv, NEW r \in Requests, NEW out \in Outcomes \ {"none"},
         NEW rows, NEW net \in [Users -> Int], NEW allocs \in [Users -> Nat],
         Commit(r, out, rows, net, allocs), month' = month, spent' \in [Users -> Nat],
         \A u \in Users : Holds(r, u) => GoodRow(u, rows[u])
  PROVE  /\ CreditInv'
         /\ \A u \in Users : db'[u].lent > db[u].lent => db'[u].remaining >= Floor[u]
<1>1. /\ req' = [req EXCEPT ![r] = Finished(r, out)] /\ lock' = Unlocked(r)
      /\ db' = [u \in Users |-> IF Holds(r, u) THEN rows[u] ELSE db[u]]
      /\ draft' = [u \in Users |-> IF Holds(r, u) THEN rows[u] ELSE draft[u]]
      /\ flow' = [u \in Users |-> flow[u] + net[u]]
      /\ grants' = [u \in Users |-> grants[u] + allocs[u]]
  BY DEF Commit
<1>2. \A u \in Users : db[u] \in Budget /\ draft[u] \in Budget /\ db[u].lent \in Nat
  BY DEF CreditInv, TypeOK, Budget
<1>3. db' \in [Users -> Budget] /\ draft' \in [Users -> Budget]
  BY <1>1, <1>2 DEF GoodRow
<1>4. flow' \in [Users -> Int] /\ grants' \in [Users -> Nat]
  BY <1>1 DEF CreditInv, TypeOK
<1>5. \A u \in Users :
         IF Holds(r, u) THEN db'[u] = draft'[u] /\ GoodRow(u, db'[u])
                        ELSE db'[u] = db[u] /\ draft'[u] = draft[u]
  BY <1>1
<1>6. CreditInv'
  BY <1>1, <1>3, <1>4, <1>5, EndKeeps
<1>7. ASSUME NEW u \in Users, db'[u].lent > db[u].lent PROVE db'[u].remaining >= Floor[u]
  BY <1>2, <1>5, <1>7 DEF GoodRow
<1>. QED
  BY <1>6, <1>7

LEMMA RollbackKeeps ==
  ASSUME CreditInv, NEW r \in Requests, NEW out \in Outcomes \ {"none"}, Rollback(r, out)
  PROVE  CreditInv'
<1>1. /\ req' = [req EXCEPT ![r] = Finished(r, out)] /\ lock' = Unlocked(r)
      /\ draft' = [u \in Users |-> IF Holds(r, u) THEN db[u] ELSE draft[u]]
      /\ UNCHANGED <<db, flow, grants, spent, month>>
  BY DEF Rollback
<1>2. \A u \in Users : db[u] \in Budget /\ draft[u] \in Budget /\ db[u].lent \in Nat
  BY DEF CreditInv, TypeOK, Budget
<1>3. /\ db' \in [Users -> Budget] /\ draft' \in [Users -> Budget]
      /\ flow' \in [Users -> Int] /\ grants' \in [Users -> Nat] /\ spent' \in [Users -> Nat]
  BY <1>1, <1>2 DEF CreditInv, TypeOK
<1>4. \A u \in Users : GoodRow(u, db[u])
  BY <1>2 DEF CreditInv, MonthInv, ShareInv, GoodRow
<1>5. \A u \in Users :
         IF Holds(r, u) THEN db'[u] = draft'[u] /\ GoodRow(u, db'[u])
                        ELSE db'[u] = db[u] /\ draft'[u] = draft[u]
  BY <1>1, <1>4
<1>. QED
  BY <1>1, <1>3, <1>5, EndKeeps

\* A step in memory that neither charges nor lends.
LEMMA ThinkKeeps ==
  ASSUME CreditInv, NEW r \in Requests, NEW q \in Request, Think(r, q),
         Active(r), Running(q), req[r].pc # "call", q.pc # "call",
         q.author = req[r].author, q.est = req[r].est, q.lender = req[r].lender,
         q.todo = req[r].todo, q.net = req[r].net,
         InTime(q), Staged(q), Loaned(q)
  PROVE  CreditInv'
<1>1. /\ req' = [req EXCEPT ![r] = q]
      /\ UNCHANGED <<db, draft, lock, flow, grants, spent, month>>
  BY DEF Think
<1>2. Netted(q)
  BY RequestFacts DEF Netted, Owed, Active
<1>3. q.lender # NoUser => \A u \in {q.author, q.lender} \ q.todo : lock[u] = r
  BY DEF CreditInv, CallHoldsRows, Holds
<1>4. draft' \in [Users -> Budget] /\ lock' \in [Users -> Requests \cup {Nobody}]
  BY <1>1 DEF CreditInv, TypeOK
<1>. QED
  BY <1>1, <1>2, <1>3, <1>4, StepKeeps

\* Before a loan and a charge there is nothing in the ledger.
LEMMA OwesNothing ==
  ASSUME NEW q, NEW u \in Users, q.pc # "call", q.lender = NoUser
  PROVE  Owed(q, u) = 0
<1>1. u # NoUser
  BY BudgetsAssumption DEF NoUser
<1>. QED
  BY <1>1 DEF Owed

(***************************************************************************)
(* The steps in memory.                                                    *)
(***************************************************************************)
LEMMA NewMonthKeeps == CreditInv /\ NewMonth => CreditInv'
<1> SUFFICES ASSUME CreditInv, NewMonth PROVE CreditInv'
  OBVIOUS
<1>1. month' = month + 1 /\ UNCHANGED <<db, draft, lock, flow, grants, spent, req>>
  BY DEF NewMonth
<1>2. TypeOK'
  BY <1>1 DEF CreditInv, TypeOK
<1>3. MonthInv'
  <2>1. \A b \in Budget : b.month <= month => b.month <= month'
    BY <1>1 DEF CreditInv, TypeOK, Budget
  <2>2. /\ \A u \in Users : db[u] \in Budget /\ draft[u] \in Budget
        /\ \A r \in Requests : req[r].mine \in Budget /\ req[r].seen \in [Users -> Budget]
    BY DEF CreditInv, TypeOK, Request
  <2>3. \A r \in Requests : req'[r].today <= month'
    BY <1>1 DEF CreditInv, TypeOK, Request, MonthInv
  <2>. QED
    BY <1>1, <2>1, <2>2, <2>3 DEF CreditInv, MonthInv
<1>4. LockInv' /\ CallHoldsRows' /\ ShareInv'
  BY <1>1 DEF CreditInv, LockInv, CallHoldsRows, ShareInv, Active, Running, Holds
<1>5. RequestInv'
  BY <1>1 DEF CreditInv, RequestInv, Staged, Loaned, Netted, Running, Owed
<1>. QED
  BY <1>2, <1>3, <1>4, <1>5 DEF CreditInv

LEMMA BeginKeeps ==
  ASSUME CreditInv, NEW r \in Requests, NEW u \in Authors, NEW est \in Estimates,
         NEW hard \in HardModes, NEW borrows \in BorrowModes, Begin(r, u, est, hard, borrows)
  PROVE  CreditInv'
<1> DEFINE q0 == req[r]
           started == [q0 EXCEPT !.author = u, !.est = est, !.hard = hard, !.borrows = borrows]
           q == IF u \in Owners
                THEN [started EXCEPT !.pc = "quote", !.acct = u, !.monthly = spent[u]]
                ELSE [started EXCEPT !.pc = "route"]
<1>1. q0.pc = "idle" /\ Think(r, q)
  BY DEF Begin, At
<1>2. /\ q0 \in Request /\ InTime(q0) /\ Staged(q0) /\ Loaned(q0) /\ ~Running(q0)
  BY <1>1, RequestFacts DEF Running
<1>3. u \in Users /\ est \in Nat /\ hard \in BOOLEAN /\ borrows \in BOOLEAN /\ spent[u] \in Nat
  BY GatewayAssumption DEF CreditInv, TypeOK
<1>4. started \in Request
  BY <1>2, <1>3 DEF Request
<1>5. q \in Request
  <2>. HIDE DEF started
  <2>. QED
    BY <1>3, <1>4 DEF Request, Pcs
<1>6. /\ q.pc \in {"quote", "route"} /\ (q.pc = "quote" => q.acct = u)
      /\ q.author = u /\ q.est = est /\ q.hard = hard /\ q.out = q0.out
      /\ q.lender = q0.lender /\ q.todo = q0.todo /\ q.net = q0.net
      /\ q.mine = q0.mine /\ q.seen = q0.seen /\ q.today = q0.today
  BY <1>2 DEF Request
<1>. HIDE DEF q
<1>7. /\ Running(q) /\ q.pc # "call" /\ q.lender = NoUser /\ q.todo = {}
      /\ q.net = [v \in Users |-> 0] /\ q.out = "none"
  BY <1>1, <1>2, <1>6 DEF Running, Staged
<1>8. InTime(q) /\ Staged(q) /\ Loaned(q) /\ Netted(q)
  <2>1. InTime(q)
    BY <1>2, <1>6 DEF InTime
  <2>2. Staged(q)
    BY <1>3, <1>6, <1>7 DEF Staged
  <2>3. Loaned(q)
    BY <1>6, <1>7 DEF Loaned
  <2>4. Netted(q)
    <3>1. \A v \in Users : Owed(q, v) = 0
      BY <1>6, <1>7, OwesNothing
    <3>2. \A v \in Users : q.net[v] = 0
      BY <1>7
    <3>. QED
      BY <3>1, <3>2 DEF Netted
  <2>. QED
    BY <2>1, <2>2, <2>3, <2>4
<1>9. /\ req' = [req EXCEPT ![r] = q]
      /\ UNCHANGED <<db, draft, lock, flow, grants, spent, month>>
      /\ draft' \in [Users -> Budget] /\ lock' \in [Users -> Requests \cup {Nobody}]
  BY <1>1 DEF Think, CreditInv, TypeOK
<1>10. req[r].lender = NoUser
  BY <1>6, <1>7
<1>. QED
  BY <1>5, <1>7, <1>8, <1>9, <1>10, StepKeeps

LEMMA QuoteKeeps ==
  ASSUME CreditInv, NEW r \in Requests, Quote(r)
  PROVE  CreditInv'
<1> DEFINE q0 == req[r]
           q == [q0 EXCEPT !.pc = "check", !.mine = AuthorRow(r), !.kept = ~q0.hard,
                       !.today = month]
<1>1. q0.pc = "quote" /\ Think(r, q) /\ Active(r)
  BY DEF Quote, At, Active, Running
<1>2. /\ q0 \in Request /\ InTime(q0) /\ month \in Nat /\ Staged(q0) /\ Loaned(q0)
      /\ AuthorRow(r) \in Budget /\ AuthorRow(r).month <= month
  BY <1>1, RequestFacts
<1>3. q \in Request
  BY <1>2 DEF Request, Pcs
<1>4. /\ q.pc = "check" /\ q.mine = AuthorRow(r) /\ q.seen = q0.seen /\ q.out = q0.out
      /\ q.today = month
      /\ q.author = q0.author /\ q.est = q0.est /\ q.hard = q0.hard /\ q.acct = q0.acct
      /\ q.lender = q0.lender /\ q.todo = q0.todo /\ q.net = q0.net
  BY <1>2 DEF Request
<1>. HIDE DEF q
<1>5. InTime(q) /\ Staged(q) /\ Loaned(q) /\ Running(q)
  BY <1>1, <1>2, <1>4 DEF InTime, Staged, Loaned, Running, Active
<1>. QED
  BY <1>1, <1>3, <1>4, <1>5, ThinkKeeps

LEMMA CheckKeeps ==
  ASSUME CreditInv, NEW r \in Requests, Check(r)
  PROVE  CreditInv'
<1> DEFINE q0 == req[r]
           q == [q0 EXCEPT !.pc = "consume"]
<1>1. CASE Rollback(r, "402")
  BY <1>1, RollbackKeeps DEF Outcomes
<1>2. CASE Think(r, q)
  <2>1. q0.pc = "check" /\ Active(r)
    BY DEF Check, At, Active, Running
  <2>2. q0 \in Request /\ InTime(q0) /\ Staged(q0) /\ Loaned(q0)
    BY RequestFacts
  <2>3. q \in Request
    BY <2>2 DEF Request, Pcs
  <2>4. /\ q.pc = "consume" /\ q.mine = q0.mine /\ q.seen = q0.seen /\ q.out = q0.out
        /\ q.today = q0.today
        /\ q.author = q0.author /\ q.est = q0.est /\ q.hard = q0.hard /\ q.acct = q0.acct
        /\ q.lender = q0.lender /\ q.todo = q0.todo /\ q.net = q0.net
    BY <2>2 DEF Request
  <2>. HIDE DEF q
  <2>5. InTime(q) /\ Staged(q) /\ Loaned(q) /\ Running(q)
    BY <2>1, <2>2, <2>4 DEF InTime, Staged, Loaned, Running, Active
  <2>. QED
    BY <1>2, <2>1, <2>3, <2>4, <2>5, ThinkKeeps
<1>. QED
  BY <1>1, <1>2 DEF Check

LEMMA ConsumeKeeps ==
  ASSUME CreditInv, NEW r \in Requests, Consume(r)
  PROVE  CreditInv'
<1> DEFINE q0 == req[r]
           q == [q0 EXCEPT !.pc = "charge", !.mine = AuthorRow(r), !.today = month]
<1>1. q0.pc = "consume" /\ Think(r, q) /\ Active(r)
  BY DEF Consume, At, Active, Running
<1>2. /\ q0 \in Request /\ InTime(q0) /\ month \in Nat /\ Staged(q0) /\ Loaned(q0)
      /\ AuthorRow(r) \in Budget /\ AuthorRow(r).month <= month
  BY <1>1, RequestFacts
<1>3. q \in Request
  BY <1>2 DEF Request, Pcs
<1>4. /\ q.pc = "charge" /\ q.mine = AuthorRow(r) /\ q.seen = q0.seen /\ q.out = q0.out
      /\ q.today = month
      /\ q.author = q0.author /\ q.est = q0.est /\ q.hard = q0.hard /\ q.acct = q0.acct
      /\ q.lender = q0.lender /\ q.todo = q0.todo /\ q.net = q0.net
  BY <1>2 DEF Request
<1>. HIDE DEF q
<1>5. InTime(q) /\ Staged(q) /\ Loaned(q) /\ Running(q)
  BY <1>1, <1>2, <1>4 DEF InTime, Staged, Loaned, Running, Active
<1>. QED
  BY <1>1, <1>3, <1>4, <1>5, ThinkKeeps

\* Both readings of the lenders' rows: of every row that is looked at.
LEMMA ReadLendersKeeps ==
  ASSUME CreditInv, NEW r \in Requests, NEW pc, ReadLenders(r, pc),
         \/ req[r].pc = "route" /\ pc = "pick"
         \/ req[r].pc = "reserve" /\ pc = "match"
  PROVE  CreditInv'
<1> DEFINE q0 == req[r]
           look == Sharers \ {q0.author}
           seen == [u \in Users |-> IF u \in look THEN Visible(r, u) ELSE Blank]
           q == [q0 EXCEPT !.pc = pc, !.look = look, !.seen = seen, !.today = month]
<1>1. Think(r, q) /\ Active(r) /\ pc \in {"pick", "match"}
  BY DEF ReadLenders, Active, Running
<1>2. q0 \in Request /\ InTime(q0) /\ month \in Nat /\ Staged(q0) /\ Loaned(q0)
  BY RequestFacts
<1>3. look \in SUBSET Users /\ q0.author \notin look
  BY DEF Sharers
<1>4. /\ seen \in [Users -> Budget]
      /\ \A u \in Users : seen[u].month <= month
  BY RequestFacts, BlankFacts DEF CreditInv, TypeOK
<1>. HIDE DEF look, seen
<1>5. q \in Request
  BY <1>1, <1>2, <1>3, <1>4 DEF Request, Pcs
<1>6. /\ q.pc = pc /\ q.mine = q0.mine /\ q.seen = seen /\ q.look = look /\ q.out = q0.out
      /\ q.today = month
      /\ q.author = q0.author /\ q.est = q0.est /\ q.hard = q0.hard /\ q.acct = q0.acct
      /\ q.lender = q0.lender /\ q.todo = q0.todo /\ q.net = q0.net
  BY <1>2 DEF Request
<1>. HIDE DEF q
<1>7. InTime(q) /\ Staged(q) /\ Loaned(q) /\ Running(q)
  BY <1>1, <1>2, <1>3, <1>4, <1>6 DEF InTime, Staged, Loaned, Running, Active
<1>. QED
  BY <1>1, <1>5, <1>6, <1>7, ThinkKeeps

LEMMA PickKeeps ==
  ASSUME CreditInv, NEW r \in Requests, Pick(r)
  PROVE  CreditInv'
<1>1. PICK u \in Best(Providers(r), req[r].seen) :
        Think(r, [req[r] EXCEPT !.pc = "reserve", !.acct = u, !.monthly = spent[u]])
  BY DEF Pick
<1> DEFINE q0 == req[r]
           q == [q0 EXCEPT !.pc = "reserve", !.acct = u, !.monthly = spent[u]]
<1>2. q0.pc = "pick" /\ Think(r, q) /\ Active(r)
  BY <1>1 DEF Pick, At, Active, Running
<1>3. q0 \in Request /\ InTime(q0) /\ Staged(q0) /\ Loaned(q0)
  BY RequestFacts
<1>4. u \in Users /\ u # q0.author /\ spent[u] \in Nat
  <2>1. u \in q0.look /\ q0.look \subseteq Users
    BY <1>3 DEF Best, Providers, Request
  <2>. QED
    BY <1>2, <1>3, <2>1 DEF Staged, CreditInv, TypeOK
<1>5. q \in Request
  BY <1>3, <1>4 DEF Request, Pcs
<1>6. /\ q.pc = "reserve" /\ q.mine = q0.mine /\ q.seen = q0.seen /\ q.out = q0.out
      /\ q.today = q0.today
      /\ q.author = q0.author /\ q.est = q0.est /\ q.hard = q0.hard /\ q.acct = u
      /\ q.lender = q0.lender /\ q.todo = q0.todo /\ q.net = q0.net
  BY <1>3 DEF Request
<1>. HIDE DEF q
<1>7. InTime(q) /\ Staged(q) /\ Loaned(q) /\ Running(q)
  BY <1>2, <1>3, <1>4, <1>6 DEF InTime, Staged, Loaned, Running, Active
<1>. QED
  BY <1>2, <1>5, <1>6, <1>7, ThinkKeeps

\* A lender is chosen: it is another member, and the loan fits its row as read.
LEMMA MatchKeeps ==
  ASSUME CreditInv, NEW r \in Requests, Match(r)
  PROVE  CreditInv'
<1>1. PICK u \in Best(Lenders(r), req[r].seen) :
        Think(r, [req[r] EXCEPT !.pc = "lend", !.lender = u, !.mine = AuthorRow(r),
                                !.today = month, !.todo = {u, req[r].author}])
  BY DEF Match
<1> DEFINE q0 == req[r]
           q == [q0 EXCEPT !.pc = "lend", !.lender = u, !.mine = AuthorRow(r),
                           !.today = month, !.todo = {u, q0.author}]
<1>2. q0.pc = "match" /\ Think(r, q) /\ Active(r)
  BY <1>1 DEF Match, At, Active, Running
<1>3. /\ q0 \in Request /\ InTime(q0) /\ month \in Nat /\ Staged(q0) /\ Loaned(q0) /\ Netted(q0)
      /\ AuthorRow(r) \in Budget /\ AuthorRow(r).month <= month /\ q0.author \in Users
  BY <1>2, RequestFacts
<1>4. u \in Users /\ u # q0.author /\ CanLend(u, q0.seen[u], q0.est) /\ u # NoUser
  <2>1. u \in q0.look /\ q0.look \subseteq Users /\ CanLend(u, q0.seen[u], q0.est)
    BY <1>3 DEF Best, Lenders, Request
  <2>. QED
    BY <1>2, <1>3, <2>1, BudgetsAssumption DEF Staged, NoUser
<1>5. q \in Request
  BY <1>3, <1>4 DEF Request, Pcs
<1>6. /\ q.pc = "lend" /\ q.mine = AuthorRow(r) /\ q.seen = q0.seen /\ q.out = q0.out
      /\ q.today = month
      /\ q.author = q0.author /\ q.est = q0.est /\ q.hard = q0.hard /\ q.acct = q0.acct
      /\ q.lender = u /\ q.todo = {u, q0.author} /\ q.net = q0.net
  BY <1>3 DEF Request
<1>. HIDE DEF q
<1>7. q0.lender = NoUser
  BY <1>2, <1>3 DEF Loaned
<1>8. InTime(q) /\ Staged(q) /\ Loaned(q) /\ Running(q)
  BY <1>2, <1>3, <1>4, <1>6 DEF InTime, Staged, Loaned, Running, Active
<1>9. Netted(q)
  <2>1. \A v \in Users : Owed(q, v) = 0
    BY <1>4, <1>6 DEF Owed
  <2>2. \A v \in Users : Owed(q0, v) = 0
    BY <1>2, <1>7, OwesNothing
  <2>. QED
    BY <1>2, <1>3, <1>6, <2>1, <2>2 DEF Netted, Active
<1>10. /\ req' = [req EXCEPT ![r] = q]
       /\ UNCHANGED <<db, draft, lock, flow, grants, spent, month>>
       /\ draft' \in [Users -> Budget] /\ lock' \in [Users -> Requests \cup {Nobody}]
  BY <1>2 DEF Think, CreditInv, TypeOK
<1>11. q.pc # "call" /\ {q.author, q.lender} \ q.todo = {}
  BY <1>6
<1>. QED
  BY <1>5, <1>7, <1>8, <1>9, <1>10, <1>11, StepKeeps

(***************************************************************************)
(* The steps that write rows.                                              *)
(***************************************************************************)
\* A write of a row that is not that of the loan made, and that lends no more
\* for it.
LEMMA WriteFacts ==
  ASSUME CreditInv, NEW r \in Requests, NEW u \in Users,
         NEW old \in Budget, NEW new \in Budget, Write(r, u, old, new),
         req[r].lender # u \/ u \in req[r].todo,
         new.month <= month
  PROVE  /\ draft' \in [Users -> Budget] /\ lock' \in [Users -> Requests \cup {Nobody}]
         /\ lock'[u] = r /\ CanWrite(r, u)
         /\ \A v \in Users \ {u} : draft'[v] = draft[v] /\ lock'[v] = lock[v]
         /\ draft'[u].month <= month
         /\ new.lent \in {0, old.lent} =>
              draft'[u].lent <= db[u].lent /\ draft'[u].lent <= Share[u]
         /\ new.lent # old.lent => draft'[u].lent = new.lent
         /\ new.remaining # old.remaining => draft'[u].remaining = new.remaining
<1>1. /\ CanWrite(r, u) /\ lock' = [lock EXCEPT ![u] = r]
      /\ draft' = [draft EXCEPT ![u] = Overwrite(draft[u], old, new)]
  BY DEF Write
<1>2. /\ draft[u] \in Budget /\ draft[u].month <= month
      /\ draft[u].lent <= db[u].lent /\ draft[u].lent <= Share[u]
  BY <1>1, WritableRow
<1>3. /\ Overwrite(draft[u], old, new) \in Budget
      /\ Overwrite(draft[u], old, new).month \in {draft[u].month, new.month}
      /\ Overwrite(draft[u], old, new).lent
           = IF new.lent # old.lent THEN new.lent ELSE draft[u].lent
      /\ Overwrite(draft[u], old, new).remaining
           = IF new.remaining # old.remaining THEN new.remaining ELSE draft[u].remaining
  BY <1>2, OverwriteFacts
<1>4. /\ draft \in [Users -> Budget] /\ lock \in [Users -> Requests \cup {Nobody}]
      /\ db[u].lent \in Nat /\ Share[u] \in Nat
  BY BudgetsAssumption DEF CreditInv, TypeOK, Budget
<1>5. draft' \in [Users -> Budget] /\ lock' \in [Users -> Requests \cup {Nobody}]
  BY <1>1, <1>3, <1>4
<1>6. /\ lock'[u] = r /\ draft'[u] = Overwrite(draft[u], old, new)
      /\ \A v \in Users \ {u} : draft'[v] = draft[v] /\ lock'[v] = lock[v]
  BY <1>1, <1>4
<1>. QED
  BY <1>1, <1>2, <1>3, <1>4, <1>5, <1>6

\* Request r writes the row of u and no other, and leaves it within its share.
Wrote(r, u) ==
  /\ draft' \in [Users -> Budget] /\ lock' \in [Users -> Requests \cup {Nobody}]
  /\ lock'[u] = r /\ CanWrite(r, u)
  /\ \A v \in Users \ {u} : draft'[v] = draft[v] /\ lock'[v] = lock[v]
  /\ draft'[u].month <= month
  /\ draft'[u].lent <= db[u].lent /\ draft'[u].lent <= Share[u]

\* Such a step of a running request.
LEMMA WroteKeeps ==
  ASSUME CreditInv, NEW r \in Requests, NEW u \in Users, NEW q \in Request,
         req' = [req EXCEPT ![r] = q],
         UNCHANGED <<db, flow, grants, spent, month>>,
         Wrote(r, u),
         Running(q), InTime(q), Staged(q), Loaned(q), Netted(q),
         q.pc = "call" => q.author = u,
         q.lender = req[r].lender, q.todo = req[r].todo,
         q.lender # NoUser => \A v \in {q.author, q.lender} \ q.todo : v \in Users /\ lock[v] = r
  PROVE  CreditInv'
<1>1. /\ draft' \in [Users -> Budget] /\ lock' \in [Users -> Requests \cup {Nobody}]
      /\ lock'[u] = r
  BY DEF Wrote
<1>2. \A v \in Users : lock'[v] = lock[v] \/ (CanWrite(r, v) /\ lock'[v] = r)
  BY DEF Wrote
<1>3. \A v \in Users :
        \/ draft'[v] = draft[v]
        \/ /\ lock'[v] = r
           /\ draft'[v].month <= month
           /\ draft'[v].lent <= Share[v]
           /\ \/ draft'[v].lent <= db[v].lent
              \/ v = q.lender /\ v \notin q.todo /\ draft'[v].remaining >= Floor[v]
  BY DEF Wrote
<1>4. q.lender # NoUser => \A v \in {q.author, q.lender} \ q.todo : lock'[v] = r
  <2>1. \A v \in Users : lock[v] = r => lock'[v] = r
    BY <1>1 DEF Wrote
  <2>. QED
    BY <2>1
<1>5. q.pc = "call" => lock'[q.author] = r
  BY <1>1
<1>. QED
  BY <1>1, <1>2, <1>3, <1>4, <1>5, StepKeeps

LEMMA GrantFacts ==
  ASSUME CreditInv, NEW r \in Requests, NEW u \in Users, NEW b \in Budget,
         NEW m \in Nat, b.month <= m
  PROVE  Grant(r, u, b, m) \in [Users -> Nat]
<1>1. b.month \in Nat /\ m - b.month \in Nat
  BY DEF Budget
<1>2. req[r].allocs \in [Users -> Nat]
  BY RequestFacts DEF Request
<1>. QED
  BY <1>1, <1>2 DEF Grant

LEMMA RenewLenderKeeps ==
  ASSUME CreditInv, NEW r \in Requests, RenewLender(r)
  PROVE  CreditInv'
<1>1. PICK u \in DueLenders(r) :
        /\ Write(r, u, req[r].seen[u], Allocated(req[r].today))
        /\ req' = [req EXCEPT ![r] = [@ EXCEPT
               !.seen[u] = Allocated(req[r].today),
               !.allocs = Grant(r, u, req[r].seen[u], req[r].today)]]
  BY DEF RenewLender
<1> DEFINE q0 == req[r]
           seen == [q0.seen EXCEPT ![u] = Allocated(q0.today)]
           q == [q0 EXCEPT !.seen = seen, !.allocs = Grant(r, u, q0.seen[u], q0.today)]
<1>2. q0.pc \in {"pick", "match"} /\ u \in q0.look /\ q0.seen[u].month < q0.today /\ Active(r)
  BY DEF DueLenders, Active, Running, Due
<1>3. q0 \in Request /\ InTime(q0) /\ Staged(q0) /\ Loaned(q0) /\ Netted(q0)
  BY RequestFacts
<1>4. /\ u \in Users /\ q0.seen \in [Users -> Budget] /\ q0.seen[u].month <= month
      /\ month \in Nat /\ q0.today \in Nat /\ q0.today <= month /\ q0.lender = NoUser /\ u # NoUser
  BY <1>2, <1>3, BudgetsAssumption DEF Request, InTime, CreditInv, TypeOK, Loaned, NoUser
<1>5. /\ Allocated(q0.today) \in Budget /\ Allocated(q0.today).month = q0.today
      /\ Allocated(q0.today).lent = 0
  BY <1>4, BlankFacts
<1>6. /\ seen \in [Users -> Budget]
      /\ \A v \in Users : seen[v].month <= month
  BY <1>3, <1>4, <1>5 DEF InTime
<1>7. Grant(r, u, q0.seen[u], q0.today) \in [Users -> Nat]
  <2>1. /\ q0.seen[u] \in Budget /\ q0.seen[u].month \in Nat
        /\ q0.seen[u].month <= q0.today
    BY <1>2, <1>4 DEF Budget
  <2>. HIDE DEF q0
  <2>. QED
    BY <1>4, <2>1, GrantFacts
<1>8. q \in Request
  BY <1>3, <1>6, <1>7 DEF Request
<1>9. /\ q.pc = q0.pc /\ q.mine = q0.mine /\ q.seen = seen /\ q.out = q0.out /\ q.look = q0.look
      /\ q.today = q0.today
      /\ q.author = q0.author /\ q.est = q0.est /\ q.hard = q0.hard /\ q.acct = q0.acct
      /\ q.lender = q0.lender /\ q.todo = q0.todo /\ q.net = q0.net
  BY <1>3 DEF Request
<1>10. req' = [req EXCEPT ![r] = q]
  BY <1>1
<1>. HIDE DEF q, seen
<1>11. InTime(q) /\ Staged(q) /\ Loaned(q) /\ Running(q) /\ q.pc # "call"
  BY <1>2, <1>3, <1>4, <1>6, <1>9 DEF InTime, Staged, Loaned, Running, Active
<1>12. Netted(q)
  BY <1>2, <1>3, <1>4, <1>9, <1>11, OwesNothing DEF Netted, Active
<1>13. Wrote(r, u)
  BY <1>1, <1>4, <1>5, WriteFacts DEF Budget, Wrote
<1>14. UNCHANGED <<db, flow, grants, spent, month>>
  BY DEF RenewLender
<1>. QED
  <2>1. q.lender = q0.lender /\ q.todo = q0.todo /\ q.lender = NoUser
    BY <1>4, <1>9
  <2>. QED
    BY <1>4, <1>8, <1>10, <1>11, <1>12, <1>13, <1>14, <2>1, WroteKeeps

LEMMA RenewAuthorKeeps ==
  ASSUME CreditInv, NEW r \in Requests, RenewAuthor(r)
  PROVE  CreditInv'
<1> DEFINE q0 == req[r]
           u == q0.author
           q == [q0 EXCEPT !.mine = Allocated(q0.today), !.allocs = Grant(r, u, q0.mine, q0.today)]
<1>1. /\ Write(r, u, q0.mine, Allocated(q0.today))
      /\ req' = [req EXCEPT ![r] = q]
      /\ UNCHANGED <<db, flow, grants, spent, month>>
  BY DEF RenewAuthor
<1>2. q0.pc \in {"check", "lend", "charge"} /\ q0.mine.month < q0.today /\ Active(r)
  BY DEF RenewAuthor, DueAuthor, Active, Running, Due
<1>3. /\ q0 \in Request /\ InTime(q0) /\ Staged(q0) /\ Loaned(q0) /\ Netted(q0)
      /\ u \in Users
  BY <1>2, RequestFacts
<1>4. /\ q0.mine \in Budget /\ q0.mine.month <= month /\ month \in Nat /\ q0.today \in Nat /\ q0.today <= month
      /\ q0.lender # u
  <2>1. u # NoUser
    BY <1>3, BudgetsAssumption DEF NoUser
  <2>. QED
    BY <1>3, <2>1 DEF Request, InTime, CreditInv, TypeOK, Loaned
<1>5. /\ Allocated(q0.today) \in Budget /\ Allocated(q0.today).month = q0.today
      /\ Allocated(q0.today).lent = 0
  BY <1>4, BlankFacts
<1>6. Grant(r, u, q0.mine, q0.today) \in [Users -> Nat]
  <2>1. q0.mine.month \in Nat /\ q0.mine.month <= q0.today
    BY <1>2, <1>4 DEF Budget
  <2>. HIDE DEF q0
  <2>. QED
    BY <1>3, <1>4, <2>1, GrantFacts
<1>7. q \in Request
  BY <1>3, <1>5, <1>6 DEF Request
<1>8. /\ q.pc = q0.pc /\ q.mine = Allocated(q0.today) /\ q.seen = q0.seen /\ q.out = q0.out
      /\ q.today = q0.today /\ q.look = q0.look
      /\ q.author = q0.author /\ q.est = q0.est /\ q.hard = q0.hard /\ q.acct = q0.acct
      /\ q.lender = q0.lender /\ q.todo = q0.todo /\ q.net = q0.net
  BY <1>3 DEF Request
<1>. HIDE DEF q
<1>9. InTime(q) /\ Staged(q) /\ Loaned(q) /\ Running(q) /\ q.pc # "call"
  BY <1>2, <1>3, <1>4, <1>5, <1>8 DEF InTime, Staged, Loaned, Running, Active
<1>10. Netted(q)
  BY <1>2, <1>3, <1>8 DEF Netted, Owed, Active
<1>11. Wrote(r, u)
  BY <1>1, <1>3, <1>4, <1>5, WriteFacts DEF Budget, Wrote
<1>12. q.lender # NoUser => \A v \in {q.author, q.lender} \ q.todo : v \in Users /\ lock[v] = r
  BY <1>3, <1>8 DEF CreditInv, CallHoldsRows, Holds, Request
<1>13. q.lender = q0.lender /\ q.todo = q0.todo /\ (q.pc = "call" => q.author = u)
  BY <1>8
<1>. QED
  BY <1>1, <1>3, <1>7, <1>9, <1>10, <1>11, <1>12, <1>13, WroteKeeps

LEMMA ChargeKeeps ==
  ASSUME CreditInv, NEW r \in Requests, Charge(r)
  PROVE  CreditInv'
<1> DEFINE q0 == req[r]
           u == q0.author
           new == Charged(q0.mine, q0.est)
           net == Posted(r, u, -q0.est)
           q == [q0 EXCEPT !.pc = "call", !.mine = new, !.net = net]
<1>1. /\ Write(r, u, q0.mine, new)
      /\ req' = [req EXCEPT ![r] = q]
      /\ UNCHANGED <<db, flow, grants, spent, month>>
  BY DEF Charge
<1>2. q0.pc = "charge" /\ Active(r)
  BY DEF Charge, At, Active, Running
<1>3. /\ q0 \in Request /\ InTime(q0) /\ Staged(q0) /\ Loaned(q0) /\ Netted(q0)
      /\ u \in Users /\ q0.est \in Nat
  BY <1>2, RequestFacts
<1>4. /\ q0.mine \in Budget /\ q0.mine.month <= month /\ q0.lender # u
      /\ q0.todo = {} /\ q0.net \in [Users -> Int]
  <2>1. u # NoUser
    BY <1>3, BudgetsAssumption DEF NoUser
  <2>. QED
    BY <1>2, <1>3, <2>1 DEF Request, InTime, Loaned, Staged
<1>5. new \in Budget /\ new.month = q0.mine.month /\ new.lent = q0.mine.lent
  BY <1>3, <1>4, RowFacts
<1>6. net = [q0.net EXCEPT ![u] = q0.net[u] - q0.est] /\ net \in [Users -> Int]
  BY <1>3, <1>4 DEF Posted
<1>. HIDE DEF new, net
<1>7. q \in Request
  BY <1>3, <1>5, <1>6 DEF Request, Pcs
<1>8. /\ q.pc = "call" /\ q.mine = new /\ q.seen = q0.seen /\ q.out = q0.out
      /\ q.today = q0.today /\ q.look = q0.look
      /\ q.author = q0.author /\ q.est = q0.est /\ q.hard = q0.hard /\ q.acct = q0.acct
      /\ q.lender = q0.lender /\ q.todo = q0.todo /\ q.net = net
  BY <1>3 DEF Request
<1>. HIDE DEF q
<1>9. InTime(q) /\ Staged(q) /\ Loaned(q) /\ Running(q)
  BY <1>2, <1>3, <1>4, <1>5, <1>8 DEF InTime, Staged, Loaned, Running, Active
<1>10. Netted(q)
  <2>1. \A v \in Users : Owed(q, v) = IF v = u THEN Owed(q0, v) - q0.est ELSE Owed(q0, v)
    BY <1>2, <1>3, <1>4, <1>8, BudgetsAssumption DEF Owed, NoUser
  <2>2. \A v \in Users : q0.net[v] = Owed(q0, v)
    BY <1>2, <1>3 DEF Netted, Active
  <2>. QED
    BY <1>4, <1>6, <1>8, <2>1, <2>2 DEF Netted
<1>11. Wrote(r, u)
  BY <1>1, <1>3, <1>4, <1>5, WriteFacts DEF Wrote
<1>12. q.lender # NoUser => \A v \in {q.author, q.lender} \ q.todo : v \in Users /\ lock[v] = r
  BY <1>3, <1>8 DEF CreditInv, CallHoldsRows, Holds, Request
<1>13. q.lender = q0.lender /\ q.todo = q0.todo /\ (q.pc = "call" => q.author = u)
  BY <1>8
<1>. QED
  BY <1>1, <1>3, <1>7, <1>9, <1>10, <1>11, <1>12, <1>13, WroteKeeps

\* A request stays one when its handler sets one of its fields: where it stands,
LEMMA SetPc ==
  ASSUME NEW q \in Request, NEW x \in Pcs
  PROVE  [q EXCEPT !.pc = x] \in Request
BY ZenonT(60) DEF Request

\* the rows left to write,
LEMMA SetTodo ==
  ASSUME NEW q \in Request, NEW x \in SUBSET Users
  PROVE  [q EXCEPT !.todo = x] \in Request
BY ZenonT(60) DEF Request

\* the author's row as it has read it,
LEMMA SetMine ==
  ASSUME NEW q \in Request, NEW x \in Budget
  PROVE  [q EXCEPT !.mine = x] \in Request
BY ZenonT(60) DEF Request

\* and what it has posted.
LEMMA SetNet ==
  ASSUME NEW q \in Request, NEW x \in [Users -> Int]
  PROVE  [q EXCEPT !.net = x] \in Request
BY ZenonT(60) DEF Request

\* A loan is written, one row after the other.
LEMMA LendKeeps ==
  ASSUME CreditInv, NEW r \in Requests, Lend(r)
  PROVE  CreditInv'
<1> DEFINE q0 == req[r]
           u == Least(q0.todo)
           old == IF u = q0.lender THEN q0.seen[u] ELSE q0.mine
           new == IF u = q0.lender THEN Lends(old, q0.est) ELSE Borrows(old, q0.est)
           pc == IF q0.todo = {u} THEN "consume" ELSE "lend"
           mine == IF u = q0.author THEN new ELSE q0.mine
           net == Posted(r, u, IF u = q0.lender THEN -q0.est ELSE q0.est)
           q == [q0 EXCEPT !.pc = pc, !.todo = q0.todo \ {u}, !.mine = mine, !.net = net]
<1>1. /\ Write(r, u, old, new)
      /\ req' = [req EXCEPT ![r] = q]
      /\ UNCHANGED <<db, flow, grants, spent, month>>
  BY DEF Lend
<1>2. q0.pc = "lend" /\ Active(r)
  BY DEF Lend, At, Active, Running
<1>3. /\ q0 \in Request /\ InTime(q0) /\ Staged(q0) /\ Loaned(q0) /\ Netted(q0)
      /\ q0.author \in Users /\ q0.est \in Nat /\ q0.est > 0
  BY <1>2, RequestFacts
<1>4. /\ q0.lender \in Users /\ q0.lender # NoUser /\ q0.lender # q0.author
      /\ q0.todo # {} /\ q0.todo \subseteq {q0.author, q0.lender}
      /\ q0.lender \in q0.todo => CanLend(q0.lender, q0.seen[q0.lender], q0.est)
  BY <1>2, <1>3 DEF Loaned, Staged, Request
<1>5. u \in q0.todo /\ u \in Users /\ u \in {q0.author, q0.lender}
  <2>1. q0.author \in Nat /\ q0.lender \in Nat
    BY <1>3, <1>4, BudgetsAssumption
  <2>2. \E v \in q0.todo : \A w \in q0.todo : v <= w
    BY <1>4, <2>1
  <2>3. u \in q0.todo
    BY <2>2 DEF Least
  <2>. QED
    BY <1>3, <1>4, <2>3
<1>. HIDE DEF u
<1>6. /\ q0.mine \in Budget /\ q0.mine.month <= month
      /\ q0.seen[u] \in Budget /\ q0.seen[u].month <= month
      /\ q0.net \in [Users -> Int]
  BY <1>3, <1>5 DEF Request, InTime
<1>7. old \in Budget /\ new \in Budget /\ old.month <= month /\ new.month <= month
  BY <1>3, <1>6, RowFacts
<1>8. u # q0.lender => new.lent = old.lent
  BY <1>3, <1>6, RowFacts
<1>9. u = q0.lender => /\ new.lent = old.lent + q0.est /\ new.lent # old.lent
                       /\ new.remaining = old.remaining - q0.est /\ new.remaining # old.remaining
                       /\ new.lent <= Share[u] /\ new.remaining >= Floor[u]
  <2> SUFFICES ASSUME u = q0.lender
               PROVE  /\ new.lent = old.lent + q0.est /\ new.lent # old.lent
                      /\ new.remaining = old.remaining - q0.est /\ new.remaining # old.remaining
                      /\ new.lent <= Share[u] /\ new.remaining >= Floor[u]
    OBVIOUS
  <2>1. new.lent = old.lent + q0.est /\ new.remaining = old.remaining - q0.est
    BY <1>3, <1>6, RowFacts
  <2>2. CanLend(u, old, q0.est) /\ old.lent \in Nat /\ old.remaining \in Int
    BY <1>4, <1>5, <1>6 DEF Budget
  <2>3. Share[u] \in Nat /\ Floor[u] \in Nat
    BY <1>5, BudgetsAssumption
  <2>. QED
    BY <1>3, <2>1, <2>2, <2>3 DEF CanLend, Capacity
<1>10. /\ net \in [Users -> Int]
       /\ net = [q0.net EXCEPT ![u] = q0.net[u] + (IF u = q0.lender THEN -q0.est ELSE q0.est)]
  <2>1. \A d \in Int : Posted(r, u, d) \in [Users -> Int]
    BY <1>5, <1>6 DEF Posted
  <2>2. (IF u = q0.lender THEN -q0.est ELSE q0.est) \in Int
    BY <1>3
  <2>3. net \in [Users -> Int]
    BY <2>1, <2>2
  <2>. QED
    BY <2>3, Zenon DEF Posted
<1>11. mine \in Budget /\ mine.month <= month /\ pc \in {"lend", "consume"}
       /\ (pc = "lend" <=> q0.todo \ {u} # {})
  BY <1>2, <1>4, <1>5, <1>6, <1>7
<1>. HIDE DEF old, new, mine, net, pc
<1>12. q \in Request
  <2>1. pc \in Pcs /\ q0.todo \ {u} \in SUBSET Users
    BY <1>3, <1>11 DEF Pcs, Request
  <2>2. [q0 EXCEPT !.pc = pc, !.todo = q0.todo \ {u}] \in Request
    BY <1>3, <2>1, SetPc, SetTodo, Zenon
  <2>. QED
    BY <1>10, <1>11, <2>2, SetMine, SetNet, Zenon
<1>13. /\ q.pc = pc /\ q.mine = mine /\ q.seen = q0.seen /\ q.today = q0.today /\ q.out = q0.out
       /\ q.look = q0.look
       /\ q.author = q0.author /\ q.est = q0.est /\ q.hard = q0.hard /\ q.acct = q0.acct
       /\ q.lender = q0.lender /\ q.todo = q0.todo \ {u} /\ q.net = net
  BY <1>3 DEF Request
<1>. HIDE DEF q
<1>14. InTime(q) /\ Running(q)
  BY <1>3, <1>11, <1>13 DEF InTime, Running
<1>15. Staged(q) /\ Loaned(q)
  BY <1>2, <1>3, <1>4, <1>11, <1>13 DEF Staged, Loaned, Active, Running
<1>16. Netted(q)
  <2>1. q.pc # "call" /\ u # NoUser
    BY <1>5, <1>11, <1>13, BudgetsAssumption DEF NoUser
  <2>2. \A v \in Users : v # u => Owed(q, v) = Owed(q0, v)
    BY <1>2, <1>13, <2>1 DEF Owed
  <2>3. /\ Owed(q0, u) = 0
        /\ Owed(q, u) = IF u = q0.lender THEN -q0.est ELSE q0.est
    BY <1>2, <1>3, <1>4, <1>5, <1>13, <2>1 DEF Owed
  <2>4. \A v \in Users : q0.net[v] = Owed(q0, v)
    BY <1>2, <1>3 DEF Netted, Active
  <2>. QED
    BY <1>3, <1>5, <1>6, <1>10, <1>13, <2>2, <2>3, <2>4 DEF Netted
<1>17. /\ draft' \in [Users -> Budget] /\ lock' \in [Users -> Requests \cup {Nobody}]
       /\ lock'[u] = r /\ CanWrite(r, u)
       /\ \A v \in Users \ {u} : draft'[v] = draft[v] /\ lock'[v] = lock[v]
       /\ draft'[u].month <= month
       /\ u # q0.lender => draft'[u].lent <= db[u].lent /\ draft'[u].lent <= Share[u]
       /\ u = q0.lender => draft'[u].lent <= Share[u] /\ draft'[u].remaining >= Floor[u]
  BY <1>1, <1>5, <1>7, <1>8, <1>9, WriteFacts
<1>18. \A v \in {q.author, q.lender} \ q.todo : lock'[v] = r
  <2>1. \A v \in {q.author, q.lender} \ q0.todo : lock[v] = r /\ v \in Users
    BY <1>3, <1>4, <1>13 DEF CreditInv, CallHoldsRows, Holds
  <2>. QED
    BY <1>13, <1>17, <2>1
<1>19. q.pc # "call" /\ u \notin q.todo /\ q.todo \subseteq q0.todo
  BY <1>11, <1>13
<1>20. /\ \A v \in Users : lock'[v] = lock[v] \/ (CanWrite(r, v) /\ lock'[v] = r)
       /\ \A v \in Users :
            \/ draft'[v] = draft[v]
            \/ /\ lock'[v] = r
               /\ draft'[v].month <= month
               /\ draft'[v].lent <= Share[v]
               /\ \/ draft'[v].lent <= db[v].lent
                  \/ v = q.lender /\ v \notin q.todo /\ draft'[v].remaining >= Floor[v]
  BY <1>13, <1>17, <1>19
<1>. QED
  BY <1>1, <1>12, <1>13, <1>14, <1>15, <1>16, <1>17, <1>18, <1>19, <1>20, StepKeeps

(***************************************************************************)
(* The steps that end a request by a rollback.                             *)
(***************************************************************************)
\* What may be raised, and where: nothing is committed.
Refusal(r) ==
    \/ CannotCharge(r) \/ NoLender(r) \/ Fault(r) \/ AbortDeadlocked(r)
    \/ Check(r) /\ Rollback(r, "402")
    \/ NoProvider(r) /\ ~req[r].retried

LEMMA RefusalRollsBack ==
  ASSUME NEW r \in Requests, Refusal(r)
  PROVE  \E out \in {"402", "unhandled", "fault"} : Rollback(r, out)
BY DEF Refusal, CannotCharge, NoLender, Fault, AbortDeadlocked, NoProvider

(***************************************************************************)
(* The answer of the provider.  While it works r holds the author's row,   *)
(* and after a loan the lender's.                                          *)
(***************************************************************************)
\* A second flush of a row after the first.
LEMMA TwiceFacts ==
  ASSUME NEW t \in Budget, NEW old \in Budget, NEW mid \in Budget, NEW new \in Budget,
         t.month <= month, mid.month <= month, new.month <= month, month \in Nat,
         mid.lent \in {0, old.lent}, new.lent = mid.lent
  PROVE  LET row == Overwrite(Overwrite(t, old, mid), mid, new) IN
         row \in Budget /\ row.month <= month /\ row.lent <= t.lent
<1> DEFINE first == Overwrite(t, old, mid)
           row == Overwrite(first, mid, new)
<1>1. /\ first \in Budget /\ first.month \in {t.month, mid.month}
      /\ first.lent = IF mid.lent # old.lent THEN mid.lent ELSE t.lent
  BY OverwriteFacts
<1>. HIDE DEF first
<1>2. /\ row \in Budget /\ row.month \in {first.month, new.month}
      /\ row.lent = IF new.lent # mid.lent THEN new.lent ELSE first.lent
  BY <1>1, OverwriteFacts
<1>3. t.lent \in Nat /\ old.lent \in Nat
  BY DEF Budget
<1>. HIDE DEF row
<1>4. row \in Budget /\ row.month <= month /\ row.lent <= t.lent
  BY <1>1, <1>2, <1>3
<1>. QED
  BY <1>4 DEF row, first

\* What the holder of a row has written may be committed.
LEMMA DraftIsGood ==
  ASSUME CreditInv, NEW u \in Users
  PROVE  GoodRow(u, draft[u])
BY DEF CreditInv, TypeOK, MonthInv, ShareInv, GoodRow

\* At a call, the author's row is no loan, and the lender's is that of this one.
LEMMA CallFacts ==
  ASSUME CreditInv, NEW r \in Requests, At(r, "call")
  PROVE  /\ Active(r) /\ Holds(r, req[r].author) /\ req[r].author \in Users
         /\ req[r].acct \in Users /\ req[r].todo = {} /\ req[r].lender # req[r].author
         /\ draft[req[r].author] \in Budget /\ draft[req[r].author].month <= month
         /\ draft[req[r].author].lent <= db[req[r].author].lent
         /\ draft[req[r].author].lent <= Share[req[r].author]
         /\ Lent(r) => req[r].lender \in Users /\ Holds(r, req[r].lender)
<1> DEFINE q == req[r]
<1>1. Active(r) /\ q.pc = "call"
  BY DEF At, Active, Running
<1>2. q \in Request /\ Staged(q) /\ Loaned(q) /\ q.author \in Users
  BY <1>1, RequestFacts
<1>3. q.acct \in Users /\ q.todo = {} /\ q.author # NoUser
  BY <1>1, <1>2, BudgetsAssumption DEF Staged, Active, NoUser
<1>4. q.lender # q.author
  BY <1>2, <1>3 DEF Loaned
<1>5. /\ Holds(r, q.author)
      /\ Lent(r) => q.lender \in Users /\ Holds(r, q.lender)
  BY <1>1, <1>2, <1>3 DEF CreditInv, CallHoldsRows, Lent, Request
<1>6. CanWrite(r, q.author)
  BY <1>5 DEF CanWrite, Holds
<1>. QED
  BY <1>1, <1>2, <1>3, <1>4, <1>5, <1>6, WritableRow

LEMMA SucceedKeeps ==
  ASSUME CreditInv, NEW r \in Requests, NEW cost \in Costs, Succeed(r, cost)
  PROVE  /\ CreditInv'
         /\ \A u \in Users : db'[u].lent > db[u].lent => db'[u].remaining >= Floor[u]
<1> DEFINE q == req[r]
           old == AuthorRow(r)
           mid == Current(old, month)
           new == Adjusted(mid, q.est - cost)
           rows == [draft EXCEPT ![q.author] = Flushed(r, old, mid, new)]
           net == [q.net EXCEPT ![q.author] = @ + (q.est - cost)]
<1>1. /\ IF cost = q.est
         THEN Commit(r, "ok", draft, q.net, q.allocs)
         ELSE Commit(r, "ok", rows, net, Grant(r, q.author, old, month))
      /\ At(r, "call") /\ spent' = Spend(r, cost) /\ month' = month
  BY DEF Succeed
<1>2. /\ q \in Request /\ Active(r) /\ cost \in Nat
      /\ q.author \in Users /\ q.est \in Nat /\ q.acct \in Users
      /\ old \in Budget /\ old.month <= month /\ month \in Nat
  BY <1>1, RequestFacts, CallFacts, GatewayAssumption DEF CreditInv, TypeOK
<1>3. /\ q.net \in [Users -> Int] /\ q.allocs \in [Users -> Nat] /\ q.monthly \in Nat
  BY <1>2 DEF Request
<1>4. spent' \in [Users -> Nat]
  BY <1>1, <1>2, <1>3 DEF Spend, CreditInv, TypeOK
<1>5. mid \in Budget /\ mid.month <= month /\ mid.lent \in {0, old.lent}
  BY <1>2, CurrentFacts
<1>6. new \in Budget /\ new.month <= month /\ new.lent = mid.lent
  <2>1. q.est - cost \in Int
    BY <1>2
  <2>2. Adjusted(mid, q.est - cost).month = mid.month
    BY <1>5, <2>1, AdjustedFacts
  <2>. QED
    BY <1>5, <2>1, <2>2, AdjustedFacts
<1>. HIDE DEF old, mid, new
<1>7. GoodRow(q.author, Flushed(r, old, mid, new))
  <2> DEFINE row == Flushed(r, old, mid, new)
  <2>1. /\ draft[q.author] \in Budget /\ draft[q.author].month <= month
        /\ draft[q.author].lent <= db[q.author].lent
        /\ draft[q.author].lent <= Share[q.author]
    BY <1>1, CallFacts
  <2>2. row \in Budget /\ row.month <= month /\ row.lent <= draft[q.author].lent
    BY <1>2, <1>5, <1>6, <2>1, TwiceFacts DEF Flushed, old
  <2>3. draft[q.author].lent \in Nat /\ row.lent \in Nat /\ db[q.author].lent \in Nat
        /\ Share[q.author] \in Nat
    BY <1>2, <2>1, <2>2, BudgetsAssumption DEF Budget, CreditInv, TypeOK
  <2>. HIDE DEF row
  <2>4. GoodRow(q.author, row)
    BY <2>1, <2>2, <2>3 DEF GoodRow
  <2>. QED
    BY <2>4 DEF row
<1>8. \A u \in Users : GoodRow(u, draft[u]) /\ GoodRow(u, rows[u])
  BY <1>7, DraftIsGood DEF CreditInv, TypeOK
<1>. HIDE DEF rows
<1>9. net \in [Users -> Int] /\ Grant(r, q.author, old, month) \in [Users -> Nat]
  BY <1>2, <1>3, GrantFacts DEF old
<1>. HIDE DEF net
<1>10. CASE cost = q.est
  BY <1>1, <1>3, <1>4, <1>8, <1>10, CommitKeeps DEF Outcomes
<1>11. CASE cost # q.est
  BY <1>1, <1>4, <1>8, <1>9, <1>11, CommitKeeps DEF Outcomes
<1>. QED
  BY <1>10, <1>11

\* After a failure everything is undone: nothing is left in the ledger, and the
\* rows may be committed.
LEMMA RefundFacts ==
  ASSUME CreditInv, NEW r \in Requests, At(r, "call")
  PROVE  /\ AfterRelease(r) \in Budget /\ AfterRelease(r).month <= month
         /\ Refunded(r) \in Budget /\ Refunded(r).month <= month
         /\ RefundedRows(r) \in [Users -> Budget]
         /\ \A u \in Users : GoodRow(u, RefundedRows(r)[u])
         /\ ~Lent(r) => \A u \in Users \ {req[r].author} : RefundedRows(r)[u] = draft[u]
         /\ RefundedRows(r)[req[r].author].lent <= db[req[r].author].lent
         /\ RefundedNet(r) \in [Users -> Int]
         /\ \A u \in Users : RefundedNet(r)[u] = 0
<1> DEFINE q == req[r]
           a == q.author
           old == AuthorRow(r)
           aft == AfterRelease(r)
           cur == Current(aft, month)
           ref == Refunded(r)
<1>1. /\ q \in Request /\ Netted(q) /\ Running(q) /\ q.pc = "call"
      /\ a \in Users /\ q.est \in Nat
      /\ old \in Budget /\ old.month <= month /\ month \in Nat
  BY RequestFacts, CallFacts DEF CreditInv, TypeOK, At, Active
<1>2. /\ draft[a] \in Budget /\ draft[a].month <= month
      /\ draft[a].lent <= db[a].lent /\ draft[a].lent <= Share[a]
      /\ q.lender # a /\ q.todo = {} /\ (Lent(r) => q.lender \in Users)
      /\ draft \in [Users -> Budget]
  BY CallFacts DEF CreditInv, TypeOK
<1>3. /\ GivesBack(old, q.est) \in Budget /\ GivesBack(old, q.est).month <= month
      /\ GivesBack(old, q.est).lent = old.lent
  BY <1>1, RowFacts
<1>4. aft \in Budget /\ aft.month <= month
  BY <1>1, <1>3 DEF AfterRelease
<1>5. cur \in Budget /\ cur.month <= month /\ cur.lent \in {0, aft.lent}
  BY <1>1, <1>4, CurrentFacts
<1>6. ref \in Budget /\ ref.month <= month /\ ref.lent = cur.lent
  <2>1. ref = Adjusted(cur, q.est)
    BY DEF Refunded
  <2>. QED
    BY <1>1, <1>5, <2>1, AdjustedFacts
<1>7. /\ Released(r) \in [Users -> Budget]
      /\ Released(r)[a].month <= month /\ Released(r)[a].lent = draft[a].lent
      /\ \A u \in Users \ {a} : GoodRow(u, Released(r)[u])
      /\ ~Lent(r) => Released(r) = draft
  <2>1. CASE ~Lent(r)
    BY <1>2, <2>1, DraftIsGood DEF Released
  <2>2. CASE Lent(r)
    <3> DEFINE l == q.lender
               back == TakesBack(draft[l], q.est)
               own == Overwrite(draft[a], old, GivesBack(old, q.est))
    <3>1. /\ back \in Budget /\ back.month = draft[l].month
          /\ back.lent <= draft[l].lent /\ back.remaining >= draft[l].remaining
          /\ l \in Users /\ draft[l] \in Budget
      BY <1>1, <1>2, <2>2, RowFacts
    <3>2. own \in Budget /\ own.month <= month /\ own.lent = draft[a].lent
      <4>1. /\ own \in Budget
            /\ own.month \in {draft[a].month, GivesBack(old, q.est).month}
            /\ own.lent = IF GivesBack(old, q.est).lent # old.lent
                          THEN GivesBack(old, q.est).lent ELSE draft[a].lent
        BY <1>1, <1>2, <1>3, OverwriteFacts
      <4>. QED
        BY <1>2, <1>3, <4>1
    <3>3. GoodRow(l, back)
      <4>1. /\ back.lent \in Nat /\ draft[l].lent \in Nat /\ db[l].lent \in Nat
            /\ back.remaining \in Int /\ draft[l].remaining \in Int
            /\ Share[l] \in Nat /\ Floor[l] \in Nat
        BY <3>1, BudgetsAssumption DEF Budget, CreditInv, TypeOK
      <4>2. GoodRow(l, draft[l])
        BY <3>1, DraftIsGood
      <4>. HIDE DEF back
      <4>. QED
        BY <3>1, <4>1, <4>2 DEF GoodRow
    <3>4. Released(r) = [draft EXCEPT ![l] = back, ![a] = own]
      BY <1>2, <2>2 DEF Released
    <3>. HIDE DEF back, own
    <3>. QED
      BY <1>1, <1>2, <2>2, <3>1, <3>2, <3>3, <3>4, DraftIsGood
  <2>. QED
    BY <2>1, <2>2
<1>8. /\ RefundedRows(r) = [Released(r) EXCEPT ![a] =
                              Overwrite(Overwrite(Released(r)[a], aft, cur), cur, ref)]
  BY DEF RefundedRows
<1>. HIDE DEF aft, cur, ref, old
<1> DEFINE row == Overwrite(Overwrite(Released(r)[a], aft, cur), cur, ref)
<1>9. row \in Budget /\ row.month <= month /\ row.lent <= draft[a].lent
  BY <1>1, <1>4, <1>5, <1>6, <1>7, TwiceFacts
<1>. HIDE DEF row
<1>10. GoodRow(a, row) /\ row.lent <= db[a].lent
  <2>1. row.lent \in Nat /\ draft[a].lent \in Nat /\ db[a].lent \in Nat /\ Share[a] \in Nat
    BY <1>1, <1>2, <1>9, BudgetsAssumption DEF Budget, CreditInv, TypeOK
  <2>. QED
    BY <1>2, <1>9, <2>1 DEF GoodRow
<1>11. /\ RefundedRows(r) \in [Users -> Budget] /\ RefundedRows(r)[a] = row
       /\ \A u \in Users \ {a} : RefundedRows(r)[u] = Released(r)[u]
  BY <1>1, <1>7, <1>8, <1>9 DEF row
<1>12. RefundedNet(r) \in [Users -> Int] /\ \A u \in Users : RefundedNet(r)[u] = 0
  <2>1. q.net \in [Users -> Int] /\ \A u \in Users : q.net[u] = Owed(q, u)
    BY <1>1 DEF Request, Netted
  <2>2. a # NoUser
    BY <1>1, BudgetsAssumption DEF NoUser
  <2>3. CASE ~Lent(r)
    <3>1. \A u \in Users : q.net[u] = IF u = a THEN -q.est ELSE 0
      BY <1>1, <1>2, <2>1, <2>2, <2>3, BudgetsAssumption DEF Owed, Lent, NoUser
    <3>2. RefundedNet(r) = [q.net EXCEPT ![a] = q.net[a] + q.est]
      BY <2>3 DEF RefundedNet, ReleasedNet
    <3>. QED
      BY <1>1, <2>1, <3>1, <3>2
  <2>4. CASE Lent(r)
    <3>1. \A u \in Users : q.net[u] = IF u = a THEN 0 ELSE IF u = q.lender THEN -q.est ELSE 0
      BY <1>1, <1>2, <2>1, <2>2, <2>4 DEF Owed, Lent
    <3>2. ReleasedNet(r) = [q.net EXCEPT ![q.lender] = q.net[q.lender] + q.est,
                                         ![a] = q.net[a] - q.est]
      BY <1>2, <2>4 DEF ReleasedNet
    <3>3. /\ ReleasedNet(r) \in [Users -> Int]
          /\ \A u \in Users : ReleasedNet(r)[u] = IF u = a THEN -q.est ELSE 0
      BY <1>1, <1>2, <2>1, <2>4, <3>1, <3>2
    <3>4. RefundedNet(r) = [ReleasedNet(r) EXCEPT ![a] = ReleasedNet(r)[a] + q.est]
      BY DEF RefundedNet
    <3>. QED
      BY <1>1, <3>3, <3>4
  <2>. QED
    BY <2>3, <2>4
<1>. QED
  BY <1>4, <1>6, <1>7, <1>10, <1>11, <1>12 DEF aft, ref

LEMMA RetryBorrowingKeeps ==
  ASSUME CreditInv, NEW r \in Requests, RetryBorrowing(r)
  PROVE  CreditInv'
<1> DEFINE q0 == req[r]
           a == q0.author
           allocs == Grant(r, a, AfterRelease(r), month)
           q == [q0 EXCEPT !.pc = "route", !.retried = TRUE, !.mine = Refunded(r),
                           !.net = RefundedNet(r), !.allocs = allocs]
<1>1. /\ At(r, "call") /\ Retries(r) /\ draft' = RefundedRows(r)
      /\ req' = [req EXCEPT ![r] = q]
      /\ UNCHANGED <<db, lock, flow, grants, spent, month>>
  BY DEF RetryBorrowing
<1>2. /\ q0 \in Request /\ InTime(q0) /\ Staged(q0) /\ Loaned(q0)
      /\ q0.pc = "call" /\ Active(r) /\ a \in Users /\ q0.todo = {} /\ Holds(r, a)
  BY <1>1, RequestFacts, CallFacts DEF At
<1>3. q0.lender = NoUser /\ ~Lent(r)
  BY <1>1, <1>2 DEF Loaned, Retries, Lent
<1>4. /\ AfterRelease(r) \in Budget /\ AfterRelease(r).month <= month
      /\ Refunded(r) \in Budget /\ Refunded(r).month <= month
      /\ RefundedRows(r) \in [Users -> Budget]
      /\ \A u \in Users : GoodRow(u, RefundedRows(r)[u])
      /\ \A u \in Users \ {a} : RefundedRows(r)[u] = draft[u]
      /\ RefundedRows(r)[a].lent <= db[a].lent
      /\ RefundedNet(r) \in [Users -> Int]
      /\ \A u \in Users : RefundedNet(r)[u] = 0
  BY <1>1, <1>3, RefundFacts
<1>5. allocs \in [Users -> Nat]
  BY <1>2, <1>4, RequestFacts, GrantFacts
<1>. HIDE DEF allocs
<1>6. q \in Request
  BY <1>2, <1>4, <1>5 DEF Request, Pcs
<1>7. /\ q.pc = "route" /\ q.mine = Refunded(r) /\ q.seen = q0.seen /\ q.out = q0.out
      /\ q.today = q0.today
      /\ q.author = q0.author /\ q.est = q0.est /\ q.hard = q0.hard /\ q.acct = q0.acct
      /\ q.lender = q0.lender /\ q.todo = q0.todo /\ q.net = RefundedNet(r)
  BY <1>2 DEF Request
<1>. HIDE DEF q
<1>8. InTime(q) /\ Staged(q) /\ Loaned(q) /\ Running(q)
  BY <1>2, <1>3, <1>4, <1>7 DEF InTime, Staged, Loaned, Running, Active
<1>9. Netted(q)
  BY <1>3, <1>4, <1>7, OwesNothing DEF Netted
<1>10. draft' \in [Users -> Budget] /\ lock' \in [Users -> Requests \cup {Nobody}]
  BY <1>1, <1>4 DEF CreditInv, TypeOK
<1>11. \A u \in Users :
          \/ draft'[u] = draft[u]
          \/ /\ lock'[u] = r
             /\ draft'[u].month <= month
             /\ draft'[u].lent <= Share[u]
             /\ draft'[u].lent <= db[u].lent
  BY <1>1, <1>2, <1>4 DEF GoodRow, Holds
<1>. QED
  BY <1>1, <1>3, <1>6, <1>7, <1>8, <1>9, <1>10, <1>11, StepKeeps

LEMMA GiveUpKeeps ==
  ASSUME CreditInv, NEW r \in Requests, GiveUp(r)
  PROVE  /\ CreditInv'
         /\ \A u \in Users : db'[u].lent > db[u].lent => db'[u].remaining >= Floor[u]
<1> DEFINE allocs == Grant(r, req[r].author, AfterRelease(r), month)
<1>1. /\ At(r, "call")
      /\ Commit(r, "502", RefundedRows(r), RefundedNet(r), allocs)
      /\ spent' = spent /\ month' = month
  BY DEF GiveUp
<1>2. /\ AfterRelease(r) \in Budget /\ AfterRelease(r).month <= month
      /\ \A u \in Users : GoodRow(u, RefundedRows(r)[u])
      /\ RefundedNet(r) \in [Users -> Int]
  BY <1>1, RefundFacts
<1>3. allocs \in [Users -> Nat]
  BY <1>1, <1>2, CallFacts, RequestFacts, GrantFacts
<1>4. spent' \in [Users -> Nat]
  BY <1>1 DEF CreditInv, TypeOK
<1>. HIDE DEF allocs
<1>. QED
  BY <1>1, <1>2, <1>3, <1>4, CommitKeeps DEF Outcomes

\* Nobody can lend: before a charge, so that nothing is owed.
LEMMA NoProviderFacts ==
  ASSUME CreditInv, NEW r \in Requests, NoProvider(r)
  PROVE  /\ req[r].net \in [Users -> Int] /\ req[r].allocs \in [Users -> Nat]
         /\ \A u \in Users : req[r].net[u] = 0
<1>1. req[r].pc \in {"route", "pick"}
  BY DEF NoProvider, At
<1>2. req[r] \in Request /\ Running(req[r]) /\ Loaned(req[r]) /\ Netted(req[r])
  BY <1>1, RequestFacts DEF Running
<1>3. req[r].lender = NoUser
  BY <1>1, <1>2 DEF Loaned
<1>. QED
  BY <1>1, <1>2, <1>3, OwesNothing DEF Request, Netted

LEMMA NoProviderKeeps ==
  ASSUME CreditInv, NEW r \in Requests, NoProvider(r)
  PROVE  /\ CreditInv'
         /\ \A u \in Users : db'[u].lent > db[u].lent => db'[u].remaining >= Floor[u]
<1>1. CASE Rollback(r, "402")
  <2>1. CreditInv'
    BY <1>1, RollbackKeeps DEF Outcomes
  <2>2. \A u \in Users : db'[u].lent = db[u].lent /\ db[u].lent \in Nat
    BY <1>1 DEF Rollback, CreditInv, TypeOK, Budget
  <2>. QED
    BY <2>1, <2>2
<1>2. CASE Commit(r, "502", draft, req[r].net, req[r].allocs) /\ UNCHANGED <<spent, month>>
  <2>1. spent' \in [Users -> Nat]
    BY <1>2 DEF CreditInv, TypeOK
  <2>. QED
    BY <1>2, <2>1, NoProviderFacts, DraftIsGood, CommitKeeps DEF Outcomes
<1>. QED
  BY <1>1, <1>2 DEF NoProvider

(***************************************************************************)
(* The invariant.                                                          *)
(***************************************************************************)
LEMMA InitInv == Init => CreditInv
<1> SUFFICES ASSUME Init PROVE CreditInv
  OBVIOUS
<1>1. \A u \in Users : \E n \in UsedBefore :
         db[u] = [Allocated(0) EXCEPT !.used = n, !.remaining = Limit - n]
  BY DEF Init
<1>2. \A n \in UsedBefore : n \in Nat /\ Limit - n \in Int
  BY BudgetsAssumption, GatewayAssumption
<1>3. \A n \in UsedBefore :
         LET b == [Allocated(0) EXCEPT !.used = n, !.remaining = Limit - n]
         IN b \in Budget /\ b.month = 0 /\ b.lent = 0
  BY <1>2 DEF Allocated, Budget
<1>4. \A u \in Users : db[u] \in Budget /\ db[u].month = 0 /\ db[u].lent = 0
  BY <1>1, <1>3
<1>5. /\ draft = db /\ lock = [u \in Users |-> Nobody]
      /\ flow = [u \in Users |-> -db[u].used] /\ grants = [u \in Users |-> 1]
      /\ spent = [u \in Users |-> 0] /\ month = 0
      /\ req = [r \in Requests |-> NoRequest]
      /\ db \in [Users -> Budget]
  <2>1. \E S : db \in [Users -> S]
    BY DEF Init
  <2>. QED
    BY <1>4, <2>1 DEF Init
<1>6. /\ NoRequest \in Request
      /\ NoRequest.pc = "idle" /\ NoRequest.out = "none" /\ NoRequest.mine = Blank
      /\ NoRequest.today = 0
      /\ NoRequest.seen = [u \in Users |-> Blank] /\ NoRequest.lender = NoUser
      /\ NoRequest.todo = {} /\ NoRequest.net = [u \in Users |-> 0]
  BY BlankFacts DEF NoRequest, Request, Pcs, Outcomes
<1>7. TypeOK
  <2>1. \A u \in Users : -db[u].used \in Int
    BY <1>4 DEF Budget
  <2>. QED
    BY <1>5, <1>6, <2>1 DEF TypeOK
<1>8. MonthInv
  BY <1>4, <1>5, <1>6, BlankFacts DEF MonthInv
<1>9. LockInv
  BY <1>5 DEF LockInv
<1>10. RequestInv
  BY <1>5, <1>6 DEF RequestInv, Staged, Loaned, Netted, Running
<1>11. CallHoldsRows
  BY <1>5, <1>6 DEF CallHoldsRows
<1>12. ShareInv
  BY <1>4, <1>5, BudgetsAssumption DEF ShareInv
<1>. QED
  BY <1>7, <1>8, <1>9, <1>10, <1>11, <1>12 DEF CreditInv

\* A step that commits no loan below the lender's reserve.
AboveFloor == \A u \in Users : db'[u].lent > db[u].lent => db'[u].remaining >= Floor[u]

LEMMA SameRows == ASSUME CreditInv, db' = db PROVE AboveFloor
<1>1. \A u \in Users : db[u].lent \in Nat
  BY DEF CreditInv, TypeOK, Budget
<1>. QED
  BY <1>1 DEF AboveFloor

LEMMA AdvanceKeeps ==
  ASSUME CreditInv, NEW r \in Requests, Advance(r)
  PROVE  CreditInv' /\ AboveFloor
<1>1. CASE RenewLender(r)
  BY <1>1, RenewLenderKeeps, SameRows DEF RenewLender
<1>2. CASE RenewAuthor(r)
  BY <1>2, RenewAuthorKeeps, SameRows DEF RenewAuthor
<1>3. CASE Quote(r)
  BY <1>3, QuoteKeeps, SameRows DEF Quote, Think
<1>4. CASE Check(r)
  BY <1>4, CheckKeeps, SameRows DEF Check, Think, Rollback
<1>5. CASE Consume(r)
  BY <1>5, ConsumeKeeps, SameRows DEF Consume, Think
<1>6. CASE CannotCharge(r) \/ NoLender(r) \/ AbortDeadlocked(r)
  <2>1. \E out \in {"402", "unhandled", "fault"} : Rollback(r, out)
    BY <1>6, RefusalRollsBack DEF Refusal
  <2>. QED
    BY <2>1, RollbackKeeps, SameRows DEF Rollback, Outcomes
<1>7. CASE Charge(r)
  BY <1>7, ChargeKeeps, SameRows DEF Charge
<1>8. CASE Route(r)
  BY <1>8, ReadLendersKeeps, SameRows DEF Route, At, ReadLenders, Think
<1>9. CASE Pick(r)
  BY <1>9, PickKeeps, SameRows DEF Pick, Think
<1>10. CASE NoProvider(r)
  BY <1>10, NoProviderKeeps DEF AboveFloor
<1>11. CASE Reserve(r)
  BY <1>11, ReadLendersKeeps, SameRows DEF Reserve, At, ReadLenders, Think
<1>12. CASE Match(r)
  BY <1>12, MatchKeeps, SameRows DEF Match, Think
<1>13. CASE Lend(r)
  BY <1>13, LendKeeps, SameRows DEF Lend
<1>14. CASE \E cost \in Costs : Succeed(r, cost)
  BY <1>14, SucceedKeeps DEF AboveFloor
<1>15. CASE RetryBorrowing(r)
  BY <1>15, RetryBorrowingKeeps, SameRows DEF RetryBorrowing
<1>16. CASE GiveUp(r)
  BY <1>16, GiveUpKeeps DEF AboveFloor
<1>. QED
  BY <1>1, <1>2, <1>3, <1>4, <1>5, <1>6, <1>7, <1>8, <1>9, <1>10, <1>11, <1>12, <1>13,
     <1>14, <1>15, <1>16 DEF Advance

LEMMA NextKeeps ==
  ASSUME CreditInv, [Next]_vars
  PROVE  CreditInv' /\ AboveFloor
<1>1. CASE NewMonth
  BY <1>1, NewMonthKeeps, SameRows DEF NewMonth
<1>2. ASSUME NEW r \in Requests, NEW u \in Authors, NEW est \in Estimates,
             NEW hard \in HardModes, NEW borrows \in BorrowModes,
             Begin(r, u, est, hard, borrows)
      PROVE  CreditInv' /\ AboveFloor
  BY <1>2, BeginKeeps, SameRows DEF Begin, Think
<1>3. ASSUME NEW r \in Requests, Advance(r) PROVE CreditInv' /\ AboveFloor
  BY <1>3, AdvanceKeeps
<1>4. ASSUME NEW r \in Requests, Fault(r) PROVE CreditInv' /\ AboveFloor
  BY <1>4, RollbackKeeps, SameRows DEF Fault, Rollback, Outcomes
<1>5. CASE UNCHANGED vars
  <2>1. CreditInv'
    BY <1>5 DEF vars, CreditInv, TypeOK, MonthInv, LockInv, RequestInv, CallHoldsRows,
                ShareInv, Staged, Loaned, Netted, Owed, Running, Active, Holds
  <2>. QED
    BY <1>5, <2>1, SameRows DEF vars
<1>. QED
  BY <1>1, <1>2, <1>3, <1>4, <1>5 DEF Next

\* Every reachable state satisfies CreditInv.
THEOREM Invariance == Spec => []CreditInv
<1>1. CreditInv /\ [Next]_vars => CreditInv'
  BY NextKeeps
<1>. QED
  BY InitInv, <1>1, PTL DEF Spec

\* The variables of the gateway always have their types: in particular no count
\* of used, borrowed or lent credits becomes negative.
THEOREM TypeCorrect == Spec => []TypeOK
<1>1. CreditInv => TypeOK
  BY DEF CreditInv
<1>. QED
  BY Invariance, <1>1, PTL

\* No committed row lends more than its member's monthly_share_limit: racing
\* loans of BorrowEngine.reserve_shared_credits included.
THEOREM ShareKept == Spec => []WithinShare
<1>1. CreditInv => WithinShare
  BY DEF CreditInv, ShareInv, WithinShare
<1>. QED
  BY Invariance, <1>1, PTL

\* No loan of BorrowEngine is committed that leaves the lender's row below
\* minimum_reserved_credits.
THEOREM ReserveKept == Spec => LendsAboveFloor
<1>1. CreditInv /\ [Next]_vars =>
        [\A u \in Users : db'[u].lent > db[u].lent => db'[u].remaining >= Floor[u]]_vars
  BY NextKeeps DEF AboveFloor
<1>. QED
  BY Invariance, <1>1, PTL DEF Spec, LendsAboveFloor

(***************************************************************************)
(* The ledger implements CreditBook.                                       *)
(***************************************************************************)
outs == [r \in Requests |-> req[r].out]

\* A step that goes on with a request, or only with time, leaves no mark.
LEMMA NoMark ==
  ASSUME CreditInv, NEW r \in Requests, NEW q,
         req' = [req EXCEPT ![r] = q], q.out = req[r].out, flow' = flow
  PROVE  UNCHANGED <<flow, outs>>
<1>1. \A s \in Requests : req'[s].out = req[s].out
  BY DEF CreditInv, TypeOK
<1>. QED
  BY <1>1 DEF outs

\* A step that ends a running request marks it with how it has ended.
LEMMA EndMark ==
  ASSUME CreditInv, NEW r \in Requests, Active(r), NEW how \in Outcomes \ {"none"},
         req' = [req EXCEPT ![r] = Finished(r, how)]
  PROVE  outs[r] = "none" /\ outs' = [outs EXCEPT ![r] = how]
<1>1. outs[r] = "none"
  BY RequestFacts DEF Staged, Active, Running, outs
<1>2. Finished(r, how).out = how
  BY FinishedFacts DEF CreditInv, TypeOK
<1>3. \A s \in Requests : req'[s].out = IF s = r THEN how ELSE req[s].out
  BY <1>2 DEF CreditInv, TypeOK
<1>. QED
  BY <1>1, <1>3 DEF outs

\* A rollback, or a commit of rows that come to nothing, is a refusal.
LEMMA RefusalMark ==
  ASSUME CreditInv, NEW r \in Requests, Active(r), NEW how \in {"402", "502", "unhandled", "fault"},
         req' = [req EXCEPT ![r] = Finished(r, how)], flow' = flow
  PROVE  Book!Next
<1>1. outs[r] = "none" /\ outs' = [outs EXCEPT ![r] = how]
  BY EndMark DEF Outcomes
<1>2. Book!Refuse(r, how)
  BY <1>1 DEF Book!Refuse, Book!End, outs
<1>. QED
  BY <1>2 DEF Book!Next

LEMMA CommitNothing ==
  ASSUME CreditInv, NEW r \in Requests, NEW how, NEW rows, NEW net, NEW allocs,
         Commit(r, how, rows, net, allocs), \A u \in Users : net[u] = 0
  PROVE  flow' = flow
BY DEF Commit, CreditInv, TypeOK

\* Going on.
GoesOn(r) ==
    \/ RenewLender(r) \/ RenewAuthor(r) \/ Quote(r) \/ Consume(r) \/ Charge(r)
    \/ Route(r) \/ Pick(r) \/ Reserve(r) \/ Match(r) \/ Lend(r) \/ RetryBorrowing(r)

LEMMA GoesOnUnmarked ==
  ASSUME CreditInv, NEW r \in Requests, GoesOn(r)
  PROVE  UNCHANGED <<flow, outs>>
<1>. req[r] \in Request
  BY RequestFacts
<1>1. \A q : Think(r, q) /\ q.out = req[r].out => UNCHANGED <<flow, outs>>
  BY NoMark DEF Think
<1>2. CASE RenewLender(r)
  BY <1>2, NoMark DEF RenewLender, Request
<1>3. CASE RenewAuthor(r)
  BY <1>3, NoMark DEF RenewAuthor, Request
<1>4. CASE Quote(r)
  BY <1>1, <1>4 DEF Quote, Request
<1>5. CASE Consume(r)
  BY <1>1, <1>5 DEF Consume, Request
<1>6. CASE Charge(r)
  BY <1>6, NoMark DEF Charge, Request
<1>7. CASE Route(r)
  BY <1>1, <1>7 DEF Route, ReadLenders, Request
<1>8. CASE Pick(r)
  BY <1>1, <1>8 DEF Pick, Request
<1>9. CASE Reserve(r)
  BY <1>1, <1>9 DEF Reserve, ReadLenders, Request
<1>10. CASE Match(r)
  BY <1>1, <1>10 DEF Match, Request
<1>11. CASE Lend(r)
  BY <1>11, NoMark DEF Lend, Request
<1>12. CASE RetryBorrowing(r)
  BY <1>12, NoMark DEF RetryBorrowing, Request
<1>. QED
  BY <1>2, <1>3, <1>4, <1>5, <1>6, <1>7, <1>8, <1>9, <1>10, <1>11, <1>12 DEF GoesOn

\* An answer takes its cost from the author, and moves a loan to it if there is one.
LEMMA SucceedMarks ==
  ASSUME CreditInv, NEW r \in Requests, NEW cost \in Costs, Succeed(r, cost)
  PROVE  Book!Next
<1> DEFINE q == req[r]
           a == q.author
           net == IF cost = q.est THEN q.net
                  ELSE [q.net EXCEPT ![a] = q.net[a] + (q.est - cost)]
<1>1. /\ At(r, "call") /\ q \in Request /\ Netted(q) /\ Running(q) /\ q.pc = "call"
      /\ a \in Users /\ q.est \in Nat /\ q.est \in Estimates /\ cost \in Nat /\ Active(r)
      /\ q.todo = {} /\ q.lender # a /\ (Lent(r) => q.lender \in Users) /\ a # NoUser
  BY RequestFacts, CallFacts, GatewayAssumption, BudgetsAssumption
     DEF Succeed, At, Active, Running, NoUser
<1>2. /\ req' = [req EXCEPT ![r] = Finished(r, "ok")]
      /\ flow' = [u \in Users |-> flow[u] + net[u]]
  BY DEF Succeed, Commit
<1>3. outs[r] = "none" /\ outs' = [outs EXCEPT ![r] = "ok"]
  BY <1>1, <1>2, EndMark DEF Outcomes
<1>4. q.net \in [Users -> Int] /\ \A u \in Users : q.net[u] = Owed(q, u)
  BY <1>1 DEF Request, Netted
<1>5. \A u \in Users : net[u] = IF u = a THEN Owed(q, a) + (q.est - cost) ELSE Owed(q, u)
  BY <1>1, <1>4
<1>. HIDE DEF net
<1>6. flow \in [Users -> Int]
  BY DEF CreditInv, TypeOK
<1>7. Book!End(r, "ok")
  BY <1>3 DEF Book!End, outs
<1>8. CASE ~Lent(r)
  <2>1. \A u \in Users : net[u] = IF u = a THEN -cost ELSE 0
    BY <1>1, <1>5, <1>8, BudgetsAssumption DEF Owed, Lent, NoUser
  <2>2. flow' = [flow EXCEPT ![a] = flow[a] - cost]
    <3>1. \A u \in Users : flow[u] + net[u] = IF u = a THEN flow[a] - cost ELSE flow[u]
      BY <1>1, <1>6, <2>1
    <3>. QED
      BY <1>1, <1>2, <1>6, <3>1
  <2>3. Book!Charge(r, a, cost)
    BY <1>7, <2>2 DEF Book!Charge
  <2>. QED
    BY <1>1, <2>3 DEF Book!Next
<1>9. CASE Lent(r)
  <2>1. \A u \in Users : net[u] = IF u = a THEN q.est - cost
                                  ELSE IF u = q.lender THEN -q.est ELSE 0
    BY <1>1, <1>5, <1>9 DEF Owed, Lent
  <2>2. flow' = [flow EXCEPT ![a] = flow[a] + q.est - cost, ![q.lender] = flow[q.lender] - q.est]
    <3>1. \A u \in Users : flow[u] + net[u] =
            IF u = a THEN flow[a] + q.est - cost
            ELSE IF u = q.lender THEN flow[q.lender] - q.est ELSE flow[u]
      BY <1>1, <1>6, <1>9, <2>1
    <3>. QED
      BY <1>1, <1>2, <1>6, <1>9, <3>1
  <2>3. Book!ChargeLoan(r, a, cost, q.lender, q.est)
    BY <1>1, <1>7, <2>2 DEF Book!ChargeLoan
  <2>. QED
    BY <1>1, <1>9, <2>3 DEF Book!Next
<1>. QED
  BY <1>8, <1>9

\* Every step of the gateway is one of the ledger's promise, or leaves no mark.
LEMMA BookStep ==
  ASSUME CreditInv, [Next]_vars
  PROVE  Book!Next \/ UNCHANGED <<flow, outs>>
<1>1. CASE NewMonth \/ UNCHANGED vars
  BY <1>1 DEF NewMonth, vars, outs
<1>2. ASSUME NEW r \in Requests, NEW u \in Authors, NEW est \in Estimates,
             NEW hard \in HardModes, NEW borrows \in BorrowModes,
             Begin(r, u, est, hard, borrows)
      PROVE  UNCHANGED <<flow, outs>>
  <2>1. req[r] \in Request
    BY RequestFacts
  <2> DEFINE started == [req[r] EXCEPT !.author = u, !.est = est, !.hard = hard,
                                      !.borrows = borrows]
             q == IF u \in Owners
                  THEN [started EXCEPT !.pc = "quote", !.acct = u, !.monthly = spent[u]]
                  ELSE [started EXCEPT !.pc = "route"]
  <2>2. Think(r, q)
    BY <1>2 DEF Begin
  <2>3. q.out = req[r].out
    BY <2>1 DEF Request
  <2>. QED
    BY <2>2, <2>3, NoMark DEF Think
<1>3. ASSUME NEW r \in Requests, Refusal(r) PROVE Book!Next
  <2>1. PICK out \in {"402", "unhandled", "fault"} : Rollback(r, out)
    BY <1>3, RefusalRollsBack
  <2>2. Active(r)
    BY <1>3, RequestFacts
       DEF Refusal, CannotCharge, NoLender, Fault, AbortDeadlocked, Check, NoProvider,
           At, Active, Running
  <2>. QED
    BY <2>1, <2>2, RefusalMark DEF Rollback
<1>4. ASSUME NEW r \in Requests, NoProvider(r), req[r].retried PROVE Book!Next
  <2>1. Commit(r, "502", draft, req[r].net, req[r].allocs) /\ Active(r)
    BY <1>4 DEF NoProvider, At, Active, Running
  <2>2. flow' = flow
    BY <1>4, <2>1, NoProviderFacts, CommitNothing
  <2>. QED
    BY <2>1, <2>2, RefusalMark DEF Commit
<1>5. ASSUME NEW r \in Requests, GiveUp(r) PROVE Book!Next
  <2>1. /\ Commit(r, "502", RefundedRows(r), RefundedNet(r),
                  Grant(r, req[r].author, AfterRelease(r), month))
        /\ At(r, "call")
    BY <1>5 DEF GiveUp
  <2>2. flow' = flow
    BY <2>1, RefundFacts, CommitNothing
  <2>. QED
    BY <2>1, <2>2, CallFacts, RefusalMark DEF Commit
<1>6. ASSUME NEW r \in Requests, Check(r), ~Rollback(r, "402")
      PROVE  UNCHANGED <<flow, outs>>
  BY <1>6, RequestFacts, NoMark DEF Check, Think, Request
<1>7. ASSUME NEW r \in Requests, Advance(r) PROVE Book!Next \/ UNCHANGED <<flow, outs>>
  BY <1>3, <1>4, <1>5, <1>6, <1>7, GoesOnUnmarked, SucceedMarks
     DEF Advance, GoesOn, Refusal
<1>. QED
  BY <1>1, <1>2, <1>3, <1>7 DEF Next, Refusal

\* The ledger is right in every interleaving: the gateway implements CreditBook.
THEOREM ImplementsBook == Spec => BookSpec
<1>1. Init => Book!Init
  <2>1. ASSUME Init PROVE CreditInv /\ \A r \in Requests : req[r].out = "none"
    BY <2>1, InitInv DEF Init, NoRequest
  <2>. QED
    BY <2>1 DEF Book!Init, CreditInv, TypeOK
<1>2. CreditInv /\ [Next]_vars => [Book!Next]_<<flow, outs>>
  BY BookStep
<1>. QED
  BY Invariance, <1>1, <1>2, PTL DEF Spec, BookSpec, Book!Spec, outs

(***************************************************************************)
(* Balances below zero.                                                    *)
(***************************************************************************)
\* Only without hard enforcement does a request go on with the object it holds.
KeptSoft == \A r \in Requests : req[r].kept => Active(r) /\ ~req[r].hard

\* The request q may have drawn the balance of u below zero: its own, by a soft
\* charge; or its own for a moment, by a loan that did not suffice, which it
\* then cannot be charged for.
Excused(q, u) == u = q.author /\ (~q.hard \/ q.pc \in {"lend", "consume", "charge"})

\* Nobody else has: what will be committed of a row is below zero only if what
\* is committed was.
DebtInv ==
    \A u \in Users :
        lock[u] # Nobody /\ db[u].remaining >= 0 /\ draft[u].remaining < 0 =>
            Excused(req[lock[u]], u)

BalanceInv == KeptSoft /\ DebtInv

\* What a step may do to balances.
Explained == \A u \in Users : db[u].remaining >= 0 /\ db'[u].remaining < 0 =>
    \E r \in Requests : req[r].author = u /\ (~req[r].hard \/ CostsMore(r))

LEMMA HardSees ==
  ASSUME BalanceInv, NEW r \in Requests, req[r].hard
  PROVE  ~req[r].kept /\ AuthorRow(r) = Visible(r, req[r].author)
BY DEF BalanceInv, KeptSoft, AuthorRow

\* A step of a request r that commits nothing.
LEMMA DebtStep ==
  ASSUME CreditInv, CreditInv', BalanceInv, NEW r \in Requests, NEW q,
         req' = [req EXCEPT ![r] = q], db' = db,
         Running(q), q.kept => ~q.hard,
         \A u \in Users : lock[u] = r /\ Excused(req[r], u) =>
            Excused(q, u) \/ draft'[u].remaining >= 0,
         \A u \in Users :
            \/ lock'[u] = lock[u] /\ draft'[u] = draft[u]
            \/ /\ CanWrite(r, u) /\ lock'[u] = r
               /\ \/ draft'[u].remaining = draft[u].remaining
                  \/ db[u].remaining >= 0 /\ draft'[u].remaining < 0 => Excused(q, u)
  PROVE  BalanceInv'
<1>1. \A s \in Requests : req'[s] = IF s = r THEN q ELSE req[s]
  BY DEF CreditInv, TypeOK
<1>2. KeptSoft'
  BY <1>1 DEF BalanceInv, KeptSoft, Active
<1>3. ASSUME NEW u \in Users, lock'[u] # Nobody, db[u].remaining >= 0, draft'[u].remaining < 0
      PROVE  Excused(req'[lock'[u]], u)
  <2>. draft[u].remaining \in Int /\ draft'[u].remaining \in Int
    BY DEF CreditInv, TypeOK, Budget
  <2>1. CASE lock'[u] = lock[u] /\ draft'[u] = draft[u]
    <3>1. Excused(req[lock[u]], u) /\ lock[u] \in Requests
      BY <1>3, <2>1 DEF BalanceInv, DebtInv, CreditInv, TypeOK
    <3>2. CASE lock[u] = r
      BY <1>1, <1>3, <2>1, <3>1, <3>2
    <3>. QED
      BY <1>1, <2>1, <3>1, <3>2
  <2>2. CASE CanWrite(r, u) /\ lock'[u] = r
    <3>1. req'[lock'[u]] = q
      BY <1>1, <2>2
    <3>2. CASE lock[u] = Nobody
      BY <1>3, <2>2, <3>1, <3>2 DEF CreditInv, LockInv
    <3>3. CASE lock[u] = r
      BY <1>3, <2>2, <3>1, <3>3, GatewayAssumption DEF BalanceInv, DebtInv
    <3>. QED
      BY <2>2, <3>2, <3>3 DEF CanWrite
  <2>. QED
    BY <2>1, <2>2
<1>4. DebtInv'
  BY <1>3, Zenon DEF DebtInv, Excused
<1>. QED
  BY <1>2, <1>4 DEF BalanceInv

\* A step in memory.
LEMMA ThinkBalance ==
  ASSUME CreditInv, CreditInv', BalanceInv, NEW r \in Requests, NEW q, Think(r, q),
         Running(q), q.kept => ~q.hard,
         Active(r) => /\ q.author = req[r].author /\ q.hard = req[r].hard
                      /\ req[r].pc \in {"lend", "consume", "charge"} =>
                           q.pc \in {"lend", "consume", "charge"}
  PROVE  BalanceInv'
<1>1. /\ req' = [req EXCEPT ![r] = q]
      /\ UNCHANGED <<db, draft, lock>>
  BY DEF Think
<1>2. \A u \in Users : lock[u] = r /\ Excused(req[r], u) => Excused(q, u)
  BY GatewayAssumption DEF CreditInv, LockInv, Excused
<1>. QED
  BY <1>1, <1>2, DebtStep

\* An UPDATE leaves the balance as it is, or the one computed.
LEMMA WriteBalance ==
  ASSUME CreditInv, NEW r \in Requests, NEW u \in Users,
         NEW old \in Budget, NEW new \in Budget, Write(r, u, old, new)
  PROVE  /\ CanWrite(r, u) /\ lock'[u] = r
         /\ \A v \in Users \ {u} : draft'[v] = draft[v] /\ lock'[v] = lock[v]
         /\ draft'[u].remaining
              = IF new.remaining # old.remaining THEN new.remaining ELSE draft[u].remaining
<1>1. /\ CanWrite(r, u) /\ lock' = [lock EXCEPT ![u] = r]
      /\ draft' = [draft EXCEPT ![u] = Overwrite(draft[u], old, new)]
      /\ draft \in [Users -> Budget] /\ lock \in [Users -> Requests \cup {Nobody}]
  BY DEF Write, CreditInv, TypeOK
<1>2. draft'[u] = Overwrite(draft[u], old, new)
  BY <1>1
<1>3. Overwrite(draft[u], old, new).remaining
        = IF new.remaining # old.remaining THEN new.remaining ELSE draft[u].remaining
  BY <1>1, OverwriteFacts
<1>. QED
  BY <1>1, <1>2, <1>3

\* A step that writes row u, and the balance it computes is none below zero.
LEMMA WriteKeepsBalance ==
  ASSUME CreditInv, CreditInv', BalanceInv, NEW r \in Requests, NEW q,
         req' = [req EXCEPT ![r] = q], db' = db, Active(r), Running(q),
         q.kept = req[r].kept, q.author = req[r].author, q.hard = req[r].hard,
         NEW u \in Users, NEW old \in Budget, NEW new \in Budget, Write(r, u, old, new),
         \/ new.remaining >= 0 \/ Excused(q, u),
         \/ q.pc = req[r].pc
         \/ q.pc \in {"lend", "consume", "charge"}
         \/ u = q.author /\ new.remaining # old.remaining
  PROVE  BalanceInv'
<1>1. /\ CanWrite(r, u) /\ lock'[u] = r
      /\ \A v \in Users \ {u} : draft'[v] = draft[v] /\ lock'[v] = lock[v]
      /\ draft'[u].remaining
           = IF new.remaining # old.remaining THEN new.remaining ELSE draft[u].remaining
  BY WriteBalance
<1>2. q.kept => ~q.hard
  BY DEF BalanceInv, KeptSoft
<1>3. ASSUME NEW v \in Users, Excused(req[r], v)
      PROVE  Excused(q, v) \/ draft'[v].remaining >= 0
  BY <1>1, <1>3 DEF Excused
<1>4. ASSUME NEW v \in Users
      PROVE  \/ lock'[v] = lock[v] /\ draft'[v] = draft[v]
             \/ /\ CanWrite(r, v) /\ lock'[v] = r
                /\ \/ draft'[v].remaining = draft[v].remaining
                   \/ draft'[v].remaining < 0 => Excused(q, v)
  BY <1>1 DEF Budget
<1>. QED
  BY <1>2, <1>3, <1>4, DebtStep

\* A step that commits nothing is explained.
LEMMA SameBalance == ASSUME CreditInv, db' = db PROVE Explained
<1>1. \A u \in Users : db[u].remaining \in Int
  BY DEF CreditInv, TypeOK, Budget
<1>. QED
  BY <1>1 DEF Explained

\* A step that ends request r.
LEMMA EndBalance ==
  ASSUME CreditInv, BalanceInv, NEW r \in Requests, NEW out \in Outcomes \ {"none"},
         req' = [req EXCEPT ![r] = Finished(r, out)], lock' = Unlocked(r),
         \A u \in Users : ~Holds(r, u) => db'[u] = db[u] /\ draft'[u] = draft[u]
  PROVE  BalanceInv'
<1>1. ~Finished(r, out).kept
  BY DEF Finished, NoRequest
<1>2. \A s \in Requests : req'[s] = IF s = r THEN Finished(r, out) ELSE req[s]
  BY DEF CreditInv, TypeOK
<1>3. KeptSoft'
  BY <1>1, <1>2 DEF BalanceInv, KeptSoft, Active
<1>4. ASSUME NEW u \in Users, lock'[u] # Nobody
      PROVE  /\ lock'[u] = lock[u] /\ db'[u] = db[u] /\ draft'[u] = draft[u]
             /\ req'[lock[u]] = req[lock[u]]
  BY <1>2, <1>4 DEF Unlocked, Holds, CreditInv, TypeOK
<1>5. DebtInv'
  <2>1. ASSUME NEW u \in Users, lock'[u] # Nobody, db'[u].remaining >= 0, draft'[u].remaining < 0
        PROVE  Excused(req'[lock'[u]], u)
    <3>1. Excused(req[lock[u]], u)
      BY <1>4, <2>1 DEF DebtInv, BalanceInv
    <3>. QED
      BY <1>4, <2>1, <3>1
  <2>. QED
    BY <2>1, Zenon DEF DebtInv, Excused
<1>. QED
  BY <1>3, <1>5 DEF BalanceInv

LEMMA RollbackBalance ==
  ASSUME CreditInv, BalanceInv, NEW r \in Requests, NEW out \in Outcomes \ {"none"},
         Rollback(r, out)
  PROVE  BalanceInv' /\ Explained
<1>1. \A u \in Users : ~Holds(r, u) => db'[u] = db[u] /\ draft'[u] = draft[u]
  BY DEF Rollback
<1>. QED
  BY <1>1, EndBalance, SameBalance DEF Rollback

LEMMA CommitBalance ==
  ASSUME CreditInv, BalanceInv, NEW r \in Requests, NEW out \in Outcomes \ {"none"},
         NEW rows, NEW net, NEW allocs, Commit(r, out, rows, net, allocs),
         \A u \in Users :
            Holds(r, u) /\ db[u].remaining >= 0 /\ rows[u].remaining < 0 =>
                req[r].author = u /\ (~req[r].hard \/ CostsMore(r))
  PROVE  BalanceInv' /\ Explained
<1>1. \A u \in Users : ~Holds(r, u) => db'[u] = db[u] /\ draft'[u] = draft[u]
  BY DEF Commit
<1>2. \A u \in Users : Holds(r, u) => db'[u] = rows[u]
  BY DEF Commit
<1>3. Explained
  <2>1. \A u \in Users : db[u].remaining \in Int
    BY DEF CreditInv, TypeOK, Budget
  <2>. QED
    BY <1>1, <1>2, <2>1 DEF Explained
<1>. QED
  BY <1>1, <1>3, EndBalance DEF Commit

\* What r has drawn below zero when it may commit.
LEMMA DraftBalance ==
  ASSUME CreditInv, BalanceInv, NEW r \in Requests, NEW u \in Users, Holds(r, u),
         db[u].remaining >= 0, draft[u].remaining < 0,
         req[r].pc \notin {"lend", "consume", "charge"}
  PROVE  req[r].author = u /\ ~req[r].hard
BY GatewayAssumption DEF BalanceInv, DebtInv, Excused, Holds

\* Two flushes of a row whose balance was read as it is leave the balance computed.
LEMMA TwiceBalance ==
  ASSUME NEW t \in Budget, NEW old \in Budget, NEW mid \in Budget, NEW new \in Budget,
         t.remaining = old.remaining
  PROVE  Overwrite(Overwrite(t, old, mid), mid, new).remaining = new.remaining
<1> DEFINE first == Overwrite(t, old, mid)
<1>1. first \in Budget /\ first.remaining = mid.remaining
  BY OverwriteFacts
<1>. HIDE DEF first
<1>2. Overwrite(first, mid, new).remaining = new.remaining
  BY <1>1, OverwriteFacts
<1>. QED
  BY <1>2 DEF first

\* A renewal and giving back credits: no balance below zero.
LEMMA BackBalance ==
  ASSUME NEW b \in Budget, NEW m \in Nat, b.month <= m, NEW d \in Int
  PROVE  /\ Adjusted(Current(b, m), d) \in Budget
         /\ b.remaining >= 0 /\ d >= 0 => Adjusted(Current(b, m), d).remaining >= 0
<1>1. Current(b, m) \in Budget
  BY CurrentFacts
<1>2. b.remaining >= 0 => Current(b, m).remaining >= 0
  BY BudgetsAssumption DEF Current, Allocated
<1> DEFINE c == Current(b, m)
<1>3. Adjusted(c, d) \in Budget
  BY <1>1, AdjustedFacts
<1>. HIDE DEF c
<1>4. Adjusted(c, d).remaining = c.remaining + d /\ c.remaining \in Int
  BY <1>1 DEF Adjusted, Budget, c
<1>. QED
  BY <1>2, <1>3, <1>4 DEF c

\* An answer that costs more than its estimate may do it, even to a hard budget.
LEMMA SucceedBalance ==
  ASSUME CreditInv, BalanceInv, NEW r \in Requests, NEW cost \in Costs, Succeed(r, cost)
  PROVE  BalanceInv' /\ Explained
<1> DEFINE q == req[r]
           a == q.author
           old == AuthorRow(r)
           mid == Current(old, month)
           new == Adjusted(mid, q.est - cost)
           rows == [draft EXCEPT ![a] = Flushed(r, old, mid, new)]
           net == [q.net EXCEPT ![a] = q.net[a] + (q.est - cost)]
<1>1. /\ IF cost = q.est
         THEN Commit(r, "ok", draft, q.net, q.allocs)
         ELSE Commit(r, "ok", rows, net, Grant(r, a, old, month))
      /\ At(r, "call")
  BY DEF Succeed
<1>2. /\ q \in Request /\ Active(r) /\ cost \in Nat /\ q.pc = "call" /\ Netted(q)
      /\ a \in Users /\ q.est \in Nat /\ Holds(r, a) /\ q.todo = {}
      /\ old \in Budget /\ old.month <= month /\ month \in Nat
      /\ draft \in [Users -> Budget] /\ flow \in [Users -> Int]
  BY <1>1, RequestFacts, CallFacts, GatewayAssumption DEF CreditInv, TypeOK, At
<1>3. ASSUME NEW u \in Users, Holds(r, u), db[u].remaining >= 0, draft[u].remaining < 0
      PROVE  a = u /\ ~q.hard
  BY <1>2, <1>3, DraftBalance
<1>4. CASE cost = q.est
  BY <1>1, <1>3, <1>4, CommitBalance DEF Outcomes
<1>5. CASE cost > q.est
  <2>1. Commit(r, "ok", rows, net, Grant(r, a, old, month))
    BY <1>1, <1>2, <1>5
  <2>2. CostsMore(r)
    <3>1. flow'[a] = flow[a] + (q.net[a] + (q.est - cost))
      BY <1>2, <2>1 DEF Commit, Request
    <3>2. q.net[a] = (IF q.lender # NoUser THEN q.est ELSE 0) - q.est
      BY <1>2 DEF Netted, Owed, Active
    <3>3. flow'[a] - flow[a] = (IF q.lender # NoUser THEN q.est ELSE 0) - cost
      BY <1>2, <3>1, <3>2
    <3>. QED
      BY <1>2, <1>5, <3>3 DEF CostsMore
  <2>3. \A u \in Users : u # a => rows[u] = draft[u]
    BY <1>2
  <2>. HIDE DEF rows, net
  <2>4. \A u \in Users : Holds(r, u) /\ db[u].remaining >= 0 /\ rows[u].remaining < 0 =>
            a = u /\ (~q.hard \/ CostsMore(r))
    BY <1>3, <2>2, <2>3
  <2>. QED
    BY <2>1, <2>4, CommitBalance DEF Outcomes
<1>6. CASE cost < q.est
  <2>1. Commit(r, "ok", rows, net, Grant(r, a, old, month))
    BY <1>1, <1>2, <1>6
  <2>2. /\ \A u \in Users : u # a => rows[u] = draft[u]
        /\ rows[a] = Overwrite(Overwrite(draft[a], old, mid), mid, new)
    BY <1>2 DEF Flushed
  <2>3. ASSUME q.hard, db[a].remaining >= 0 PROVE rows[a].remaining >= 0
    <3>1. old = draft[a]
      BY <1>2, <2>3, HardSees DEF Visible
    <3>2. draft[a].remaining \in Int /\ q.est - cost \in Int /\ q.est - cost >= 0
      BY <1>2, <1>6 DEF Budget
    <3>3. draft[a].remaining >= 0
      BY <1>2, <1>3, <2>3, <3>2
    <3>4. mid \in Budget
      BY <1>2, CurrentFacts
    <3>5. new \in Budget /\ new.remaining >= 0
      BY <1>2, <3>1, <3>2, <3>3, BackBalance
    <3>. HIDE DEF old, mid, new, rows
    <3>6. rows[a].remaining = new.remaining
      BY <1>2, <2>2, <3>1, <3>4, <3>5, TwiceBalance
    <3>. QED
      BY <3>5, <3>6
  <2>4. rows[a] \in Budget
    <3>1. mid \in Budget /\ new \in Budget
      BY <1>2, BackBalance, CurrentFacts
    <3>. HIDE DEF mid, new, rows, old
    <3>2. Overwrite(draft[a], old, mid) \in Budget
      BY <1>2, <3>1, OverwriteFacts
    <3>. QED
      BY <2>2, <3>1, <3>2, OverwriteFacts
  <2>. HIDE DEF rows, net
  <2>5. \A u \in Users : Holds(r, u) /\ db[u].remaining >= 0 /\ rows[u].remaining < 0 =>
            a = u /\ (~q.hard \/ CostsMore(r))
    BY <1>3, <2>2, <2>3, <2>4 DEF Budget
  <2>. QED
    BY <2>1, <2>5, CommitBalance DEF Outcomes
<1>. QED
  BY <1>2, <1>4, <1>5, <1>6

\* A refund, with or without a release before it, takes nobody below zero.
LEMMA RefundBalance ==
  ASSUME CreditInv, BalanceInv, NEW r \in Requests, At(r, "call"),
         NEW u \in Users, Holds(r, u), db[u].remaining >= 0, RefundedRows(r)[u].remaining < 0
  PROVE  req[r].author = u /\ ~req[r].hard
<1> DEFINE q == req[r]
           a == q.author
           old == AuthorRow(r)
           aft == AfterRelease(r)
           cur == Current(aft, month)
           ref == Refunded(r)
<1>1. /\ Active(r) /\ q.pc = "call" /\ a \in Users /\ q.est \in Nat /\ Holds(r, a)
      /\ q.lender # a /\ (Lent(r) => q.lender \in Users)
      /\ old \in Budget /\ old.month <= month /\ month \in Nat
      /\ draft \in [Users -> Budget] /\ db \in [Users -> Budget]
      /\ RefundedRows(r) \in [Users -> Budget]
  BY RequestFacts, CallFacts, RefundFacts DEF CreditInv, TypeOK, At
<1>2. draft[u].remaining < 0 => a = u /\ ~q.hard
  BY <1>1, DraftBalance
<1>3. RefundedRows(r) = [Released(r) EXCEPT ![a] =
                            Overwrite(Overwrite(Released(r)[a], aft, cur), cur, ref)]
  BY DEF RefundedRows
<1>4. CASE u # a
  <2>1. RefundedRows(r)[u] = Released(r)[u]
    <3>1. Released(r) = [v \in Users |-> Released(r)[v]]
      BY <1>1, Zenon DEF Released
    <3>. QED
      BY <1>3, <1>4, <3>1
  <2>2. CASE Lent(r) /\ u = q.lender
    <3>1. Released(r)[u] = TakesBack(draft[u], q.est)
      BY <1>1, <1>4, <2>2 DEF Released
    <3>2. TakesBack(draft[u], q.est).remaining >= draft[u].remaining
          /\ TakesBack(draft[u], q.est) \in Budget
      BY <1>1, RowFacts
    <3>3. draft[u].remaining < 0
      BY <1>1, <2>1, <3>1, <3>2 DEF Budget
    <3>. QED
      BY <1>2, <1>4, <3>3
  <2>3. CASE ~(Lent(r) /\ u = q.lender)
    <3>1. Released(r)[u] = draft[u]
      BY <1>1, <1>4, <2>3 DEF Released
    <3>. QED
      BY <1>2, <2>1, <3>1
  <2>. QED
    BY <2>2, <2>3
<1>5. CASE u = a
  <2> SUFFICES ASSUME q.hard PROVE FALSE
    BY <1>5
  <2>1. old = draft[a]
    BY <1>1, HardSees DEF Visible
  <2>2. draft[a].remaining >= 0 /\ draft[a].remaining \in Int
    BY <1>1, <1>2, <1>5 DEF Budget
  <2>3. /\ GivesBack(old, q.est) \in Budget /\ GivesBack(old, q.est).month = old.month
        /\ GivesBack(old, q.est).remaining >= 0
    <3>1. GivesBack(old, q.est).remaining = AtLeastZero(old.remaining - q.est)
      BY <1>1 DEF GivesBack, Budget
    <3>2. old.remaining - q.est \in Int
      BY <1>1 DEF Budget
    <3>3. AtLeastZero(old.remaining - q.est) >= 0
      BY <3>2 DEF AtLeastZero
    <3>. QED
      BY <1>1, <3>1, <3>3, RowFacts
  <2>4. /\ aft \in Budget /\ aft.month <= month /\ aft.remaining >= 0
        /\ Released(r) \in [Users -> Budget]
        /\ Released(r)[a].remaining = aft.remaining
    <3>1. CASE ~Lent(r)
      BY <1>1, <2>1, <2>2, <3>1 DEF AfterRelease, Released
    <3>2. CASE Lent(r)
      <4>1. aft = GivesBack(old, q.est)
        BY <3>2 DEF AfterRelease
      <4> DEFINE back == TakesBack(draft[q.lender], q.est)
                 own == Overwrite(draft[a], old, GivesBack(old, q.est))
      <4>2. Released(r) = [draft EXCEPT ![q.lender] = back, ![a] = own]
        BY <1>1, <3>2 DEF Released
      <4>3. back \in Budget
        BY <1>1, <3>2, RowFacts
      <4>4. own \in Budget /\ own.remaining = GivesBack(old, q.est).remaining
        BY <1>1, <2>1, <2>3, OverwriteFacts
      <4>. HIDE DEF back, own, old
      <4>. QED
        BY <1>1, <2>3, <4>1, <4>2, <4>3, <4>4
    <3>. QED
      BY <3>1, <3>2
  <2>5. cur \in Budget /\ ref \in Budget /\ ref.remaining >= 0
    BY <1>1, <2>4, CurrentFacts, BackBalance DEF Refunded
  <2>6. RefundedRows(r)[a] = Overwrite(Overwrite(Released(r)[a], aft, cur), cur, ref)
    BY <1>1, <1>3, <2>4
  <2>. HIDE DEF aft, cur, ref
  <2>7. RefundedRows(r)[a].remaining = ref.remaining
    <3>1. Released(r)[a] \in Budget
      BY <1>1, <2>4
    <3>2. Overwrite(Overwrite(Released(r)[a], aft, cur), cur, ref).remaining = ref.remaining
      BY <2>4, <2>5, <3>1, TwiceBalance
    <3>. QED
      BY <2>6, <3>2
  <2>. QED
    BY <1>5, <2>5, <2>7 DEF Budget
<1>. QED
  BY <1>4, <1>5

LEMMA BeginBalance ==
  ASSUME CreditInv, CreditInv', BalanceInv, NEW r \in Requests, NEW u \in Authors,
         NEW est \in Estimates, NEW hard \in HardModes, NEW borrows \in BorrowModes,
         Begin(r, u, est, hard, borrows)
  PROVE  BalanceInv'
<1> DEFINE q0 == req[r]
           started == [q0 EXCEPT !.author = u, !.est = est, !.hard = hard, !.borrows = borrows]
           q == IF u \in Owners
                THEN [started EXCEPT !.pc = "quote", !.acct = u, !.monthly = spent[u]]
                ELSE [started EXCEPT !.pc = "route"]
<1>1. q0.pc = "idle" /\ Think(r, q)
  BY DEF Begin, At
<1>2. q0 \in Request /\ ~Active(r) /\ ~q0.kept
  BY <1>1, RequestFacts DEF Active, Running, BalanceInv, KeptSoft
<1>3. q.pc \in {"quote", "route"} /\ q.kept = q0.kept
  BY <1>2 DEF Request
<1>. HIDE DEF q
<1>4. Running(q)
  BY <1>3 DEF Running
<1>. QED
  BY <1>1, <1>2, <1>3, <1>4, ThinkBalance

\* The steps of a running request in memory.
LEMMA MemoryBalance ==
  ASSUME CreditInv, CreditInv', BalanceInv, NEW r \in Requests,
         \/ Quote(r) \/ Consume(r) \/ Route(r) \/ Pick(r) \/ Reserve(r) \/ Match(r)
         \/ Check(r) /\ ~Rollback(r, "402")
  PROVE  BalanceInv'
<1> DEFINE q0 == req[r]
           Onward(q) == /\ Think(r, q) /\ Running(q) /\ (q.kept => ~q.hard)
                        /\ q.author = q0.author /\ q.hard = q0.hard
                        /\ q0.pc \in {"lend", "consume", "charge"} =>
                             q.pc \in {"lend", "consume", "charge"}
<1>1. q0 \in Request /\ (q0.kept => ~q0.hard)
  BY RequestFacts DEF BalanceInv, KeptSoft
<1>2. ASSUME NEW q, Onward(q) PROVE BalanceInv'
  BY <1>2, ThinkBalance
<1>3. CASE Quote(r)
  BY <1>1, <1>2, <1>3 DEF Quote, At, Request, Running
<1>4. CASE Consume(r)
  BY <1>1, <1>2, <1>4 DEF Consume, At, Request, Running
<1>5. CASE Route(r)
  BY <1>1, <1>2, <1>5 DEF Route, ReadLenders, At, Request, Running
<1>6. CASE Pick(r)
  BY <1>1, <1>2, <1>6 DEF Pick, At, Request, Running
<1>7. CASE Reserve(r)
  BY <1>1, <1>2, <1>7 DEF Reserve, ReadLenders, At, Request, Running
<1>8. CASE Match(r)
  BY <1>1, <1>2, <1>8 DEF Match, At, Request, Running
<1>9. CASE Check(r) /\ ~Rollback(r, "402")
  BY <1>1, <1>2, <1>9 DEF Check, At, Request, Running
<1>. QED
  BY <1>3, <1>4, <1>5, <1>6, <1>7, <1>8, <1>9

\* A renewal leaves the limit, or the balance there was.
LEMMA RenewBalance ==
  ASSUME CreditInv, CreditInv', BalanceInv, NEW r \in Requests,
         RenewLender(r) \/ RenewAuthor(r)
  PROVE  BalanceInv'
<1> DEFINE q0 == req[r]
<1>1. q0 \in Request /\ Active(r) /\ (Active(r) => q0.author \in Users)
  BY RequestFacts DEF RenewLender, RenewAuthor, DueLenders, DueAuthor, Active, Running
<1>2. Allocated(q0.today) \in Budget /\ Allocated(q0.today).remaining >= 0
  BY <1>1, BlankFacts, BudgetsAssumption DEF Allocated, Request
<1>3. CASE RenewLender(r)
  <2>1. PICK u \in DueLenders(r) :
          /\ Write(r, u, q0.seen[u], Allocated(q0.today))
          /\ req' = [req EXCEPT ![r] = [@ EXCEPT
                 !.seen[u] = Allocated(q0.today),
                 !.allocs = Grant(r, u, q0.seen[u], q0.today)]]
    BY <1>3 DEF RenewLender
  <2> DEFINE seen == [q0.seen EXCEPT ![u] = Allocated(q0.today)]
             q == [q0 EXCEPT !.seen = seen, !.allocs = Grant(r, u, q0.seen[u], q0.today)]
  <2>2. u \in Users /\ q0.seen[u] \in Budget
    BY <1>1 DEF DueLenders, Request
  <2>3. req' = [req EXCEPT ![r] = q] /\ db' = db
    BY <1>3, <2>1 DEF RenewLender
  <2>4. q.pc = q0.pc /\ q.kept = q0.kept /\ q.author = q0.author /\ q.hard = q0.hard
    BY <1>1 DEF Request
  <2>. HIDE DEF q
  <2>5. Running(q)
    BY <1>1, <2>4 DEF Running, Active
  <2>. QED
    BY <1>1, <1>2, <2>1, <2>2, <2>3, <2>4, <2>5, WriteKeepsBalance
<1>4. CASE RenewAuthor(r)
  <2> DEFINE u == q0.author
             q == [q0 EXCEPT !.mine = Allocated(q0.today), !.allocs = Grant(r, u, q0.mine, q0.today)]
  <2>1. /\ Write(r, u, q0.mine, Allocated(q0.today)) /\ req' = [req EXCEPT ![r] = q] /\ db' = db
    BY <1>4 DEF RenewAuthor
  <2>2. u \in Users /\ q0.mine \in Budget
    BY <1>1 DEF Request
  <2>3. q.pc = q0.pc /\ q.kept = q0.kept /\ q.author = q0.author /\ q.hard = q0.hard
    BY <1>1 DEF Request
  <2>. HIDE DEF q
  <2>4. Running(q)
    BY <1>1, <2>3 DEF Running, Active
  <2>. QED
    BY <1>1, <1>2, <2>1, <2>2, <2>3, <2>4, WriteKeepsBalance
<1>. QED
  BY <1>3, <1>4

\* Only a soft charge is made that the balance read does not cover.
LEMMA ChargeBalance ==
  ASSUME CreditInv, CreditInv', BalanceInv, NEW r \in Requests, Charge(r)
  PROVE  BalanceInv'
<1> DEFINE q0 == req[r]
           u == q0.author
           new == Charged(q0.mine, q0.est)
           net == Posted(r, u, -q0.est)
           q == [q0 EXCEPT !.pc = "call", !.mine = new, !.net = net]
<1>1. Write(r, u, q0.mine, new) /\ req' = [req EXCEPT ![r] = q] /\ db' = db /\ Affordable(r)
  BY DEF Charge
<1>2. q0 \in Request /\ Active(r) /\ u \in Users /\ q0.est \in Nat /\ q0.est > 0 /\ q0.mine \in Budget
  <2>1. Active(r)
    BY DEF Charge, At, Active, Running
  <2>. QED
    BY <2>1, RequestFacts DEF Request
<1>3. /\ q.pc = "call" /\ q.kept = q0.kept /\ q.author = q0.author /\ q.hard = q0.hard
  BY <1>2 DEF Request
<1>4. new \in Budget /\ new.remaining = q0.mine.remaining - q0.est
  BY <1>2, RowFacts DEF Charged, Budget
<1>. HIDE DEF q, new
<1>5. Running(q)
  BY <1>3 DEF Running
<1>6. new.remaining # q0.mine.remaining /\ (new.remaining >= 0 \/ ~q0.hard)
  BY <1>1, <1>2, <1>4 DEF Affordable, Budget
<1>7. new.remaining >= 0 \/ Excused(q, u)
  BY <1>3, <1>6 DEF Excused
<1>. QED
  BY <1>1, <1>2, <1>3, <1>4, <1>5, <1>6, <1>7, WriteKeepsBalance

\* A loan leaves the lender its reserve; the borrower is not charged yet.
LEMMA LendBalance ==
  ASSUME CreditInv, CreditInv', BalanceInv, NEW r \in Requests, Lend(r)
  PROVE  BalanceInv'
<1> DEFINE q0 == req[r]
           u == Least(q0.todo)
           old == IF u = q0.lender THEN q0.seen[u] ELSE q0.mine
           new == IF u = q0.lender THEN Lends(old, q0.est) ELSE Borrows(old, q0.est)
           pc == IF q0.todo = {u} THEN "consume" ELSE "lend"
           mine == IF u = q0.author THEN new ELSE q0.mine
           net == Posted(r, u, IF u = q0.lender THEN -q0.est ELSE q0.est)
           q == [q0 EXCEPT !.pc = pc, !.todo = q0.todo \ {u}, !.mine = mine, !.net = net]
<1>1. Write(r, u, old, new) /\ req' = [req EXCEPT ![r] = q] /\ db' = db
  BY DEF Lend
<1>2. q0.pc = "lend" /\ Active(r)
  BY DEF Lend, At, Active, Running
<1>3. /\ q0 \in Request /\ Staged(q0) /\ Loaned(q0)
      /\ q0.author \in Users /\ q0.est \in Nat
  BY <1>2, RequestFacts
<1>4. /\ q0.lender \in Users /\ q0.lender # NoUser
      /\ q0.todo # {} /\ q0.todo \subseteq {q0.author, q0.lender}
      /\ q0.lender \in q0.todo => CanLend(q0.lender, q0.seen[q0.lender], q0.est)
  BY <1>2, <1>3 DEF Loaned, Staged, Request
<1>5. u \in q0.todo /\ u \in Users /\ u \in {q0.author, q0.lender}
  <2>1. q0.author \in Nat /\ q0.lender \in Nat
    BY <1>3, <1>4, BudgetsAssumption
  <2>2. \E v \in q0.todo : \A w \in q0.todo : v <= w
    BY <1>4, <2>1
  <2>3. u \in q0.todo
    BY <2>2 DEF Least
  <2>. QED
    BY <1>3, <1>4, <2>3
<1>. HIDE DEF u
<1>6. q0.mine \in Budget /\ q0.seen[u] \in Budget
  BY <1>3, <1>5 DEF Request
<1>7. old \in Budget /\ new \in Budget
  BY <1>3, <1>6, RowFacts
<1>8. u = q0.lender => new.remaining >= 0
  <2>1. u = q0.lender => new.remaining = old.remaining - q0.est
    BY <1>3, <1>6, RowFacts
  <2>2. u = q0.lender => CanLend(u, old, q0.est)
    BY <1>4, <1>5
  <2>3. Floor[u] \in Nat /\ old.remaining \in Int
    BY <1>5, <1>7, BudgetsAssumption DEF Budget
  <2>. QED
    BY <1>3, <2>1, <2>2, <2>3 DEF CanLend
<1>9. pc \in {"lend", "consume"}
  OBVIOUS
<1>. HIDE DEF old, new, mine, net, pc
<1>10. q.pc = pc /\ q.kept = q0.kept /\ q.author = q0.author /\ q.hard = q0.hard
  BY <1>3 DEF Request
<1>. HIDE DEF q
<1>11. Running(q) /\ (new.remaining >= 0 \/ Excused(q, u))
  BY <1>5, <1>8, <1>9, <1>10 DEF Running, Excused
<1>. QED
  BY <1>1, <1>2, <1>3, <1>5, <1>7, <1>9, <1>10, <1>11, WriteKeepsBalance

LEMMA RetryBalance ==
  ASSUME CreditInv, CreditInv', BalanceInv, NEW r \in Requests, RetryBorrowing(r)
  PROVE  BalanceInv'
<1> DEFINE q0 == req[r]
           a == q0.author
           allocs == Grant(r, a, AfterRelease(r), month)
           q == [q0 EXCEPT !.pc = "route", !.retried = TRUE, !.mine = Refunded(r),
                           !.net = RefundedNet(r), !.allocs = allocs]
<1>1. /\ At(r, "call") /\ Retries(r) /\ draft' = RefundedRows(r) /\ lock' = lock
      /\ req' = [req EXCEPT ![r] = q] /\ db' = db
  BY DEF RetryBorrowing
<1>2. q0 \in Request /\ Loaned(q0) /\ q0.pc = "call" /\ a \in Users /\ Holds(r, a)
  BY <1>1, RequestFacts, CallFacts DEF At
<1>3. ~Lent(r)
  BY <1>1, <1>2 DEF Loaned, Retries, Lent
<1>4. q.pc = "route" /\ q.kept = q0.kept /\ q.author = a /\ q.hard = q0.hard
  BY <1>2 DEF Request
<1>. HIDE DEF q, allocs
<1>5. Running(q) /\ (q.kept => ~q.hard)
  BY <1>4 DEF Running, BalanceInv, KeptSoft
<1>6. \A u \in Users : Excused(q0, u) => Excused(q, u)
  BY <1>2, <1>4 DEF Excused
<1>7. \A u \in Users \ {a} : lock'[u] = lock[u] /\ draft'[u] = draft[u]
  BY <1>1, <1>3, RefundFacts
<1>8. db[a].remaining >= 0 /\ draft'[a].remaining < 0 => Excused(q, a)
  BY <1>1, <1>2, <1>4, RefundBalance DEF Excused
<1>9. CanWrite(r, a) /\ lock'[a] = r
  BY <1>1, <1>2 DEF CanWrite, Holds
<1>. QED
  BY <1>1, <1>5, <1>6, <1>7, <1>8, <1>9, DebtStep

LEMMA GiveUpBalance ==
  ASSUME CreditInv, BalanceInv, NEW r \in Requests, GiveUp(r)
  PROVE  BalanceInv' /\ Explained
<1>1. /\ At(r, "call")
      /\ Commit(r, "502", RefundedRows(r), RefundedNet(r),
                Grant(r, req[r].author, AfterRelease(r), month))
  BY DEF GiveUp
<1>. QED
  BY <1>1, RefundBalance, CommitBalance DEF Outcomes

LEMMA NoProviderBalance ==
  ASSUME CreditInv, BalanceInv, NEW r \in Requests, NoProvider(r)
  PROVE  BalanceInv' /\ Explained
<1>1. CASE Rollback(r, "402")
  BY <1>1, RollbackBalance DEF Outcomes
<1>2. CASE Commit(r, "502", draft, req[r].net, req[r].allocs)
  <2>1. req[r].pc \notin {"lend", "consume", "charge"}
    BY DEF NoProvider, At
  <2>. QED
    BY <1>2, <2>1, DraftBalance, CommitBalance DEF Outcomes
<1>. QED
  BY <1>1, <1>2 DEF NoProvider

LEMMA AdvanceBalance ==
  ASSUME CreditInv, CreditInv', BalanceInv, NEW r \in Requests, Advance(r)
  PROVE  BalanceInv' /\ Explained
<1>1. CASE RenewLender(r) \/ RenewAuthor(r)
  BY <1>1, RenewBalance, SameBalance DEF RenewLender, RenewAuthor
<1>2. CASE \/ Quote(r) \/ Consume(r) \/ Route(r) \/ Pick(r) \/ Reserve(r) \/ Match(r)
           \/ Check(r) /\ ~Rollback(r, "402")
  <2>1. db' = db
    BY <1>2 DEF Quote, Consume, Route, Pick, Reserve, Match, Check, ReadLenders, Think
  <2>. QED
    BY <1>2, <2>1, MemoryBalance, SameBalance
<1>3. CASE Charge(r)
  BY <1>3, ChargeBalance, SameBalance DEF Charge
<1>4. CASE Lend(r)
  BY <1>4, LendBalance, SameBalance DEF Lend
<1>5. CASE RetryBorrowing(r)
  BY <1>5, RetryBalance, SameBalance DEF RetryBorrowing
<1>6. CASE \/ CannotCharge(r) \/ NoLender(r) \/ AbortDeadlocked(r)
           \/ Check(r) /\ Rollback(r, "402")
  <2>1. \E out \in {"402", "unhandled", "fault"} : Rollback(r, out)
    BY <1>6, RefusalRollsBack DEF Refusal
  <2>. QED
    BY <2>1, RollbackBalance DEF Outcomes
<1>7. CASE NoProvider(r)
  BY <1>7, NoProviderBalance
<1>8. CASE \E cost \in Costs : Succeed(r, cost)
  BY <1>8, SucceedBalance
<1>9. CASE GiveUp(r)
  BY <1>9, GiveUpBalance
<1>. QED
  BY <1>1, <1>2, <1>3, <1>4, <1>5, <1>6, <1>7, <1>8, <1>9 DEF Advance

LEMMA NextBalance ==
  ASSUME CreditInv, CreditInv', BalanceInv, [Next]_vars
  PROVE  BalanceInv' /\ Explained
<1>1. CASE UNCHANGED <<db, draft, lock, req>>
  BY <1>1, SameBalance DEF BalanceInv, KeptSoft, DebtInv, Excused, Active
<1>2. ASSUME NEW r \in Requests, NEW u \in Authors, NEW est \in Estimates,
             NEW hard \in HardModes, NEW borrows \in BorrowModes,
             Begin(r, u, est, hard, borrows)
      PROVE  BalanceInv' /\ Explained
  BY <1>2, BeginBalance, SameBalance DEF Begin, Think
<1>3. ASSUME NEW r \in Requests, Advance(r) PROVE BalanceInv' /\ Explained
  BY <1>3, AdvanceBalance
<1>4. ASSUME NEW r \in Requests, Fault(r) PROVE BalanceInv' /\ Explained
  BY <1>4, RollbackBalance DEF Fault, Outcomes
<1>. QED
  BY <1>1, <1>2, <1>3, <1>4 DEF Next, NewMonth, vars

\* A committed balance goes below zero only by a request of the member's own that
\* found soft enforcement or cost more than its estimate (consume_credits,
\* adjust_credits): no loan, no refund of a stale row and no other request does it.
THEOREM DebtsExplained == Spec => OverdrawnKnowingly
<1>1. Init => BalanceInv
  <2> SUFFICES ASSUME Init PROVE BalanceInv
    OBVIOUS
  <2>1. /\ \A r \in Requests : ~req[r].kept
        /\ \A u \in Users : lock[u] = Nobody
    BY DEF Init, NoRequest
  <2>. QED
    BY <2>1 DEF BalanceInv, KeptSoft, DebtInv
<1>2. CreditInv /\ CreditInv' /\ BalanceInv /\ [Next]_vars => BalanceInv'
  BY NextBalance
<1>3. Spec => []BalanceInv
  BY Invariance, <1>1, <1>2, PTL DEF Spec
<1>4. CreditInv /\ CreditInv' /\ BalanceInv /\ [Next]_vars =>
        [\A u \in Users : db[u].remaining >= 0 /\ db'[u].remaining < 0 =>
            \E r \in Requests : /\ req[r].author = u
                                /\ ~req[r].hard \/ CostsMore(r)]_vars
  BY NextBalance DEF Explained
<1>. QED
  BY Invariance, <1>3, <1>4, PTL DEF Spec, OverdrawnKnowingly

(***************************************************************************)
(* One request at a time.                                                  *)
(***************************************************************************)
\* What a member who never sends a request has left when the model starts.
ReservedAtStart == \A u \in Users \ Authors, n \in UsedBefore : Limit - n >= Floor[u]

\* In its first month a row shows no less than the allocation and movement, and
\* that of a member who only lends exactly that, and its reserve.
Covered(u, row, movement) ==
    row.month = 0 =>
        /\ row.remaining >= Limit + movement
        /\ u \notin Authors =>
             /\ row.remaining = Limit + movement
             /\ ReservedAtStart => row.remaining >= Floor[u]

\* What the only request q in flight knows when its writes have made rows: what it
\* read is still so, and its ledger rows and allocations account for every row.
Informed(q, rows) ==
    /\ q.author \in Authors
    /\ q.kept \/ q.pc \in {"check", "lend", "consume", "charge", "call"} =>
         q.mine = rows[q.author]
    /\ q.pc \in {"pick", "match"} => \A u \in q.look : q.seen[u] = rows[u]
    /\ q.lender \in q.todo => q.seen[q.lender] = rows[q.lender]
    /\ q.pc \notin {"route", "pick"} => q.monthly = spent[q.acct]
    /\ \A u \in Users :
         /\ q.allocs[u] = rows[u].month - db[u].month
         /\ Covered(u, rows[u], flow[u] + q.net[u])

Unstarted(q) == ~q.kept /\ \A u \in Users : q.allocs[u] = 0

SerialInv ==
    /\ \A r \in Requests, s \in Requests : Active(r) /\ Active(s) => r = s
    /\ \A r \in Requests : IF Active(r) THEN Informed(req[r], draft) ELSE Unstarted(req[r])
    /\ \A u \in Users : grants[u] = 1 + db[u].month /\ Covered(u, db[u], flow[u])

\* A request that is in flight is alone, so that what it sees is what there is.
LEMMA AloneFacts ==
  ASSUME CreditInv, SerialInv, NEW r \in Requests, Active(r)
  PROVE  /\ \A s \in Requests \ {r} : ~Active(s)
         /\ \A u \in Users : lock[u] \in {r, Nobody} /\ Visible(r, u) = draft[u]
         /\ \A u \in Users : ~Holds(r, u) => draft[u] = db[u]
         /\ AuthorRow(r) = draft[req[r].author]
         /\ Informed(req[r], draft)
<1>1. Informed(req[r], draft)
  BY DEF SerialInv
<1>2. \A s \in Requests \ {r} : ~Active(s)
  BY DEF SerialInv
<1>3. \A u \in Users : lock[u] \in {r, Nobody}
  BY <1>2 DEF CreditInv, LockInv, TypeOK
<1>4. \A u \in Users : ~Holds(r, u) => draft[u] = db[u]
  BY <1>3 DEF CreditInv, LockInv, Holds
<1>5. \A u \in Users : Visible(r, u) = draft[u]
  BY <1>4 DEF Visible
<1>6. req[r].author \in Users
  BY RequestFacts
<1>7. AuthorRow(r) = draft[req[r].author]
  BY <1>1, <1>5, <1>6 DEF AuthorRow, Informed
<1>. QED
  BY <1>1, <1>2, <1>3, <1>4, <1>5, <1>7

\* A step of the only request in flight that commits nothing.
LEMMA SerialStep ==
  ASSUME CreditInv, SerialInv, NEW r \in Requests, NEW q,
         req' = [req EXCEPT ![r] = q], UNCHANGED <<db, flow, grants, spent>>,
         \A s \in Requests \ {r} : ~Active(s),
         Running(q), Informed(q, draft')
  PROVE  SerialInv'
<1>1. \A s \in Requests : req'[s] = IF s = r THEN q ELSE req[s]
  BY DEF CreditInv, TypeOK
<1>2. \A s \in Requests : Active(s)' <=> s = r
  BY <1>1 DEF Active
<1>3. \A s \in Requests \ {r} : Unstarted(req'[s])
  BY <1>1 DEF SerialInv
<1>4. Informed(req[r], draft)'
  BY <1>1 DEF Informed
<1>5. \A s \in Requests :
         (IF Active(s) THEN Informed(req[s], draft) ELSE Unstarted(req[s]))'
  <2> SUFFICES ASSUME NEW s \in Requests
               PROVE  (IF Active(s) THEN Informed(req[s], draft) ELSE Unstarted(req[s]))'
    OBVIOUS
  <2>1. CASE s = r
    BY <1>2, <1>4, <2>1
  <2>2. CASE s # r
    BY <1>2, <1>3, <2>2 DEF Unstarted
  <2>. QED
    BY <2>1, <2>2
<1>6. (\A u \in Users : grants[u] = 1 + db[u].month /\ Covered(u, db[u], flow[u]))'
  BY DEF SerialInv, Covered
<1>. QED
  BY <1>2, <1>5, <1>6 DEF SerialInv

\* The end of the only request in flight.
LEMMA SerialEnd ==
  ASSUME CreditInv, SerialInv, NEW r \in Requests, Active(r),
         NEW out \in Outcomes \ {"none"}, req' = [req EXCEPT ![r] = Finished(r, out)],
         \A u \in Users : grants'[u] = 1 + db'[u].month /\ Covered(u, db'[u], flow'[u])
  PROVE  SerialInv'
<1>1. \A s \in Requests : req'[s] = IF s = r THEN Finished(r, out) ELSE req[s]
  BY DEF CreditInv, TypeOK
<1>2. ~Running(Finished(r, out)) /\ Unstarted(Finished(r, out))
  BY FinishedFacts DEF Finished, NoRequest, Unstarted, CreditInv, TypeOK
<1>3. \A s \in Requests : ~Active(s)' /\ Unstarted(req'[s])
  BY <1>1, <1>2, AloneFacts DEF Active, SerialInv
<1>. QED
  BY <1>3 DEF SerialInv, Covered, Unstarted

LEMMA SerialRollback ==
  ASSUME CreditInv, SerialInv, NEW r \in Requests, Active(r),
         NEW out \in Outcomes \ {"none"}, Rollback(r, out)
  PROVE  SerialInv'
BY SerialEnd DEF Rollback, SerialInv

LEMMA SerialCommit ==
  ASSUME CreditInv, SerialInv, NEW r \in Requests, Active(r),
         NEW out \in Outcomes \ {"none"}, NEW rows, NEW net, NEW allocs,
         Commit(r, out, rows, net, allocs),
         \A u \in Users :
            /\ ~Holds(r, u) => rows[u] = draft[u]
            /\ rows[u] \in Budget
            /\ allocs[u] = rows[u].month - db[u].month
            /\ Covered(u, rows[u], flow[u] + net[u])
  PROVE  SerialInv'
<1>1. \A u \in Users : db'[u] = rows[u]
  BY AloneFacts DEF Commit
<1>2. \A u \in Users : flow'[u] = flow[u] + net[u] /\ grants'[u] = grants[u] + allocs[u]
  BY DEF Commit
<1>3. \A u \in Users : grants[u] = 1 + db[u].month /\ db[u].month \in Nat /\ rows[u].month \in Nat
  BY DEF SerialInv, CreditInv, TypeOK, Budget
<1>4. \A u \in Users : grants'[u] = 1 + db'[u].month
  BY <1>1, <1>2, <1>3
<1>5. \A u \in Users : Covered(u, db'[u], flow'[u])
  BY <1>1, <1>2
<1>. QED
  BY <1>4, <1>5, SerialEnd DEF Commit

\* A write of a row that is as it was read leaves the row computed.
LEMMA OverwriteFresh ==
  ASSUME NEW t \in Budget, NEW n \in Budget
  PROVE  Overwrite(t, t, n) = n
<1>1. n = [used |-> n.used, borrowed |-> n.borrowed, lent |-> n.lent,
           remaining |-> n.remaining, month |-> n.month]
  BY DEF Budget
<1>2. Overwrite(t, t, n) = [used |-> n.used, borrowed |-> n.borrowed, lent |-> n.lent,
                            remaining |-> n.remaining, month |-> n.month]
  BY DEF Overwrite, Newer
<1>. QED
  BY <1>1, <1>2

LEMMA WriteFresh ==
  ASSUME CreditInv, NEW r \in Requests, NEW u \in Users, NEW new \in Budget,
         Write(r, u, draft[u], new)
  PROVE  draft' = [draft EXCEPT ![u] = new]
BY OverwriteFresh DEF Write, CreditInv, TypeOK

\* What a row owes to a renewal: nothing, for in its first month it is not renewed.
LEMMA RenewedFacts ==
  ASSUME NEW u, NEW b \in Budget, NEW m \in Nat, b.month < m, NEW f
  PROVE  /\ Allocated(m).month = m /\ Allocated(m).month # 0
         /\ Covered(u, Allocated(m), f)
BY DEF Allocated, Covered, Budget

\* What Informed says of q is what it says of a request that differs in no such field.
LEMMA SerialThink ==
  ASSUME CreditInv, SerialInv, NEW r \in Requests, NEW q, Think(r, q), Active(r), Running(q),
         Informed(q, draft)
  PROVE  SerialInv'
<1>1. Informed(q, draft')
  BY DEF Think, Informed
<1>. QED
  BY <1>1, AloneFacts, SerialStep DEF Think

LEMMA BeginSerial ==
  ASSUME MaxActive = 1, CreditInv, SerialInv, NEW r \in Requests, NEW u \in Authors,
         NEW est \in Estimates, NEW hard \in HardModes, NEW borrows \in BorrowModes,
         Begin(r, u, est, hard, borrows)
  PROVE  SerialInv'
<1> DEFINE q0 == req[r]
           started == [q0 EXCEPT !.author = u, !.est = est, !.hard = hard, !.borrows = borrows]
           q == IF u \in Owners
                THEN [started EXCEPT !.pc = "quote", !.acct = u, !.monthly = spent[u]]
                ELSE [started EXCEPT !.pc = "route"]
           busy == {s \in Requests : Active(s)}
<1>1. q0.pc = "idle" /\ Think(r, q) /\ Cardinality(busy) < 1
  BY DEF Begin, At
<1>2. \A s \in Requests : ~Active(s)
  <2> SUFFICES ASSUME NEW s \in Requests, Active(s) PROVE FALSE
    OBVIOUS
  <2>1. busy = {s}
    BY DEF SerialInv
  <2>2. Cardinality({s}) = 1
    BY FS_Singleton
  <2>. QED
    BY <1>1, <2>1, <2>2
<1>3. /\ q0 \in Request /\ Unstarted(q0)
      /\ q0.net = [v \in Users |-> 0] /\ q0.lender = NoUser /\ q0.todo = {}
  BY <1>1, <1>2, RequestFacts DEF SerialInv, Staged, Active
<1>4. /\ q.pc \in {"quote", "route"} /\ q.author = u /\ q.kept = q0.kept
      /\ (q.pc = "quote" => q.acct = u /\ q.monthly = spent[u])
      /\ q.lender = q0.lender /\ q.todo = q0.todo /\ q.net = q0.net /\ q.allocs = q0.allocs
  BY <1>3 DEF Request
<1>. HIDE DEF q, busy
<1>5. \A v \in Users : draft[v] = db[v] /\ db[v].month \in Nat /\ flow[v] \in Int
  BY <1>2 DEF CreditInv, LockInv, TypeOK, Budget
<1>6. \A v \in Users : /\ q.allocs[v] = draft[v].month - db[v].month
                        /\ Covered(v, draft[v], flow[v] + q.net[v])
  <2>1. \A v \in Users : flow[v] + q.net[v] = flow[v] /\ q.allocs[v] = 0
    BY <1>3, <1>4, <1>5 DEF Unstarted
  <2>. QED
    BY <1>5, <2>1 DEF SerialInv
<1>7. Informed(q, draft')
  BY <1>1, <1>3, <1>4, <1>6 DEF Informed, Unstarted, Think
<1>8. Running(q)
  BY <1>4 DEF Running
<1>. QED
  BY <1>1, <1>2, <1>7, <1>8, SerialStep DEF Think

\* The steps in memory: what is read is what there is.
LEMMA MemorySerial ==
  ASSUME CreditInv, SerialInv, NEW r \in Requests,
         \/ Quote(r) \/ Consume(r) \/ Route(r) \/ Pick(r) \/ Reserve(r) \/ Match(r)
         \/ Check(r) /\ ~Rollback(r, "402")
  PROVE  SerialInv'
<1> DEFINE q0 == req[r]
           a == q0.author
<1>1. Active(r)
  BY DEF Quote, Consume, Route, Pick, Reserve, Match, Check, At, Active, Running
<1>2. /\ q0 \in Request /\ Staged(q0) /\ Loaned(q0) /\ a \in Users
      /\ Informed(q0, draft) /\ AuthorRow(r) = draft[a]
      /\ \A u \in Users : Visible(r, u) = draft[u]
  BY <1>1, RequestFacts, AloneFacts
<1>3. CASE Quote(r)
  <2> DEFINE q == [q0 EXCEPT !.pc = "check", !.mine = AuthorRow(r), !.kept = ~q0.hard,
                       !.today = month]
  <2>1. Think(r, q) /\ q0.pc = "quote"
    BY <1>3 DEF Quote, At
  <2>2. /\ q.pc = "check" /\ q.mine = draft[a] /\ q.author = a /\ q.look = q0.look
        /\ q.seen = q0.seen /\ q.lender = q0.lender /\ q.todo = q0.todo /\ q.acct = q0.acct
        /\ q.monthly = q0.monthly /\ q.allocs = q0.allocs /\ q.net = q0.net
    BY <1>2 DEF Request
  <2>. HIDE DEF q
  <2>3. Informed(q, draft) /\ Running(q)
    BY <1>2, <2>1, <2>2 DEF Informed, Running
  <2>. QED
    BY <1>1, <2>1, <2>3, SerialThink
<1>4. CASE Consume(r)
  <2> DEFINE q == [q0 EXCEPT !.pc = "charge", !.mine = AuthorRow(r), !.today = month]
  <2>1. Think(r, q) /\ q0.pc = "consume"
    BY <1>4 DEF Consume, At
  <2>2. /\ q.pc = "charge" /\ q.mine = draft[a] /\ q.author = a /\ q.look = q0.look
        /\ q.seen = q0.seen /\ q.lender = q0.lender /\ q.todo = q0.todo /\ q.acct = q0.acct
        /\ q.monthly = q0.monthly /\ q.allocs = q0.allocs /\ q.net = q0.net
    BY <1>2 DEF Request
  <2>. HIDE DEF q
  <2>3. Informed(q, draft) /\ Running(q)
    BY <1>2, <2>1, <2>2 DEF Informed, Running
  <2>. QED
    BY <1>1, <2>1, <2>3, SerialThink
<1>5. ASSUME NEW pc \in {"pick", "match"}, ReadLenders(r, pc), q0.pc \in {"route", "reserve"},
             pc = "match" => q0.pc = "reserve"
      PROVE  SerialInv'
  <2> DEFINE look == Sharers \ {a}
             seen == [u \in Users |-> IF u \in look THEN Visible(r, u) ELSE Blank]
             q == [q0 EXCEPT !.pc = pc, !.look = look, !.seen = seen, !.today = month]
  <2>1. Think(r, q)
    BY <1>5 DEF ReadLenders
  <2>2. \A u \in look : seen[u] = draft[u]
    BY <1>2 DEF Sharers
  <2>. HIDE DEF look, seen
  <2>3. /\ q.pc = pc /\ q.mine = q0.mine /\ q.kept = q0.kept /\ q.author = a /\ q.look = look
        /\ q.seen = seen /\ q.lender = q0.lender /\ q.todo = q0.todo /\ q.acct = q0.acct
        /\ q.monthly = q0.monthly /\ q.allocs = q0.allocs /\ q.net = q0.net
    BY <1>2 DEF Request
  <2>4. q0.todo = {}
    BY <1>2, <1>5 DEF Staged
  <2>. HIDE DEF q
  <2>5. Informed(q, draft) /\ Running(q)
    BY <1>2, <1>5, <2>2, <2>3, <2>4 DEF Informed, Running
  <2>. QED
    BY <1>1, <2>1, <2>5, SerialThink
<1>6. CASE Route(r)
  BY <1>5, <1>6 DEF Route, At
<1>7. CASE Reserve(r)
  BY <1>5, <1>7 DEF Reserve, At
<1>8. CASE Pick(r)
  <2>1. PICK u \in Best(Providers(r), q0.seen) :
          Think(r, [q0 EXCEPT !.pc = "reserve", !.acct = u, !.monthly = spent[u]])
    BY <1>8 DEF Pick
  <2> DEFINE q == [q0 EXCEPT !.pc = "reserve", !.acct = u, !.monthly = spent[u]]
  <2>2. /\ q.pc = "reserve" /\ q.mine = q0.mine /\ q.kept = q0.kept /\ q.author = a
        /\ q.seen = q0.seen /\ q.lender = q0.lender /\ q.todo = q0.todo /\ q.acct = u
        /\ q.monthly = spent[u] /\ q.allocs = q0.allocs /\ q.net = q0.net
    BY <1>2 DEF Request
  <2>3. Think(r, q) /\ q0.pc = "pick" /\ q0.todo = {}
    BY <1>2, <1>8, <2>1 DEF Pick, At, Staged
  <2>. HIDE DEF q
  <2>4. Informed(q, draft) /\ Running(q)
    BY <1>2, <2>2, <2>3 DEF Informed, Running
  <2>. QED
    BY <1>1, <2>3, <2>4, SerialThink
<1>9. CASE Match(r)
  <2>1. PICK u \in Best(Lenders(r), q0.seen) :
          Think(r, [q0 EXCEPT !.pc = "lend", !.lender = u, !.mine = AuthorRow(r),
                              !.today = month, !.todo = {u, a}])
    BY <1>9 DEF Match
  <2> DEFINE q == [q0 EXCEPT !.pc = "lend", !.lender = u, !.mine = AuthorRow(r),
                             !.today = month, !.todo = {u, a}]
  <2>2. /\ q.pc = "lend" /\ q.mine = draft[a] /\ q.author = a /\ q.look = q0.look
        /\ q.seen = q0.seen /\ q.lender = u /\ q.acct = q0.acct
        /\ q.monthly = q0.monthly /\ q.allocs = q0.allocs /\ q.net = q0.net
    BY <1>2 DEF Request
  <2>3. Think(r, q) /\ q0.pc = "match" /\ u \in q0.look
    BY <1>9, <2>1 DEF Match, At, Best, Lenders
  <2>. HIDE DEF q
  <2>4. Informed(q, draft) /\ Running(q)
    BY <1>2, <2>2, <2>3 DEF Informed, Running
  <2>. QED
    BY <1>1, <2>3, <2>4, SerialThink
<1>10. CASE Check(r) /\ ~Rollback(r, "402")
  <2> DEFINE q == [q0 EXCEPT !.pc = "consume"]
  <2>1. Think(r, q) /\ q0.pc = "check"
    BY <1>10 DEF Check, At
  <2>2. /\ q.pc = "consume" /\ q.mine = q0.mine /\ q.author = a /\ q.look = q0.look
        /\ q.seen = q0.seen /\ q.lender = q0.lender /\ q.todo = q0.todo /\ q.acct = q0.acct
        /\ q.monthly = q0.monthly /\ q.allocs = q0.allocs /\ q.net = q0.net
    BY <1>2 DEF Request
  <2>. HIDE DEF q
  <2>3. Informed(q, draft) /\ Running(q)
    BY <1>2, <2>1, <2>2 DEF Informed, Running
  <2>. QED
    BY <1>1, <2>1, <2>3, SerialThink
<1>. QED
  BY <1>3, <1>4, <1>6, <1>7, <1>8, <1>9, <1>10

\* A write of row u by the only request in flight: the ledger rows and allocations of
\* q account for every row after it.
LEMMA SerialWrite ==
  ASSUME CreditInv, SerialInv, NEW r \in Requests, Active(r), NEW q,
         NEW u \in Users, NEW new \in Budget, Write(r, u, draft[u], new),
         \A v \in Users \ {u} : q.allocs[v] = req[r].allocs[v] /\ q.net[v] = req[r].net[v],
         q.allocs[u] = new.month - db[u].month,
         Covered(u, new, flow[u] + q.net[u])
  PROVE  /\ draft'[u] = new
         /\ \A v \in Users \ {u} : draft'[v] = draft[v]
         /\ \A v \in Users : /\ q.allocs[v] = draft'[v].month - db[v].month
                             /\ Covered(v, draft'[v], flow[v] + q.net[v])
<1>1. draft' = [draft EXCEPT ![u] = new] /\ draft \in [Users -> Budget]
  BY WriteFresh DEF CreditInv, TypeOK
<1>2. draft'[u] = new /\ \A v \in Users \ {u} : draft'[v] = draft[v]
  BY <1>1
<1>3. Informed(req[r], draft)
  BY AloneFacts
<1>4. \A v \in Users :
        /\ q.allocs[v] = draft'[v].month - db[v].month
        /\ Covered(v, draft'[v], flow[v] + q.net[v])
  BY <1>2, <1>3 DEF Informed
<1>. QED
  BY <1>2, <1>4

\* A grant for a row as it is makes up for its renewal.
LEMMA GrantSerial ==
  ASSUME CreditInv, SerialInv, NEW r \in Requests, Active(r), NEW u \in Users,
         NEW b, b.month = draft[u].month, b.month \in Nat, NEW m \in Nat
  PROVE  /\ Grant(r, u, b, m)[u] = m - db[u].month
         /\ \A v \in Users \ {u} : Grant(r, u, b, m)[v] = req[r].allocs[v]
<1>1. req[r].allocs \in [Users -> Nat] /\ db[u].month \in Nat
  BY RequestFacts DEF Request, CreditInv, TypeOK, Budget
<1>2. req[r].allocs[u] = b.month - db[u].month
  BY AloneFacts DEF Informed
<1>. QED
  BY <1>1, <1>2 DEF Grant

LEMMA RenewLenderSerial ==
  ASSUME CreditInv, SerialInv, NEW r \in Requests, RenewLender(r)
  PROVE  SerialInv'
<1> DEFINE q0 == req[r]
<1>1. PICK u \in DueLenders(r) :
        /\ Write(r, u, q0.seen[u], Allocated(q0.today))
        /\ req' = [req EXCEPT ![r] = [@ EXCEPT
               !.seen[u] = Allocated(q0.today),
               !.allocs = Grant(r, u, q0.seen[u], q0.today)]]
  BY DEF RenewLender
<1> DEFINE seen == [q0.seen EXCEPT ![u] = Allocated(q0.today)]
           allocs == Grant(r, u, q0.seen[u], q0.today)
           q == [q0 EXCEPT !.seen = seen, !.allocs = allocs]
<1>2. /\ q0.pc \in {"pick", "match"} /\ u \in q0.look /\ q0.seen[u].month < q0.today /\ Active(r)
  BY DEF DueLenders, Active, Running, Due
<1>3. /\ q0 \in Request /\ Staged(q0) /\ Informed(q0, draft) /\ q0.today \in Nat
  BY <1>2, RequestFacts, AloneFacts DEF Request
<1>4. /\ q0.look \subseteq Users /\ q0.author \notin q0.look /\ q0.todo = {}
      /\ q0.seen \in [Users -> Budget] /\ u \in Users /\ q0.seen[u] = draft[u]
  BY <1>2, <1>3 DEF Request, Staged, Informed
<1>5. /\ Allocated(q0.today) \in Budget /\ Allocated(q0.today).month = q0.today
      /\ Covered(u, Allocated(q0.today), flow[u] + q0.net[u])
  BY <1>2, <1>3, <1>4, BlankFacts, RenewedFacts
<1>6. /\ allocs[u] = q0.today - db[u].month
      /\ \A v \in Users \ {u} : allocs[v] = q0.allocs[v]
  BY <1>2, <1>3, <1>4, GrantSerial DEF Budget
<1>7. \A v \in Users : seen[v] = IF v = u THEN Allocated(q0.today) ELSE q0.seen[v]
  BY <1>4
<1>8. req' = [req EXCEPT ![r] = q] /\ UNCHANGED <<db, flow, grants, spent>>
  BY <1>1 DEF RenewLender
<1>. HIDE DEF seen, allocs
<1>9. /\ q.pc = q0.pc /\ q.mine = q0.mine /\ q.kept = q0.kept /\ q.author = q0.author
      /\ q.look = q0.look /\ q.seen = seen /\ q.lender = q0.lender /\ q.todo = q0.todo
      /\ q.acct = q0.acct /\ q.monthly = q0.monthly /\ q.allocs = allocs /\ q.net = q0.net
  BY <1>3 DEF Request
<1>. HIDE DEF q
<1>10. Running(q) /\ u # q.author
  BY <1>2, <1>4, <1>9 DEF Running
<1>11. \A v \in q.look : q.seen[v] = IF v = u THEN Allocated(q0.today) ELSE q0.seen[v]
  BY <1>4, <1>7, <1>9
<1>12. \A v \in Users \ {u} : q.allocs[v] = q0.allocs[v] /\ q.net[v] = q0.net[v]
  BY <1>6, <1>9
<1>13. Write(r, u, draft[u], Allocated(q0.today))
  BY <1>1, <1>4
<1>14. /\ q.allocs[u] = Allocated(q0.today).month - db[u].month
       /\ Covered(u, Allocated(q0.today), flow[u] + q.net[u])
  BY <1>5, <1>6, <1>9
<1>15. /\ draft'[u] = Allocated(q0.today)
       /\ \A v \in Users \ {u} : draft'[v] = draft[v]
       /\ \A v \in Users : /\ q.allocs[v] = draft'[v].month - db[v].month
                           /\ Covered(v, draft'[v], flow[v] + q.net[v])
  BY <1>2, <1>4, <1>5, <1>12, <1>13, <1>14, SerialWrite
<1>16. \A v \in q.look : q.seen[v] = draft'[v]
  BY <1>2, <1>3, <1>4, <1>9, <1>11, <1>15 DEF Informed
<1>17. draft'[q.author] = draft[q.author]
  BY <1>2, <1>9, <1>10, <1>15, RequestFacts
<1>18. Informed(q, draft')
  BY <1>2, <1>3, <1>4, <1>9, <1>15, <1>16, <1>17 DEF Informed
<1>. QED
  BY <1>2, <1>8, <1>10, <1>18, AloneFacts, SerialStep

LEMMA RenewAuthorSerial ==
  ASSUME CreditInv, SerialInv, NEW r \in Requests, RenewAuthor(r)
  PROVE  SerialInv'
<1> DEFINE q0 == req[r]
           u == q0.author
           allocs == Grant(r, u, q0.mine, q0.today)
           q == [q0 EXCEPT !.mine = Allocated(q0.today), !.allocs = allocs]
<1>1. /\ Write(r, u, q0.mine, Allocated(q0.today)) /\ req' = [req EXCEPT ![r] = q]
      /\ UNCHANGED <<db, flow, grants, spent>>
  BY DEF RenewAuthor
<1>2. q0.pc \in {"check", "lend", "charge"} /\ q0.mine.month < q0.today /\ Active(r)
  BY DEF RenewAuthor, DueAuthor, Active, Running, Due
<1>3. /\ q0 \in Request /\ Staged(q0) /\ Loaned(q0) /\ Informed(q0, draft) /\ q0.today \in Nat
      /\ u \in Users
  BY <1>2, RequestFacts, AloneFacts DEF Request
<1>4. q0.mine = draft[u] /\ q0.mine \in Budget
  BY <1>2, <1>3 DEF Request, Informed
<1>5. /\ Allocated(q0.today) \in Budget /\ Allocated(q0.today).month = q0.today
      /\ Covered(u, Allocated(q0.today), flow[u] + q0.net[u])
  BY <1>2, <1>3, <1>4, BlankFacts, RenewedFacts
<1>6. /\ allocs[u] = q0.today - db[u].month
      /\ \A v \in Users \ {u} : allocs[v] = q0.allocs[v]
  BY <1>2, <1>3, <1>4, GrantSerial DEF Budget
<1>7. q0.lender \in q0.todo => u # q0.lender /\ q0.lender \in Users
  BY <1>3, BudgetsAssumption DEF Loaned, Staged, Request, NoUser
<1>. HIDE DEF allocs
<1>8. /\ q.pc = q0.pc /\ q.mine = Allocated(q0.today) /\ q.author = u
      /\ q.seen = q0.seen /\ q.lender = q0.lender /\ q.todo = q0.todo
      /\ q.acct = q0.acct /\ q.monthly = q0.monthly /\ q.allocs = allocs /\ q.net = q0.net
  BY <1>3 DEF Request
<1>. HIDE DEF q
<1>9. Running(q)
  BY <1>2, <1>8 DEF Running
<1>10. \A v \in Users \ {u} : q.allocs[v] = q0.allocs[v] /\ q.net[v] = q0.net[v]
  BY <1>6, <1>8
<1>11. Write(r, u, draft[u], Allocated(q0.today))
  BY <1>1, <1>4
<1>12. /\ q.allocs[u] = Allocated(q0.today).month - db[u].month
       /\ Covered(u, Allocated(q0.today), flow[u] + q.net[u])
  BY <1>5, <1>6, <1>8
<1>13. /\ draft'[u] = Allocated(q0.today)
       /\ \A v \in Users \ {u} : draft'[v] = draft[v]
       /\ \A v \in Users : /\ q.allocs[v] = draft'[v].month - db[v].month
                           /\ Covered(v, draft'[v], flow[v] + q.net[v])
  BY <1>2, <1>3, <1>5, <1>10, <1>11, <1>12, SerialWrite
<1>14. Informed(q, draft')
  BY <1>2, <1>3, <1>7, <1>8, <1>13 DEF Informed
<1>. QED
  BY <1>1, <1>2, <1>9, <1>14, AloneFacts, SerialStep

LEMMA ChargeSerial ==
  ASSUME CreditInv, SerialInv, NEW r \in Requests, Charge(r)
  PROVE  SerialInv'
<1> DEFINE q0 == req[r]
           u == q0.author
           new == Charged(q0.mine, q0.est)
           net == Posted(r, u, -q0.est)
           q == [q0 EXCEPT !.pc = "call", !.mine = new, !.net = net]
<1>1. /\ Write(r, u, q0.mine, new) /\ req' = [req EXCEPT ![r] = q]
      /\ UNCHANGED <<db, flow, grants, spent>>
  BY DEF Charge
<1>2. q0.pc = "charge" /\ Active(r)
  BY DEF Charge, At, Active, Running
<1>3. /\ q0 \in Request /\ Staged(q0) /\ Informed(q0, draft) /\ u \in Users /\ q0.est \in Nat
      /\ flow[u] \in Int
  BY <1>2, RequestFacts, AloneFacts DEF CreditInv, TypeOK
<1>4. /\ q0.mine = draft[u] /\ q0.mine \in Budget /\ q0.todo = {} /\ q0.net \in [Users -> Int]
      /\ u \in Authors
  BY <1>2, <1>3 DEF Request, Informed, Staged
<1>5. new \in Budget /\ new.month = q0.mine.month /\ new.remaining = q0.mine.remaining - q0.est
  BY <1>3, <1>4, RowFacts DEF Charged, Budget
<1>6. net[u] = q0.net[u] - q0.est /\ \A v \in Users \ {u} : net[v] = q0.net[v]
  BY <1>3, <1>4 DEF Posted
<1>. HIDE DEF net, new
<1>7. Covered(u, new, flow[u] + net[u])
  <2>1. Covered(u, q0.mine, flow[u] + q0.net[u])
    BY <1>3, <1>4 DEF Informed
  <2>2. q0.net[u] \in Int /\ q0.mine.remaining \in Int /\ Limit \in Nat
    BY <1>3, <1>4, BudgetsAssumption DEF Budget
  <2>. QED
    BY <1>3, <1>4, <1>5, <1>6, <2>1, <2>2 DEF Covered
<1>8. /\ q.pc = "call" /\ q.mine = new /\ q.author = u
      /\ q.lender = q0.lender /\ q.todo = q0.todo
      /\ q.acct = q0.acct /\ q.monthly = q0.monthly /\ q.allocs = q0.allocs /\ q.net = net
  BY <1>3 DEF Request
<1>. HIDE DEF q
<1>9. Running(q) /\ q0.allocs[u] = new.month - db[u].month
  BY <1>3, <1>4, <1>5, <1>8 DEF Running, Informed
<1>10. \A v \in Users \ {u} : q.allocs[v] = q0.allocs[v] /\ q.net[v] = q0.net[v]
  BY <1>6, <1>8
<1>11. Write(r, u, draft[u], new)
  BY <1>1, <1>4
<1>12. q.allocs[u] = new.month - db[u].month /\ Covered(u, new, flow[u] + q.net[u])
  BY <1>7, <1>8, <1>9
<1>13. /\ draft'[u] = new
       /\ \A v \in Users : /\ q.allocs[v] = draft'[v].month - db[v].month
                           /\ Covered(v, draft'[v], flow[v] + q.net[v])
  BY <1>2, <1>3, <1>5, <1>10, <1>11, <1>12, SerialWrite
<1>14. Informed(q, draft')
  BY <1>2, <1>3, <1>4, <1>8, <1>13 DEF Informed
<1>. QED
  BY <1>1, <1>2, <1>9, <1>14, AloneFacts, SerialStep

LEMMA LendSerial ==
  ASSUME CreditInv, SerialInv, NEW r \in Requests, Lend(r)
  PROVE  SerialInv'
<1> DEFINE q0 == req[r]
           a == q0.author
           u == Least(q0.todo)
           old == IF u = q0.lender THEN q0.seen[u] ELSE q0.mine
           new == IF u = q0.lender THEN Lends(old, q0.est) ELSE Borrows(old, q0.est)
           pc == IF q0.todo = {u} THEN "consume" ELSE "lend"
           mine == IF u = a THEN new ELSE q0.mine
           net == Posted(r, u, IF u = q0.lender THEN -q0.est ELSE q0.est)
           q == [q0 EXCEPT !.pc = pc, !.todo = q0.todo \ {u}, !.mine = mine, !.net = net]
<1>1. /\ Write(r, u, old, new) /\ req' = [req EXCEPT ![r] = q]
      /\ UNCHANGED <<db, flow, grants, spent>>
  BY DEF Lend
<1>2. q0.pc = "lend" /\ Active(r)
  BY DEF Lend, At, Active, Running
<1>3. /\ q0 \in Request /\ Staged(q0) /\ Loaned(q0) /\ Informed(q0, draft)
      /\ a \in Users /\ q0.est \in Nat
  BY <1>2, RequestFacts, AloneFacts
<1>4. /\ q0.lender \in Users /\ q0.lender # NoUser /\ q0.lender # a
      /\ q0.todo # {} /\ q0.todo \subseteq {a, q0.lender}
      /\ q0.lender \in q0.todo => CanLend(q0.lender, q0.seen[q0.lender], q0.est)
  BY <1>2, <1>3 DEF Loaned, Staged, Request
<1>5. u \in q0.todo /\ u \in Users /\ u \in {a, q0.lender}
  <2>1. a \in Nat /\ q0.lender \in Nat
    BY <1>3, <1>4, BudgetsAssumption
  <2>2. \E v \in q0.todo : \A w \in q0.todo : v <= w
    BY <1>4, <2>1
  <2>3. u \in q0.todo
    BY <2>2 DEF Least
  <2>. QED
    BY <1>3, <1>4, <2>3
<1>. HIDE DEF u
<1>6. old = draft[u] /\ old \in Budget /\ q0.net \in [Users -> Int] /\ flow[u] \in Int
  BY <1>2, <1>3, <1>4, <1>5 DEF Informed, Request, CreditInv, TypeOK
<1>7. /\ new \in Budget /\ new.month = old.month
      /\ new.remaining = IF u = q0.lender THEN old.remaining - q0.est ELSE old.remaining + q0.est
  <2>1. Borrows(old, q0.est).remaining = old.remaining + q0.est
    BY <1>6 DEF Borrows, Budget
  <2>. HIDE DEF old
  <2>. QED
    BY <1>3, <1>6, <2>1, RowFacts
<1>8. /\ net[u] = q0.net[u] + (IF u = q0.lender THEN -q0.est ELSE q0.est)
      /\ \A v \in Users \ {u} : net[v] = q0.net[v]
  BY <1>3, <1>5, <1>6 DEF Posted
<1>9. u = q0.lender => old.remaining - q0.est >= Floor[u]
  BY <1>4, <1>5 DEF CanLend
<1>10. pc \in {"lend", "consume"} /\ (u = a => mine = new) /\ (u # a => mine = q0.mine)
  OBVIOUS
<1>. HIDE DEF old, new, net, mine, pc
<1>11. Covered(u, new, flow[u] + net[u])
  <2>1. Covered(u, old, flow[u] + q0.net[u]) /\ a \in Authors
    BY <1>3, <1>5, <1>6 DEF Informed
  <2>2. q0.net[u] \in Int /\ old.remaining \in Int /\ Limit \in Nat /\ Floor[u] \in Nat
    BY <1>5, <1>6, BudgetsAssumption DEF Budget
  <2>3. CASE u = q0.lender
    <3>1. new.remaining = old.remaining - q0.est /\ net[u] = q0.net[u] - q0.est
      BY <1>3, <1>7, <1>8, <2>2, <2>3
    <3>. QED
      BY <1>3, <1>6, <1>7, <1>9, <2>1, <2>2, <2>3, <3>1 DEF Covered
  <2>4. CASE u # q0.lender
    <3>1. new.remaining = old.remaining + q0.est /\ net[u] = q0.net[u] + q0.est /\ u \in Authors
      BY <1>3, <1>5, <1>7, <1>8, <2>1, <2>2, <2>4
    <3>. QED
      BY <1>3, <1>6, <1>7, <2>1, <2>2, <3>1 DEF Covered
  <2>. QED
    BY <2>3, <2>4
<1>12. /\ q.pc = pc /\ q.mine = mine /\ q.author = a /\ q.seen = q0.seen
       /\ q.lender = q0.lender /\ q.todo = q0.todo \ {u}
       /\ q.acct = q0.acct /\ q.monthly = q0.monthly /\ q.allocs = q0.allocs /\ q.net = net
  BY <1>3 DEF Request
<1>. HIDE DEF q
<1>13. /\ draft'[u] = new
       /\ \A v \in Users \ {u} : draft'[v] = draft[v]
       /\ \A v \in Users : /\ q.allocs[v] = draft'[v].month - db[v].month
                           /\ Covered(v, draft'[v], flow[v] + q.net[v])
  <2>1. Write(r, u, draft[u], new)
    BY <1>1, <1>6
  <2>2. q.allocs[u] = new.month - db[u].month /\ Covered(u, new, flow[u] + q.net[u])
    BY <1>3, <1>5, <1>6, <1>7, <1>11, <1>12 DEF Informed
  <2>3. \A v \in Users \ {u} : q.allocs[v] = q0.allocs[v] /\ q.net[v] = q0.net[v]
    BY <1>8, <1>12
  <2>. QED
    BY <1>2, <1>5, <1>7, <2>1, <2>2, <2>3, SerialWrite
<1>14. q.mine = draft'[a] /\ (q.lender \in q.todo => q.seen[q.lender] = draft'[q.lender])
  BY <1>2, <1>3, <1>4, <1>5, <1>10, <1>12, <1>13 DEF Informed
<1>15. Informed(q, draft') /\ Running(q)
  BY <1>2, <1>3, <1>10, <1>12, <1>13, <1>14 DEF Informed, Running
<1>. QED
  BY <1>1, <1>2, <1>15, AloneFacts, SerialStep

\* A renewal of a row as it is, and an adjustment after it, as the only request in
\* flight makes them: the ledger row of the adjustment accounts for the row.
LEMMA AdjustSerial ==
  ASSUME CreditInv, SerialInv, NEW u \in Authors, NEW b \in Budget, NEW d \in Int, NEW f \in Int,
         b.month <= month, Covered(u, b, f)
  PROVE  /\ Adjusted(Current(b, month), d) \in Budget
         /\ Adjusted(Current(b, month), d).month = month
         /\ Covered(u, Adjusted(Current(b, month), d), f + d)
<1> DEFINE c == Current(b, month)
<1>1. month \in Nat /\ b.month \in Nat /\ Limit \in Nat
  BY BudgetsAssumption DEF CreditInv, TypeOK, Budget
<1>2. c \in Budget /\ c.month = month
  <2>1. c \in Budget
    BY <1>1, CurrentFacts
  <2>2. c.month = month
    BY <1>1 DEF Current, Due, Allocated
  <2>. QED
    BY <2>1, <2>2
<1>3. Covered(u, c, f)
  <2>1. CASE b.month < month
    BY <1>1, <2>1, RenewedFacts DEF Current, Due
  <2>2. CASE ~(b.month < month)
    BY <2>2 DEF Current, Due
  <2>. QED
    BY <2>1, <2>2
<1>. HIDE DEF c
<1>4. /\ Adjusted(c, d) \in Budget /\ Adjusted(c, d).month = month
      /\ Adjusted(c, d).remaining = c.remaining + d /\ c.remaining \in Int
  BY <1>2, AdjustedFacts DEF Adjusted, Budget
<1>5. Covered(u, Adjusted(c, d), f + d)
  BY <1>1, <1>2, <1>3, <1>4 DEF Covered
<1>. QED
  BY <1>4, <1>5 DEF c

LEMMA SucceedSerial ==
  ASSUME CreditInv, SerialInv, NEW r \in Requests, NEW cost \in Costs, Succeed(r, cost)
  PROVE  SerialInv'
<1> DEFINE q == req[r]
           a == q.author
           old == AuthorRow(r)
           mid == Current(old, month)
           new == Adjusted(mid, q.est - cost)
           rows == [draft EXCEPT ![a] = Flushed(r, old, mid, new)]
           net == [q.net EXCEPT ![a] = q.net[a] + (q.est - cost)]
           allocs == Grant(r, a, old, month)
<1>1. /\ IF cost = q.est
         THEN Commit(r, "ok", draft, q.net, q.allocs)
         ELSE Commit(r, "ok", rows, net, allocs)
      /\ At(r, "call")
  BY DEF Succeed
<1>2. /\ q \in Request /\ Active(r) /\ cost \in Nat /\ Informed(q, draft)
      /\ a \in Users /\ q.est \in Nat /\ Holds(r, a)
      /\ old = draft[a] /\ old \in Budget /\ old.month <= month /\ month \in Nat
      /\ draft \in [Users -> Budget] /\ flow \in [Users -> Int]
  BY <1>1, RequestFacts, CallFacts, AloneFacts, GatewayAssumption DEF CreditInv, TypeOK
<1>3. a \in Authors /\ q.net \in [Users -> Int] /\ q.est - cost \in Int
  BY <1>2 DEF Informed, Request
<1>4. CASE cost = q.est
  BY <1>1, <1>2, <1>4, SerialCommit DEF Informed, Outcomes
<1>5. CASE cost # q.est
  <2>1. Commit(r, "ok", rows, net, allocs)
    BY <1>1, <1>5
  <2>2. /\ new \in Budget /\ new.month = month
        /\ Covered(a, new, (flow[a] + q.net[a]) + (q.est - cost))
    <3>1. Covered(a, old, flow[a] + q.net[a]) /\ flow[a] + q.net[a] \in Int
      BY <1>2, <1>3 DEF Informed
    <3>. HIDE DEF old
    <3>. QED
      BY <1>2, <1>3, <3>1, AdjustSerial
  <2>3. mid \in Budget
    BY <1>2, CurrentFacts
  <2>4. /\ allocs[a] = month - db[a].month
        /\ \A v \in Users \ {a} : allocs[v] = q.allocs[v]
    BY <1>2, GrantSerial DEF Budget
  <2>. HIDE DEF old, mid, new, allocs
  <2>5. rows[a] = new /\ \A v \in Users \ {a} : rows[v] = draft[v]
    BY <1>2, <2>2, <2>3, OverwriteFresh DEF Flushed
  <2>6. /\ net[a] = q.net[a] + (q.est - cost)
        /\ \A v \in Users \ {a} : net[v] = q.net[v]
    BY <1>2, <1>3
  <2>. HIDE DEF rows, net
  <2>7. flow[a] + net[a] = (flow[a] + q.net[a]) + (q.est - cost)
    BY <1>2, <1>3, <2>6
  <2>8. \A v \in Users :
          /\ ~Holds(r, v) => rows[v] = draft[v]
          /\ rows[v] \in Budget
          /\ allocs[v] = rows[v].month - db[v].month
          /\ Covered(v, rows[v], flow[v] + net[v])
    BY <1>2, <2>2, <2>4, <2>5, <2>6, <2>7 DEF Informed
  <2>. QED
    BY <1>2, <2>1, <2>8, SerialCommit DEF Outcomes
<1>. QED
  BY <1>4, <1>5

\* A failure of the only request in flight: every row is accounted for after it.
LEMMA RefundSerial ==
  ASSUME CreditInv, SerialInv, NEW r \in Requests, At(r, "call")
  PROVE  /\ RefundedRows(r)[req[r].author] = Refunded(r)
         /\ \A v \in Users :
              /\ ~Holds(r, v) => RefundedRows(r)[v] = draft[v]
              /\ Grant(r, req[r].author, AfterRelease(r), month)[v]
                   = RefundedRows(r)[v].month - db[v].month
              /\ Covered(v, RefundedRows(r)[v], flow[v] + RefundedNet(r)[v])
<1> DEFINE q == req[r]
           a == q.author
           l == q.lender
           old == AuthorRow(r)
           back == TakesBack(draft[l], q.est)
           aft == AfterRelease(r)
           cur == Current(aft, month)
           ref == Refunded(r)
           out == Released(r)
           net == ReleasedNet(r)
           allocs == Grant(r, a, aft, month)
<1>1. /\ q \in Request /\ Active(r) /\ Informed(q, draft) /\ a \in Users /\ q.est \in Nat
      /\ Holds(r, a) /\ l # a /\ (Lent(r) => l \in Users /\ Holds(r, l))
      /\ old = draft[a] /\ old \in Budget /\ old.month <= month /\ month \in Nat
      /\ draft \in [Users -> Budget] /\ flow \in [Users -> Int] /\ db \in [Users -> Budget]
      /\ Limit \in Nat
  BY RequestFacts, CallFacts, AloneFacts, BudgetsAssumption DEF CreditInv, TypeOK
<1>2. a \in Authors /\ q.net \in [Users -> Int]
  BY <1>1 DEF Informed, Request
<1>3. \A v \in Users : Covered(v, draft[v], flow[v] + q.net[v])
  BY <1>1 DEF Informed
<1>4. /\ aft \in Budget /\ aft.month = old.month
      /\ out = [v \in Users |-> IF v = a THEN aft
                                ELSE IF Lent(r) /\ v = l THEN back ELSE draft[v]]
      /\ net \in [Users -> Int]
      /\ \A v \in Users : net[v] = IF ~Lent(r) THEN q.net[v]
                                   ELSE IF v = a THEN q.net[v] - q.est
                                   ELSE IF v = l THEN q.net[v] + q.est ELSE q.net[v]
      /\ Covered(a, aft, flow[a] + net[a])
  <2>1. CASE ~Lent(r)
    <3>1. aft = old /\ out = draft /\ net = q.net
      BY <2>1 DEF AfterRelease, Released, ReleasedNet
    <3>2. draft = [v \in Users |-> IF v = a THEN old
                                   ELSE IF Lent(r) /\ v = l THEN back ELSE draft[v]]
      BY <1>1, <2>1
    <3>3. Covered(a, aft, flow[a] + net[a])
      BY <1>1, <1>3, <3>1
    <3>. HIDE DEF aft, out, net, back
    <3>. QED
      BY <1>1, <1>2, <2>1, <3>1, <3>2, <3>3
  <2>2. CASE Lent(r)
    <3> DEFINE own == GivesBack(old, q.est)
    <3>1. aft = own /\ own \in Budget /\ own.month = old.month
      BY <1>1, <2>2, RowFacts DEF AfterRelease
    <3>2. out = [draft EXCEPT ![l] = back, ![a] = Overwrite(draft[a], old, own)]
      BY <1>1, <2>2 DEF Released
    <3>3. Overwrite(draft[a], old, own) = own
      BY <1>1, <3>1, OverwriteFresh
    <3>4. net = [q.net EXCEPT ![l] = q.net[l] + q.est, ![a] = q.net[a] - q.est]
      BY <1>1, <2>2 DEF ReleasedNet
    <3>5. /\ net \in [Users -> Int]
          /\ \A v \in Users : net[v] = IF v = a THEN q.net[v] - q.est
                                       ELSE IF v = l THEN q.net[v] + q.est ELSE q.net[v]
      BY <1>1, <1>2, <2>2, <3>4
    <3>6. own.remaining >= old.remaining - q.est /\ own.remaining \in Int
      <4>1. own.remaining = AtLeastZero(old.remaining - q.est) /\ old.remaining \in Int
        BY <1>1 DEF GivesBack, Budget
      <4>. HIDE DEF own, old
      <4>. QED
        BY <1>1, <4>1 DEF AtLeastZero
    <3>7. Covered(a, own, flow[a] + net[a])
      <4>1. /\ Covered(a, old, flow[a] + q.net[a]) /\ net[a] = q.net[a] - q.est
            /\ old.remaining \in Int /\ flow[a] \in Int /\ q.net[a] \in Int
        BY <1>1, <1>2, <1>3, <3>5 DEF Budget
      <4>. HIDE DEF own, old, net
      <4>. QED
        BY <1>1, <1>2, <3>1, <3>6, <4>1 DEF Covered
    <3>. HIDE DEF own, old, net, aft, out, back
    <3>8. out = [v \in Users |-> IF v = a THEN own ELSE IF v = l THEN back ELSE draft[v]]
      BY <1>1, <2>2, <3>2, <3>3
    <3>. QED
      BY <2>2, <3>1, <3>5, <3>7, <3>8
  <2>. QED
    BY <2>1, <2>2
<1>5. Lent(r) => /\ back \in Budget /\ back.month = draft[l].month
                 /\ Covered(l, back, flow[l] + net[l])
  <2> SUFFICES ASSUME Lent(r)
               PROVE  /\ back \in Budget /\ back.month = draft[l].month
                      /\ Covered(l, back, flow[l] + net[l])
    OBVIOUS
  <2>1. back \in Budget /\ back.month = draft[l].month
    BY <1>1, RowFacts
  <2>2. back.remaining = draft[l].remaining + q.est
    BY <1>1 DEF TakesBack, Budget
  <2>3. /\ Covered(l, draft[l], flow[l] + q.net[l]) /\ net[l] = q.net[l] + q.est
        /\ draft[l].remaining \in Int /\ flow[l] \in Int /\ q.net[l] \in Int /\ Floor[l] \in Nat
    BY <1>1, <1>2, <1>3, <1>4, BudgetsAssumption DEF Budget
  <2>. HIDE DEF back, net
  <2>. QED
    BY <1>1, <2>1, <2>2, <2>3 DEF Covered
<1>6. /\ ref \in Budget /\ ref.month = month /\ Covered(a, ref, (flow[a] + net[a]) + q.est)
  <2>1. flow[a] + net[a] \in Int /\ q.est \in Int /\ aft.month <= month
    BY <1>1, <1>4
  <2>. HIDE DEF aft, net
  <2>2. /\ Adjusted(Current(aft, month), q.est) \in Budget
        /\ Adjusted(Current(aft, month), q.est).month = month
        /\ Covered(a, Adjusted(Current(aft, month), q.est), (flow[a] + net[a]) + q.est)
    BY <1>2, <1>4, <2>1, AdjustSerial
  <2>. QED
    BY <2>2 DEF Refunded, aft
<1>7. cur \in Budget
  BY <1>1, <1>4, CurrentFacts
<1>8. /\ allocs[a] = month - db[a].month
      /\ \A v \in Users \ {a} : allocs[v] = q.allocs[v]
  <2>1. aft.month = draft[a].month /\ aft.month \in Nat
    BY <1>1, <1>4 DEF Budget
  <2>. HIDE DEF aft
  <2>. QED
    BY <1>1, <2>1, GrantSerial
<1>9. RefundedRows(r) = [out EXCEPT ![a] = Overwrite(Overwrite(out[a], aft, cur), cur, ref)]
  BY DEF RefundedRows
<1>10. RefundedNet(r) = [net EXCEPT ![a] = net[a] + q.est]
  BY DEF RefundedNet
<1>. HIDE DEF aft, cur, ref, out, net, back, old, allocs
<1>11. Overwrite(Overwrite(out[a], aft, cur), cur, ref) = ref
  <2>1. out[a] = aft
    BY <1>1, <1>4
  <2>2. Overwrite(aft, aft, cur) = cur /\ Overwrite(cur, cur, ref) = ref
    BY <1>4, <1>6, <1>7, OverwriteFresh
  <2>. QED
    BY <2>1, <2>2
<1>12. \A v \in Users : RefundedRows(r)[v] =
          IF v = a THEN ref ELSE IF Lent(r) /\ v = l THEN back ELSE draft[v]
  BY <1>1, <1>4, <1>9, <1>11
<1>13. /\ RefundedNet(r)[a] = net[a] + q.est
       /\ \A v \in Users \ {a} : RefundedNet(r)[v] = net[v]
  BY <1>1, <1>4, <1>10
<1>14. ASSUME NEW v \in Users
       PROVE  /\ ~Holds(r, v) => RefundedRows(r)[v] = draft[v]
              /\ allocs[v] = RefundedRows(r)[v].month - db[v].month
              /\ Covered(v, RefundedRows(r)[v], flow[v] + RefundedNet(r)[v])
  <2>1. CASE v = a
    <3>1. flow[a] + RefundedNet(r)[a] = (flow[a] + net[a]) + q.est
      BY <1>1, <1>4, <1>13
    <3>. QED
      BY <1>1, <1>6, <1>8, <1>12, <2>1, <3>1
  <2>2. CASE v # a /\ Lent(r) /\ v = l
    BY <1>1, <1>5, <1>8, <1>12, <1>13, <2>2 DEF Informed
  <2>3. CASE v # a /\ ~(Lent(r) /\ v = l)
    <3>1. RefundedRows(r)[v] = draft[v] /\ RefundedNet(r)[v] = q.net[v]
      BY <1>4, <1>12, <1>13, <2>3
    <3>. QED
      BY <1>1, <1>8, <2>3, <3>1 DEF Informed
  <2>. QED
    BY <2>1, <2>2, <2>3
<1>. QED
  BY <1>1, <1>12, <1>14 DEF ref, allocs, aft

LEMMA RetrySerial ==
  ASSUME CreditInv, SerialInv, NEW r \in Requests, RetryBorrowing(r)
  PROVE  SerialInv'
<1> DEFINE q0 == req[r]
           a == q0.author
           allocs == Grant(r, a, AfterRelease(r), month)
           q == [q0 EXCEPT !.pc = "route", !.retried = TRUE, !.mine = Refunded(r),
                           !.net = RefundedNet(r), !.allocs = allocs]
<1>1. /\ At(r, "call") /\ draft' = RefundedRows(r)
      /\ req' = [req EXCEPT ![r] = q] /\ UNCHANGED <<db, flow, grants, spent>>
  BY DEF RetryBorrowing
<1>2. q0 \in Request /\ Staged(q0) /\ Active(r) /\ Informed(q0, draft) /\ q0.pc = "call"
  BY <1>1, RequestFacts, CallFacts, AloneFacts DEF At
<1>3. q0.todo = {} /\ a \in Authors
  BY <1>2 DEF Staged, Informed
<1>. HIDE DEF allocs
<1>4. /\ q.pc = "route" /\ q.mine = Refunded(r) /\ q.author = a /\ q.lender = q0.lender
      /\ q.todo = q0.todo /\ q.net = RefundedNet(r) /\ q.allocs = allocs
  BY <1>2 DEF Request
<1>. HIDE DEF q
<1>5. Running(q) /\ Informed(q, draft')
  BY <1>1, <1>3, <1>4, RefundSerial DEF Running, Informed, allocs
<1>. QED
  BY <1>1, <1>2, <1>5, AloneFacts, SerialStep

LEMMA GiveUpSerial ==
  ASSUME CreditInv, SerialInv, NEW r \in Requests, GiveUp(r)
  PROVE  SerialInv'
<1>1. /\ At(r, "call")
      /\ Commit(r, "502", RefundedRows(r), RefundedNet(r),
                Grant(r, req[r].author, AfterRelease(r), month))
  BY DEF GiveUp
<1>2. Active(r) /\ \A v \in Users : RefundedRows(r)[v] \in Budget
  BY <1>1, CallFacts, RefundFacts
<1>. QED
  BY <1>1, <1>2, RefundSerial, SerialCommit DEF Outcomes

LEMMA NoProviderSerial ==
  ASSUME CreditInv, SerialInv, NEW r \in Requests, NoProvider(r)
  PROVE  SerialInv'
<1>1. Active(r)
  BY DEF NoProvider, At, Active, Running
<1>2. CASE Rollback(r, "402")
  BY <1>1, <1>2, SerialRollback DEF Outcomes
<1>3. CASE Commit(r, "502", draft, req[r].net, req[r].allocs)
  BY <1>1, <1>3, AloneFacts, SerialCommit DEF Informed, Outcomes, CreditInv, TypeOK
<1>. QED
  BY <1>2, <1>3 DEF NoProvider

\* What an answer adds to is what the account has cost.
SpendGrows == \A u \in Users : spent'[u] >= spent[u]

LEMMA SameSpend == ASSUME CreditInv, spent' = spent PROVE SpendGrows
<1>1. \A u \in Users : spent[u] \in Nat
  BY DEF CreditInv, TypeOK
<1>. QED
  BY <1>1 DEF SpendGrows

LEMMA SucceedSpends ==
  ASSUME CreditInv, SerialInv, NEW r \in Requests, NEW cost \in Costs, Succeed(r, cost)
  PROVE  SpendGrows
<1>1. At(r, "call") /\ spent' = [spent EXCEPT ![req[r].acct] = req[r].monthly + cost]
  BY DEF Succeed, Spend
<1>2. Active(r) /\ cost \in Nat /\ spent \in [Users -> Nat]
  BY <1>1, CallFacts, GatewayAssumption DEF CreditInv, TypeOK
<1>3. req[r].acct \in Users
  BY <1>1, CallFacts
<1>4. req[r].monthly = spent[req[r].acct]
  BY <1>1, <1>2, AloneFacts DEF Informed, At
<1>. QED
  BY <1>1, <1>2, <1>3, <1>4 DEF SpendGrows

LEMMA AdvanceSerial ==
  ASSUME CreditInv, SerialInv, NEW r \in Requests, Advance(r)
  PROVE  SerialInv' /\ SpendGrows
<1>1. CASE \/ RenewLender(r) \/ RenewAuthor(r) \/ Charge(r) \/ Lend(r) \/ RetryBorrowing(r)
           \/ NoProvider(r) \/ GiveUp(r)
  <2>1. spent' = spent
    BY <1>1 DEF RenewLender, RenewAuthor, Charge, Lend, RetryBorrowing, NoProvider, GiveUp,
                Rollback
  <2>. QED
    BY <1>1, <2>1, SameSpend, RenewLenderSerial, RenewAuthorSerial, ChargeSerial, LendSerial,
       RetrySerial, NoProviderSerial, GiveUpSerial
<1>2. CASE \/ Quote(r) \/ Consume(r) \/ Route(r) \/ Pick(r) \/ Reserve(r) \/ Match(r)
           \/ Check(r) /\ ~Rollback(r, "402")
  <2>1. spent' = spent
    BY <1>2 DEF Quote, Consume, Route, Pick, Reserve, Match, Check, ReadLenders, Think
  <2>. QED
    BY <1>2, <2>1, SameSpend, MemorySerial
<1>3. CASE \/ CannotCharge(r) \/ NoLender(r) \/ AbortDeadlocked(r)
           \/ Check(r) /\ Rollback(r, "402")
  <2>1. \E out \in {"402", "unhandled", "fault"} : Rollback(r, out)
    BY <1>3, RefusalRollsBack DEF Refusal
  <2>2. Active(r)
    BY <1>3 DEF CannotCharge, NoLender, AbortDeadlocked, Check, At, Active, Running
  <2>. QED
    BY <2>1, <2>2, SerialRollback, SameSpend DEF Rollback, Outcomes
<1>4. CASE \E cost \in Costs : Succeed(r, cost)
  BY <1>4, SucceedSerial, SucceedSpends
<1>. QED
  BY <1>1, <1>2, <1>3, <1>4 DEF Advance

LEMMA NextSerial ==
  ASSUME MaxActive = 1, CreditInv, SerialInv, [Next]_vars
  PROVE  SerialInv' /\ SpendGrows
<1>1. CASE UNCHANGED <<db, draft, lock, flow, grants, spent, req>>
  <2>1. \A r \in Requests : Active(r)' <=> Active(r)
    BY <1>1 DEF Active
  <2>2. \A r \in Requests : Informed(req[r], draft)' <=> Informed(req[r], draft)
    BY <1>1 DEF Informed
  <2>3. \A r \in Requests : Unstarted(req[r])' <=> Unstarted(req[r])
    BY <1>1 DEF Unstarted
  <2>4. (\A u \in Users : grants[u] = 1 + db[u].month /\ Covered(u, db[u], flow[u]))'
    BY <1>1 DEF SerialInv, Covered
  <2>5. SerialInv'
    BY <2>1, <2>2, <2>3, <2>4 DEF SerialInv
  <2>. QED
    BY <1>1, <2>5, SameSpend
<1>2. ASSUME NEW r \in Requests, NEW u \in Authors, NEW est \in Estimates,
             NEW hard \in HardModes, NEW borrows \in BorrowModes,
             Begin(r, u, est, hard, borrows)
      PROVE  SerialInv' /\ SpendGrows
  BY <1>2, BeginSerial, SameSpend DEF Begin, Think
<1>3. ASSUME NEW r \in Requests, Advance(r) PROVE SerialInv' /\ SpendGrows
  BY <1>3, AdvanceSerial
<1>4. ASSUME NEW r \in Requests, Fault(r) PROVE SerialInv' /\ SpendGrows
  BY <1>4, SerialRollback, SameSpend DEF Fault, Rollback, Outcomes
<1>. QED
  BY <1>1, <1>2, <1>3, <1>4 DEF Next, NewMonth, vars

LEMMA SerialInit == Init => SerialInv
<1> SUFFICES ASSUME Init PROVE SerialInv
  OBVIOUS
<1>1. \A r \in Requests : ~Active(r) /\ Unstarted(req[r])
  BY DEF Init, NoRequest, Active, Running, Unstarted
<1>2. ASSUME NEW u \in Users PROVE grants[u] = 1 + db[u].month /\ Covered(u, db[u], flow[u])
  <2>1. PICK n \in UsedBefore :
          db[u] = [Allocated(0) EXCEPT !.used = n, !.remaining = Limit - n]
    BY DEF Init
  <2>2. db[u].month = 0 /\ db[u].used = n /\ db[u].remaining = Limit - n
    BY <2>1 DEF Allocated
  <2>3. grants[u] = 1 /\ flow[u] = -n
    BY <2>2 DEF Init
  <2>4. n \in Nat /\ Limit \in Nat /\ Limit - n = Limit + flow[u]
    BY <2>3, BudgetsAssumption, GatewayAssumption
  <2>5. ReservedAtStart /\ u \notin Authors => Limit - n >= Floor[u]
    BY DEF ReservedAtStart
  <2>. QED
    BY <2>2, <2>3, <2>4, <2>5 DEF Covered
<1>. QED
  BY <1>1, <1>2 DEF SerialInv

\* While requests do not overlap, all that a request has read stays so until it acts
\* on it, and its rows are accounted for by its ledger rows at every step.
THEOREM SerialHolds ==
  ASSUME MaxActive = 1
  PROVE  Spec => []SerialInv
<1>1. CreditInv /\ SerialInv /\ [Next]_vars => SerialInv'
  BY NextSerial
<1>. QED
  BY Invariance, SerialInit, <1>1, PTL DEF Spec

\* While requests do not overlap, user_budgets never shows a member less than its
\* ledger, in the first month: estimates, loans, refunds, releases, faults and the
\* second account included.
THEOREM CacheCovers ==
  ASSUME MaxActive = 1
  PROVE  Spec => []CacheCoversLedger
<1>1. SerialInv => CacheCoversLedger
  BY DEF SerialInv, Covered, CacheCoversLedger
<1>. QED
  BY SerialHolds, <1>1, PTL

\* While requests do not overlap, a member who only lends and had its
\* minimum_reserved_credits at first has it by the ledger, in the first month.
THEOREM LenderReserve ==
  ASSUME MaxActive = 1, ReservedAtStart
  PROVE  Spec => []LenderKeepsReserve
<1>1. SerialInv => LenderKeepsReserve
  BY DEF SerialInv, Covered, LenderKeepsReserve
<1>. QED
  BY SerialHolds, <1>1, PTL

\* While requests do not overlap, reset_if_needed allocates every month to a member
\* exactly once, wherever in a request the month ends.
THEOREM MonthlyOnce ==
  ASSUME MaxActive = 1
  PROVE  Spec => []AllocatedOnce
<1>1. SerialInv => AllocatedOnce
  BY DEF SerialInv, AllocatedOnce
<1>. QED
  BY SerialHolds, <1>1, PTL

\* While requests do not overlap, monthly_spent of an AI account never decreases.
THEOREM SpendingGrows ==
  ASSUME MaxActive = 1
  PROVE  Spec => AccountSpendGrows
<1>1. CreditInv /\ SerialInv /\ [Next]_vars => [\A u \in Users : spent'[u] >= spent[u]]_vars
  BY NextSerial DEF SpendGrows
<1>. QED
  BY Invariance, SerialHolds, <1>1, PTL DEF Spec, AccountSpendGrows
=============================================================================
