--------------------------- MODULE Routing_proofs ---------------------------
(***************************************************************************)
(* Proofs about Routing, for any members, accounts, settings and requests. *)
(***************************************************************************)
EXTENDS Routing, TLAPS, WellFoundedInduction

USE RoutingAssumption

-----------------------------------------------------------------------------
(* The choice of an account *)

\* A set of natural numbers has a least one.
LEMMA LeastNumber ==
  ASSUME NEW S \in SUBSET Nat, S # {}
  PROVE  \E n \in S : \A m \in S : n <= m
<1>. DEFINE Less == {p \in Nat \X Nat : p[1] < p[2]}
<1>1. IsWellFoundedOn(Less, Nat)
  <2>1. Less = OpToRel(<, Nat)
    BY Zenon DEF OpToRel
  <2>. QED
    BY <2>1, NatLessThanWellFounded, Zenon
<1>2. \E n \in S : \A m \in S : <<m, n>> \notin Less
  <2>. HIDE DEF Less
  <2>. QED
    BY <1>1, WFMin, Zenon
<1>3. PICK n \in S : \A m \in S : <<m, n>> \notin Less
  BY <1>2
<1>4. \A m \in S : ~ (m < n)
  BY <1>3
<1>. QED
  BY <1>4

\* What the database makes of an amount above whole cents: at most twice that.
LEMMA RoundedBound ==
  ASSUME NEW k \in Nat, NEW c \in Nat
  PROVE  /\ Rounded(Cent * k + c) \in Nat
         /\ Cent * Rounded(Cent * k + c) <= Cent * k + 2 * c
<1>1. PICK h \in Nat : h = Cent \div 2 /\ 2 * h <= Cent
  OBVIOUS
<1>2. PICK r \in Nat : r = Rounded(Cent * k + c) /\ Cent * r <= Cent * k + c + h
  BY <1>1 DEF Rounded
<1>3. CASE r <= k
  <2>1. Cent * r <= Cent * k
    BY <1>3
  <2>. QED
    BY <1>2, <2>1
<1>4. CASE r > k
  <2>1. Cent * (k + 1) <= Cent * r
    BY <1>4
  <2>2. Cent * (k + 1) = Cent * k + Cent
    OBVIOUS
  <2>3. Cent * r \in Nat /\ Cent * k \in Nat
    OBVIOUS
  <2>. QED
    BY <1>1, <1>2, <2>1, <2>2, <2>3
<1>. QED
  BY <1>2, <1>3, <1>4

\* Whatever two numbers rank its members, a set has a best one; the number of
\* the account itself breaks every tie.
LEMMA BestExists ==
  ASSUME NEW S \in SUBSET Nat, S # {}, NEW f \in [S -> Nat], NEW g \in [S -> Nat]
  PROVE  \E a \in S : \A b \in S \ {a} : Before(<<f[a], g[a], a>>, <<f[b], g[b], b>>)
<1>. DEFINE F == {f[a] : a \in S}
<1>1. PICK m \in F : \A n \in F : m <= n
  <2>1. F \in SUBSET Nat
    OBVIOUS
  <2>2. F # {}
    <3>1. PICK a \in S : f[a] \in F
      OBVIOUS
    <3>. QED
      BY <3>1
  <2>. HIDE DEF F
  <2>. QED
    BY <2>1, <2>2, LeastNumber
<1>. DEFINE T == {a \in S : f[a] = m}
            G == {g[a] : a \in T}
<1>2. T # {} /\ \A b \in S : m <= f[b]
  BY <1>1
<1>3. PICK k \in G : \A n \in G : k <= n
  <2>1. G \in SUBSET Nat /\ G # {}
    BY <1>2
  <2>. HIDE DEF G
  <2>. QED
    BY <2>1, LeastNumber
<1>. DEFINE U == {a \in T : g[a] = k}
<1>4. U # {} /\ \A b \in T : k <= g[b]
  BY <1>3
<1>5. PICK a \in U : \A b \in U : a <= b
  BY <1>4, LeastNumber
<1>6. ASSUME NEW b \in S \ {a}
      PROVE  Before(<<f[a], g[a], a>>, <<f[b], g[b], b>>)
  <2>1. f[a] = m /\ g[a] = k /\ f[a] \in Nat /\ g[a] \in Nat /\ f[b] \in Nat /\ g[b] \in Nat
    OBVIOUS
  <2>2. CASE b \in U
    BY <1>5, <2>1, <2>2 DEF Before
  <2>3. CASE b \in T \ U
    BY <1>4, <2>1, <2>3 DEF Before
  <2>4. CASE b \notin T
    BY <1>2, <2>1, <2>4 DEF Before
  <2>. QED
    BY <2>2, <2>3, <2>4
<1>. QED
  BY <1>6

\* Every policy takes an account when there is one to take.
LEMMA BestByExists ==
  ASSUME NEW p \in Policies, NEW u, NEW row \in Seq(Account), NEW now \in Seq(Account),
         NEW S \in SUBSET (DOMAIN row \cap DOMAIN now), S # {}
  PROVE  BestBy(p, u, S, row, now) # {}
<1>. DEFINE K(a) == Key(p, u, a, row, now)
            f == [a \in S |-> K(a)[1]]
            g == [a \in S |-> row[a].priority]
<1>1. S \subseteq Nat
  OBVIOUS
<1>2. ASSUME NEW a \in S
      PROVE  K(a) = <<f[a], g[a], a>> /\ f[a] \in Nat /\ g[a] \in Nat
  <2>1. row[a] \in Account /\ now[a] \in Account
    OBVIOUS
  <2>2. /\ row[a].priority \in Nat /\ row[a].spent \in Nat /\ now[a].used \in Nat
        /\ Rank[row[a].provider] \in Nat
    BY <2>1 DEF Account
  <2>3. Cent * row[a].spent \in Nat
    BY <2>2
  <2>4. PICK n \in Nat : K(a) = <<n, row[a].priority, a>>
    BY <2>2, <2>3 DEF Policies, Key, ByPriority, ByBalance, ByUsage, ByPrice
  <2>. QED
    BY <2>2, <2>4
<1>3. f \in [S -> Nat] /\ g \in [S -> Nat]
  BY <1>2
<1>4. PICK a \in S : \A b \in S \ {a} : Before(<<f[a], g[a], a>>, <<f[b], g[b], b>>)
  <2>. HIDE DEF f, g
  <2>. QED
    BY <1>1, <1>3, BestExists
<1>5. \A b \in S \ {a} : Before(K(a), K(b))
  <2>. HIDE DEF K, f, g
  <2>. QED
    BY <1>2, <1>4
<1>. QED
  BY <1>5 DEF BestBy

-----------------------------------------------------------------------------
(* The inductive invariant *)

\* What a request has read is an older state of the accounts: none is lost,
\* none changes its owner or provider, and the sums of costs only grow.  What
\* it may use belongs to the owner it was routed to, and it chooses from that.
RequestHolds(q, now) ==
  q.pc \in {"choose", "use", "run"} =>
    /\ Len(q.row) <= Len(now)
    /\ \A a \in 1 .. Len(q.row) :
         /\ now[a].owner = q.row[a].owner /\ now[a].provider = q.row[a].provider
         /\ Cent * q.row[a].spent <= 2 * now[a].total
    /\ q.usable \subseteq 1 .. Len(q.row)
    /\ \A a \in q.usable : q.row[a].owner = q.owner /\ (q.row[a].provider = Local => q.local)
    /\ q.pc # "choose" => q.choice \in q.usable
    /\ q.pc = "run" => now[q.choice].exists

RoutingInv == TypeOK /\ SpentIsCovered /\ \A s \in Slots : RequestHolds(req[s], account)

Grows(old, new) ==
  /\ Len(old) <= Len(new)
  /\ \A a \in 1 .. Len(old) :
       /\ new[a].owner = old[a].owner /\ new[a].provider = old[a].provider
       /\ old[a].total <= new[a].total

\* What a request holds stays true while the accounts grow under it.
LEMMA HoldsGrown ==
  ASSUME NEW old \in Seq(Account), NEW new \in Seq(Account), Grows(old, new),
         NEW q \in Request, RequestHolds(q, old),
         q.pc = "run" => new[q.choice].exists
  PROVE  RequestHolds(q, new)
<1>1. \A a \in 1 .. Len(old) : old[a] \in Account /\ new[a] \in Account
  BY DEF Grows
<1>2. \A a \in 1 .. Len(old) : old[a].total \in Nat /\ new[a].total \in Nat
  BY <1>1 DEF Account
<1>3. q.row \in Seq(Account)
  BY DEF Request
<1>4. \A a \in 1 .. Len(q.row) : Cent * q.row[a].spent \in Nat
  <2>1. \A a \in 1 .. Len(q.row) : q.row[a] \in Account
    BY <1>3
  <2>. QED
    BY <2>1 DEF Account
<1>5. ASSUME q.pc \in {"choose", "use", "run"}, NEW a \in 1 .. Len(q.row)
      PROVE  /\ new[a].owner = q.row[a].owner /\ new[a].provider = q.row[a].provider
             /\ Cent * q.row[a].spent <= 2 * new[a].total
  <2>1. a \in 1 .. Len(old)
    BY <1>3, <1>5 DEF RequestHolds
  <2>2. /\ old[a].owner = q.row[a].owner /\ old[a].provider = q.row[a].provider
        /\ Cent * q.row[a].spent <= 2 * old[a].total
    BY <1>5 DEF RequestHolds
  <2>3. /\ new[a].owner = old[a].owner /\ new[a].provider = old[a].provider
        /\ old[a].total <= new[a].total
    BY <2>1 DEF Grows
  <2>4. old[a].total \in Nat /\ new[a].total \in Nat /\ Cent * q.row[a].spent \in Nat
    BY <1>2, <1>4, <2>1
  <2>5. \A x, y, z \in Nat : x <= 2 * y /\ y <= z => x <= 2 * z
    OBVIOUS
  <2>6. Cent * q.row[a].spent <= 2 * new[a].total
    BY <2>2, <2>3, <2>4, <2>5, Zenon
  <2>. QED
    BY <2>2, <2>3, <2>6
<1>6. q.pc \in {"choose", "use", "run"} => Len(q.row) <= Len(new)
  BY <1>3 DEF RequestHolds, Grows
<1>. QED
  BY <1>5, <1>6 DEF RequestHolds

\* One account is changed.
LEMMA OneChanged ==
  ASSUME NEW old \in Seq(Account), NEW a \in DOMAIN old, NEW r \in Account,
         r.owner = old[a].owner, r.provider = old[a].provider, old[a].total <= r.total
  PROVE  /\ [old EXCEPT ![a] = r] \in Seq(Account)
         /\ Grows(old, [old EXCEPT ![a] = r])
         /\ DOMAIN [old EXCEPT ![a] = r] = DOMAIN old
<1>1. \A b \in 1 .. Len(old) : old[b].total \in Nat
  <2>1. \A b \in 1 .. Len(old) : old[b] \in Account
    OBVIOUS
  <2>. QED
    BY <2>1 DEF Account
<1>. QED
  BY <1>1 DEF Grows

\* The amounts of an account.
Covered(r) == Cent * r.spent <= 2 * r.total /\ r.used <= r.total /\ (r.used > 0 => r.ran)

\* The settings are well formed after a step.
Settled == policy' \in Policies /\ local' \in BOOLEAN /\ override' \in Overrides /\ special' \in Nat

\* Steps that leave the settings alone keep them so.
LEMMA SettingsStay == ASSUME RoutingInv, UNCHANGED settings PROVE Settled
BY DEF RoutingInv, TypeOK, settings, Settled

\* A step that changes accounts and leaves the requests alone.
LEMMA ManageStep ==
  ASSUME RoutingInv, account' \in Seq(Account), Grows(account, account'),
         \A a \in DOMAIN account' : Covered(account'[a]),
         Settled, UNCHANGED req, issued' \in Nat,
         \A s \in Slots : req[s].pc = "run" => account'[req[s].choice].exists
  PROVE  RoutingInv'
<1>1. TypeOK' /\ SpentIsCovered'
  BY DEF RoutingInv, TypeOK, SpentIsCovered, Covered, Settled
<1>2. ASSUME NEW s \in Slots PROVE RequestHolds(req[s], account')
  BY HoldsGrown DEF RoutingInv, TypeOK
<1>. QED
  BY <1>1, <1>2 DEF RoutingInv

\* A step of one request that changes no account.
LEMMA ServeStep ==
  ASSUME RoutingInv, NEW s \in Slots, NEW q \in Request, RequestHolds(q, account),
         req' = [req EXCEPT ![s] = q], UNCHANGED account, UNCHANGED settings, issued' \in Nat
  PROVE  RoutingInv'
BY DEF RoutingInv, TypeOK, SpentIsCovered, settings

-----------------------------------------------------------------------------
(* Every step keeps the invariant *)

\* The rows of accounts and what they hold.
LEMMA Rows ==
  ASSUME RoutingInv
  PROVE  /\ account \in Seq(Account) /\ DOMAIN account = 1 .. Len(account) /\ Len(account) \in Nat
         /\ req \in [Slots -> Request]
         /\ \A s \in Slots : req[s].pc = "run" =>
              req[s].choice \in DOMAIN account /\ account[req[s].choice].exists
<1>1. /\ account \in Seq(Account) /\ DOMAIN account = 1 .. Len(account) /\ Len(account) \in Nat
      /\ req \in [Slots -> Request]
  BY DEF RoutingInv, TypeOK
<1>2. ASSUME NEW s \in Slots, req[s].pc = "run"
      PROVE  req[s].choice \in DOMAIN account /\ account[req[s].choice].exists
  <2>1. Len(req[s].row) \in Nat
    BY <1>1 DEF Request
  <2>2. /\ Len(req[s].row) <= Len(account) /\ req[s].usable \subseteq 1 .. Len(req[s].row)
        /\ req[s].choice \in req[s].usable /\ account[req[s].choice].exists
    BY <1>2 DEF RoutingInv, RequestHolds
  <2>. QED
    BY <1>1, <2>1, <2>2
<1>. QED
  BY <1>1, <1>2

\* The conjuncts of TypeOK, by themselves.
LEMMA TypeFacts ==
  ASSUME RoutingInv, NEW a \in DOMAIN account
  PROVE  /\ account[a] \in Account
         /\ account[a].spent \in Nat /\ account[a].total \in Nat /\ account[a].used \in Nat
         /\ Covered(account[a])
<1>1. account[a] \in Account
  BY DEF RoutingInv, TypeOK
<1>. QED
  BY <1>1 DEF RoutingInv, SpentIsCovered, Covered, Account

\* Only the priority, the state or the key of account a is changed.
LEMMA RowChanged ==
  ASSUME RoutingInv, NEW a \in DOMAIN account, NEW r \in Account,
         r.owner = account[a].owner, r.provider = account[a].provider,
         account[a].total <= r.total, Covered(r),
         account' = [account EXCEPT ![a] = r],
         Settled, UNCHANGED req, issued' \in Nat,
         \A s \in Slots : req[s].pc = "run" /\ req[s].choice = a => r.exists
  PROVE  RoutingInv'
<1>1. account' \in Seq(Account) /\ Grows(account, account') /\ DOMAIN account' = DOMAIN account
  BY OneChanged DEF RoutingInv, TypeOK
<1>2. \A b \in DOMAIN account' : Covered(account'[b])
  BY <1>1, TypeFacts
<1>3. ASSUME NEW s \in Slots, req[s].pc = "run" PROVE account'[req[s].choice].exists
  <2>1. req[s].choice \in DOMAIN account /\ account[req[s].choice].exists
    BY <1>3, Rows
  <2>. QED
    BY <1>3, <2>1
<1>. QED
  BY <1>1, <1>2, <1>3, ManageStep

\* Counting an event keeps the count a number.
LEMMA CountedNat == ASSUME TypeOK, Counted PROVE issued' \in Nat
BY DEF TypeOK, Counted

\* A new account disturbs no request: it is appended.
LEMMA CreateAccountKeeps ==
  ASSUME RoutingInv, NEW u \in Users, NEW provider \in Providers, NEW priority \in Priorities,
         CreateAccount(u, provider, priority)
  PROVE  RoutingInv'
<1>. DEFINE r == [exists |-> TRUE, owner |-> u, provider |-> provider, key |-> "given",
                  active |-> TRUE, priority |-> priority, spent |-> 0, ran |-> FALSE,
                  used |-> 0, total |-> 0]
<1>1. r \in Account /\ Covered(r)
  BY DEF Account, Keys, Covered
<1>2. account' = Append(account, r) /\ account \in Seq(Account)
  BY DEF CreateAccount, RoutingInv, TypeOK
<1>. HIDE DEF r
<1>3. /\ account' \in Seq(Account) /\ Len(account') = Len(account) + 1
      /\ account'[Len(account) + 1] = r
      /\ \A a \in DOMAIN account : account'[a] = account[a]
  BY <1>1, <1>2
<1>4. Grows(account, account')
  BY <1>3, TypeFacts DEF Grows
<1>5. ASSUME NEW a \in DOMAIN account' PROVE Covered(account'[a])
  <2>1. a \in DOMAIN account \/ a = Len(account) + 1
    BY <1>3, Rows
  <2>. QED
    BY <1>1, <1>3, <2>1, TypeFacts
<1>6. \A s \in Slots : req[s].pc = "run" => account'[req[s].choice].exists
  BY <1>3, Rows
<1>. QED
  BY <1>3, <1>4, <1>5, <1>6, CountedNat, SettingsStay, ManageStep DEF CreateAccount, RoutingInv

\* An update changes neither owner, provider nor spending.
LEMMA UpdateAccountKeeps ==
  ASSUME RoutingInv, NEW u \in Users, NEW a \in DOMAIN account, NEW priority \in Priorities,
         NEW active \in BOOLEAN, NEW key \in Keys, UpdateAccount(u, a, priority, active, key)
  PROVE  RoutingInv'
<1>1. PICK r \in {[account[a] EXCEPT !.priority = priority], [account[a] EXCEPT !.active = active],
                  [account[a] EXCEPT !.key = key]} :
        account' = [account EXCEPT ![a] = r]
  BY DEF UpdateAccount
<1>2. /\ r \in Account /\ r.owner = account[a].owner /\ r.provider = account[a].provider
      /\ account[a].total <= r.total /\ Covered(r) /\ r.exists = account[a].exists
  BY <1>1, TypeFacts DEF Account, Covered
<1>3. account[a].exists
  BY DEF UpdateAccount, Manages
<1>. QED
  BY <1>1, <1>2, <1>3, CountedNat, SettingsStay, RowChanged DEF UpdateAccount, RoutingInv

\* Nor does a key that can no longer be decrypted.
LEMMA DamageKeeps ==
  ASSUME RoutingInv, NEW a \in DOMAIN account, Damage(a)
  PROVE  RoutingInv'
<1>. DEFINE r == [account[a] EXCEPT !.key = "damaged"]
<1>1. account' = [account EXCEPT ![a] = r]
  BY DEF Damage
<1>2. /\ r \in Account /\ r.owner = account[a].owner /\ r.provider = account[a].provider
      /\ account[a].total <= r.total /\ Covered(r) /\ r.exists = account[a].exists
  BY TypeFacts DEF Account, Covered, Keys
<1>. QED
  BY <1>1, <1>2, CountedNat, SettingsStay, RowChanged DEF Damage, RoutingInv

\* An account a request runs on is not deleted.
LEMMA DeleteAccountKeeps ==
  ASSUME RoutingInv, NEW u \in Users, NEW a \in DOMAIN account, DeleteAccount(u, a)
  PROVE  RoutingInv'
<1>. DEFINE r == [account[a] EXCEPT !.exists = FALSE]
<1>1. account' = [account EXCEPT ![a] = r]
  BY DEF DeleteAccount
<1>2. /\ r \in Account /\ r.owner = account[a].owner /\ r.provider = account[a].provider
      /\ account[a].total = r.total /\ account[a].spent = r.spent
      /\ account[a].used = r.used /\ account[a].ran = r.ran
  BY TypeFacts DEF Account
<1>. HIDE DEF r
<1>3. account[a].total <= r.total /\ Covered(r)
  BY <1>2, TypeFacts DEF Covered
<1>4. Settled
  BY Rows DEF DeleteAccount, Settled, RoutingInv, TypeOK
<1>. QED
  BY <1>1, <1>2, <1>3, <1>4, CountedNat, RowChanged DEF DeleteAccount, RoutingInv

\* The settings are no part of what requests hold.
LEMMA UpdateSettingsKeeps ==
  ASSUME RoutingInv, NEW u \in Users, UpdateSettings(u)
  PROVE  RoutingInv'
<1>1. policy' \in Policies
  BY DEF UpdateSettings, RoutingInv, TypeOK
<1>2. local' \in BOOLEAN
  BY DEF UpdateSettings, RoutingInv, TypeOK
<1>3. override' \in Overrides
  BY DEF UpdateSettings, RoutingInv, TypeOK
<1>4. special' \in Nat
  BY Rows DEF UpdateSettings, RoutingInv, TypeOK
<1>5. UNCHANGED account /\ UNCHANGED req /\ issued' \in Nat
  BY CountedNat DEF UpdateSettings, RoutingInv
<1>. QED
  BY <1>1, <1>2, <1>3, <1>4, <1>5 DEF RoutingInv, TypeOK, SpentIsCovered

\* A new month only sets the usage back.
LEMMA NewMonthKeeps ==
  ASSUME RoutingInv, NewMonth
  PROVE  RoutingInv'
<1>. DEFINE r(a) == [account[a] EXCEPT !.ran = FALSE, !.used = 0]
<1>1. ASSUME NEW a \in DOMAIN account
      PROVE  /\ r(a) \in Account /\ r(a).owner = account[a].owner
             /\ r(a).provider = account[a].provider /\ r(a).total = account[a].total
             /\ r(a).spent = account[a].spent /\ r(a).used = 0
             /\ r(a).exists = account[a].exists
  BY TypeFacts DEF Account
<1>2. ASSUME NEW a \in DOMAIN account
      PROVE  Covered(r(a)) /\ account[a].total <= r(a).total
  <2>. HIDE DEF r
  <2>. QED
    BY <1>1, TypeFacts DEF Covered
<1>3. account' = [a \in 1 .. Len(account) |-> r(a)]
  BY Rows DEF NewMonth
<1>. HIDE DEF r
<1>4. /\ account' \in Seq(Account) /\ Len(account') = Len(account)
      /\ \A a \in DOMAIN account : account'[a] = r(a)
      /\ DOMAIN account' = DOMAIN account
  BY <1>1, <1>3, Rows
<1>5. Grows(account, account') /\ \A a \in DOMAIN account' : Covered(account'[a])
  <2>1. \A a \in DOMAIN account' : Covered(account'[a])
    BY <1>2, <1>4, Zenon
  <2>2. \A a \in DOMAIN account :
          /\ account'[a].owner = account[a].owner /\ account'[a].provider = account[a].provider
          /\ account[a].total <= account'[a].total
    BY <1>1, <1>2, <1>4, Zenon
  <2>. QED
    BY <1>4, <2>1, <2>2, Rows DEF Grows
<1>6. \A s \in Slots : req[s].pc = "run" => account'[req[s].choice].exists
  BY <1>1, <1>4, Rows
<1>7. Settled /\ req' = req /\ issued' \in Nat
  <2>1. Settled
    BY SettingsStay DEF NewMonth
  <2>2. issued' \in Nat
    BY CountedNat DEF NewMonth, RoutingInv
  <2>. QED
    BY <2>1, <2>2 DEF NewMonth
<1>. QED
  BY <1>4, <1>5, <1>6, <1>7, ManageStep

\* A slot without a request holds nothing.
LEMMA IdleHolds == Idle \in Request /\ RequestHolds(Idle, account)
BY DEF Idle, Request, Policies, Overrides, RequestHolds

\* Replacing one request by a well-formed one keeps them all well formed.
LEMMA RequestTyped ==
  ASSUME RoutingInv, NEW s \in Slots
  PROVE  /\ req[s] \in Request /\ RequestHolds(req[s], account)
         /\ req[s].row \in Seq(Account) /\ Len(req[s].row) \in Nat
<1>1. req[s] \in Request /\ RequestHolds(req[s], account)
  BY Rows DEF RoutingInv
<1>. QED
  BY <1>1 DEF Request

\* A request that begins.
LEMMA BindKeeps ==
  ASSUME RoutingInv, NEW s \in Slots, NEW u \in Users, NEW owner \in Users, Bind(s, u, owner)
  PROVE  RoutingInv'
<1>. DEFINE q == [Idle EXCEPT !.pc = "bound", !.user = u, !.owner = owner,
                              !.override = override, !.special = special]
<1>1. q \in Request /\ RequestHolds(q, account)
  <2>1. override \in Overrides /\ special \in Nat
    BY DEF RoutingInv, TypeOK
  <2>2. q \in Request
    BY <2>1, IdleHolds DEF Request
  <2>3. q.pc = "bound"
    BY IdleHolds DEF Request
  <2>. QED
    BY <2>2, <2>3 DEF RequestHolds
<1>2. req' = [req EXCEPT ![s] = q] /\ UNCHANGED account /\ UNCHANGED settings /\ issued' \in Nat
  BY CountedNat DEF Bind, RoutingInv
<1>. HIDE DEF q
<1>. QED
  BY <1>1, <1>2, ServeStep

\* A request that reads the settings.
LEMMA ReadSettingsKeeps ==
  ASSUME RoutingInv, NEW s \in Slots, ReadSettings(s)
  PROVE  RoutingInv'
<1>. DEFINE q == [req[s] EXCEPT !.pc = "read", !.policy = policy, !.local = local]
<1>1. q \in Request /\ RequestHolds(q, account)
  <2>1. policy \in Policies /\ local \in BOOLEAN
    BY DEF RoutingInv, TypeOK
  <2>2. q \in Request
    BY <2>1, RequestTyped DEF Request
  <2>3. q.pc = "read"
    BY RequestTyped DEF Request
  <2>. QED
    BY <2>2, <2>3 DEF RequestHolds
<1>2. req' = [req EXCEPT ![s] = q] /\ UNCHANGED account /\ UNCHANGED settings /\ issued' \in Nat
  BY DEF ReadSettings, Goto, RoutingInv, TypeOK
<1>. HIDE DEF q
<1>. QED
  BY <1>1, <1>2, ServeStep

\* What a request reads as usable belongs to the owner it is routed to.
LEMMA ReadAccountsKeeps ==
  ASSUME RoutingInv, NEW s \in Slots, ReadAccounts(s)
  PROVE  RoutingInv'
<1>. DEFINE q == [req[s] EXCEPT !.pc = "choose", !.row = account,
                                !.usable = Usable(req[s].owner, req[s].local)]
<1>1. Usable(req[s].owner, req[s].local) \subseteq DOMAIN account
  BY DEF Usable
<1>2. q \in Request
  <2>1. Usable(req[s].owner, req[s].local) \in SUBSET Nat
    BY <1>1, Rows
  <2>2. req[s] \in Request /\ account \in Seq(Account)
    BY RequestTyped, Rows
  <2>. QED
    BY <2>1, <2>2, Zenon DEF Request
<1>3. /\ q.row = account /\ q.usable = Usable(req[s].owner, req[s].local) /\ q.pc = "choose"
      /\ q.owner = req[s].owner /\ q.local = req[s].local
  BY RequestTyped DEF Request
<1>. HIDE DEF q
<1>4. \A a \in q.usable : q.row[a].owner = q.owner /\ (q.row[a].provider = Local => q.local)
  BY <1>3 DEF Usable
<1>5. \A a \in 1 .. Len(q.row) : Cent * q.row[a].spent <= 2 * account[a].total
  BY <1>3, Rows, TypeFacts DEF Covered
<1>6. RequestHolds(q, account)
  BY <1>1, <1>3, <1>4, <1>5, Rows DEF RequestHolds
<1>7. req' = [req EXCEPT ![s] = q] /\ UNCHANGED account /\ UNCHANGED settings /\ issued' \in Nat
  BY DEF ReadAccounts, Goto, RoutingInv, TypeOK, q
<1>. QED
  BY <1>2, <1>6, <1>7, ServeStep

\* Whatever the override and the policy, what is chosen is usable.
LEMMA ChosenUsable ==
  ASSUME NEW q, q.override \in Overrides
  PROVE  Chosen(q) \subseteq q.usable
<1>1. \A S, p, u, row, now : BestBy(p, u, S, row, now) \subseteq S
  BY DEF BestBy
<1>2. Imposed(q, account) \subseteq q.usable
  BY <1>1 DEF Imposed, First, Overrides
<1>. QED
  BY <1>1, <1>2 DEF Chosen, First

\* The choice is one of those the request has read.
LEMMA ChooseKeeps ==
  ASSUME RoutingInv, NEW s \in Slots, Choose(s)
  PROVE  RoutingInv'
<1>1. UNCHANGED account /\ UNCHANGED settings /\ issued' \in Nat
  BY DEF Choose, Goto, RoutingInv, TypeOK
<1>2. CASE req' = [req EXCEPT ![s] = Idle]
  BY <1>1, <1>2, IdleHolds, ServeStep
<1>3. ASSUME NEW a \in Chosen(req[s]), req' = [req EXCEPT ![s] = [req[s] EXCEPT !.pc = "use", !.choice = a]]
      PROVE  RoutingInv'
  <2>. DEFINE q == [req[s] EXCEPT !.pc = "use", !.choice = a]
  <2>0. req[s].pc = "choose"
    BY DEF Choose, At
  <2>1. a \in req[s].usable /\ req[s].usable \subseteq Nat
    BY ChosenUsable, RequestTyped DEF RoutingInv, TypeOK, Request
  <2>2. /\ q \in Request /\ q.pc = "use" /\ q.choice = a /\ q.row = req[s].row
        /\ q.usable = req[s].usable /\ q.owner = req[s].owner /\ q.local = req[s].local
    BY <2>1, RequestTyped DEF Request
  <2>. HIDE DEF q
  <2>3. RequestHolds(q, account)
    BY <2>0, <2>1, <2>2, RequestTyped DEF RequestHolds
  <2>4. req' = [req EXCEPT ![s] = q]
    BY <1>3 DEF q
  <2>. QED
    BY <1>1, <2>2, <2>3, <2>4, ServeStep
<1>. QED
  BY <1>2, <1>3 DEF Choose, Goto

\* A request only runs on an account that still exists.
LEMMA UseKeeps ==
  ASSUME RoutingInv, NEW s \in Slots, Use(s)
  PROVE  RoutingInv'
<1>. DEFINE q == [req[s] EXCEPT !.pc = "run"]
<1>1. UNCHANGED account /\ UNCHANGED settings /\ issued' \in Nat
  BY DEF Use, Goto, RoutingInv, TypeOK
<1>2. CASE req' = [req EXCEPT ![s] = Idle]
  BY <1>1, <1>2, IdleHolds, ServeStep
<1>3. CASE account[req[s].choice].exists /\ req' = [req EXCEPT ![s] = q]
  <2>1. req[s].pc = "use"
    BY DEF Use, At
  <2>2. /\ q \in Request /\ q.pc = "run" /\ q.choice = req[s].choice /\ q.row = req[s].row
        /\ q.usable = req[s].usable /\ q.owner = req[s].owner /\ q.local = req[s].local
    BY RequestTyped DEF Request
  <2>. HIDE DEF q
  <2>3. RequestHolds(q, account)
    BY <1>3, <2>1, <2>2, RequestTyped DEF RequestHolds
  <2>. QED
    BY <1>1, <1>3, <2>2, <2>3, ServeStep
<1>. QED
  BY <1>2, <1>3 DEF Use, Goto

\* A request that fails leaves the accounts as they are.
LEMMA FailKeeps ==
  ASSUME RoutingInv, NEW s \in Slots, Fail(s)
  PROVE  RoutingInv'
<1>1. req' = [req EXCEPT ![s] = Idle] /\ UNCHANGED account /\ UNCHANGED settings /\ issued' \in Nat
  BY DEF Fail, Goto, RoutingInv, TypeOK
<1>. QED
  BY <1>1, IdleHolds, ServeStep

\* The account a request runs on keeps its owner; the costs that were read
\* before are among those that it has now.
LEMMA CompleteKeeps ==
  ASSUME RoutingInv, NEW s \in Slots, NEW cost \in Costs, Complete(s, cost)
  PROVE  RoutingInv'
<1>. DEFINE a == req[s].choice
            seen == req[s].row[a].spent
            n == Rounded(Cent * seen + cost)
            r == [account[a] EXCEPT !.spent = IF cost = 0 THEN @ ELSE n,
                    !.ran = TRUE, !.used = @ + cost, !.total = @ + cost]
<1>1. req[s].pc = "run" /\ cost \in Nat
  BY DEF Complete, At
<1>2. a \in DOMAIN account /\ account[a].exists
  BY <1>1, Rows
<1>3. a \in 1 .. Len(req[s].row)
  BY <1>1, RequestTyped DEF RequestHolds
<1>4. seen \in Nat /\ Cent * seen <= 2 * account[a].total
  <2>1. req[s].row[a] \in Account
    BY <1>3, RequestTyped
  <2>. QED
    BY <1>1, <1>3, <2>1, RequestTyped DEF RequestHolds, Account
<1>. HIDE DEF a, seen
<1>5. n \in Nat /\ Cent * n <= Cent * seen + 2 * cost
  BY <1>1, <1>4, RoundedBound
<1>. HIDE DEF n
<1>6. account[a] \in Account /\ account[a].total \in Nat /\ account[a].used \in Nat
      /\ account[a].spent \in Nat /\ Covered(account[a])
  BY <1>2, TypeFacts
<1>7. /\ r \in Account /\ r.owner = account[a].owner /\ r.provider = account[a].provider
      /\ r.total = account[a].total + cost /\ r.used = account[a].used + cost /\ r.ran = TRUE
      /\ r.spent = (IF cost = 0 THEN account[a].spent ELSE n)
      /\ r.exists = account[a].exists
  <2>1. (IF cost = 0 THEN account[a].spent ELSE n) \in Nat
    BY <1>5, <1>6
  <2>2. account[a].used + cost \in Nat /\ account[a].total + cost \in Nat
    BY <1>1, <1>6
  <2>3. PICK x, y, z \in Nat : /\ x = (IF cost = 0 THEN account[a].spent ELSE n)
                              /\ y = account[a].used + cost /\ z = account[a].total + cost
    BY <2>1, <2>2
  <2>4. r = [account[a] EXCEPT !.spent = x, !.ran = TRUE, !.used = y, !.total = z]
    BY <1>6, <2>3 DEF Account
  <2>. HIDE DEF r
  <2>5. r \in Account
    BY <1>6, <2>4 DEF Account
  <2>6. /\ r.owner = account[a].owner /\ r.provider = account[a].provider
        /\ r.exists = account[a].exists
        /\ r.spent = x /\ r.ran = TRUE /\ r.used = y /\ r.total = z
    BY <1>6, <2>4 DEF Account
  <2>. QED
    BY <2>3, <2>5, <2>6
<1>8. account' = [account EXCEPT ![a] = r]
  BY DEF Complete, a, seen, n
<1>. HIDE DEF r
<1>9. Cent * r.spent <= 2 * r.total
  <2>1. CASE cost = 0
    BY <1>6, <1>7, <2>1 DEF Covered
  <2>2. CASE cost # 0
    <3>1. \A x, y, z, c \in Nat : x <= y + 2 * c /\ y <= 2 * z => x <= 2 * (z + c)
      OBVIOUS
    <3>2. Cent * n \in Nat /\ Cent * seen \in Nat
      BY <1>4, <1>5
    <3>3. Cent * n <= 2 * (account[a].total + cost)
      BY <1>1, <1>4, <1>5, <1>6, <3>1, <3>2, Zenon
    <3>. QED
      BY <1>7, <2>2, <3>3
  <2>. QED
    BY <2>1, <2>2
<1>10. Covered(r) /\ account[a].total <= r.total
  BY <1>1, <1>6, <1>7, <1>9 DEF Covered
<1>11. /\ account' \in Seq(Account) /\ Grows(account, account') /\ DOMAIN account' = DOMAIN account
       /\ account'[a] = r /\ \A b \in DOMAIN account \ {a} : account'[b] = account[b]
  BY <1>2, <1>7, <1>8, <1>10, OneChanged, Rows
<1>12. \A b \in DOMAIN account' : Covered(account'[b])
  BY <1>10, <1>11, TypeFacts
<1>13. req' = [req EXCEPT ![s] = Idle] /\ UNCHANGED settings /\ issued' \in Nat
  BY DEF Complete, Goto, RoutingInv, TypeOK
<1>14. TypeOK' /\ SpentIsCovered'
  BY <1>11, <1>12, <1>13, IdleHolds DEF RoutingInv, TypeOK, SpentIsCovered, Covered, settings
<1>15. ASSUME NEW t \in Slots PROVE RequestHolds(req'[t], account')
  <2>1. CASE t = s
    BY <1>13, <2>1, Rows DEF Idle, RequestHolds
  <2>2. CASE t # s
    <3>1. req'[t] = req[t]
      BY <1>13, <2>2, Rows
    <3>2. req[t].pc = "run" => account'[req[t].choice].exists
      BY <1>2, <1>7, <1>11, Rows
    <3>. QED
      BY <1>11, <3>1, <3>2, HoldsGrown, RequestTyped, Rows
  <2>. QED
    BY <2>1, <2>2
<1>. QED
  BY <1>14, <1>15 DEF RoutingInv

-----------------------------------------------------------------------------
(* The theorems *)

\* The invariant holds at first.
LEMMA InitHolds == Init => RoutingInv
<1>. SUFFICES ASSUME Init PROVE RoutingInv
  OBVIOUS
<1>1. req \in [Slots -> Request] /\ \A s \in Slots : req[s] = Idle
  BY IdleHolds DEF Init
<1>2. TypeOK
  BY <1>1 DEF Init, TypeOK, Policies, Overrides
<1>3. \A s \in Slots : RequestHolds(req[s], account)
  BY <1>1, IdleHolds
<1>. QED
  BY <1>2, <1>3 DEF Init, RoutingInv, SpentIsCovered

\* Every step keeps the invariant.
LEMMA NextKeeps == RoutingInv /\ [Next]_vars => RoutingInv'
<1>. SUFFICES ASSUME RoutingInv, [Next]_vars PROVE RoutingInv'
  OBVIOUS
<1>1. CASE UNCHANGED vars
  BY <1>1 DEF vars, RoutingInv, TypeOK, SpentIsCovered
<1>2. ASSUME NEW u \in Users, Manage(u) PROVE RoutingInv'
  <2>1. \A k \in {"given", "blank"} : k \in Keys
    BY DEF Keys
  <2>. QED
    BY <1>2, <2>1, CreateAccountKeeps, UpdateAccountKeeps, DeleteAccountKeeps, UpdateSettingsKeeps
       DEF Manage
<1>3. ASSUME NEW s \in Slots, Serve(s) PROVE RoutingInv'
  BY <1>3, BindKeeps, ReadSettingsKeeps, ReadAccountsKeeps, ChooseKeeps, UseKeeps, FailKeeps, CompleteKeeps
     DEF Serve
<1>4. ASSUME NEW a \in DOMAIN account, Damage(a) PROVE RoutingInv'
  BY <1>4, DamageKeeps
<1>5. CASE NewMonth
  BY <1>5, NewMonthKeeps
<1>. QED
  BY <1>1, <1>2, <1>3, <1>4, <1>5 DEF Next

\* The inductive invariant holds in every behaviour of the accounts and the
\* requests routed to them.
THEOREM Invariant == Spec => []RoutingInv
<1>1. Init => RoutingInv
  BY InitHolds
<1>2. RoutingInv /\ [Next]_vars => RoutingInv'
  BY NextKeeps
<1>. QED
  BY <1>1, <1>2, PTL DEF Spec

\* Accounts, settings and requests are always well formed.
THEOREM TypeCorrect == Spec => []TypeOK
<1>1. RoutingInv => TypeOK
  BY DEF RoutingInv
<1>. QED
  BY <1>1, Invariant, PTL

\* A request never runs on the account of anybody but the owner it was routed
\* to, nor on a local model that was not allowed when it began (select).
THEOREM AlwaysRunsOnOwner == Spec => []RunsOnOwner
<1>1. RoutingInv => RunsOnOwner
  <2>. SUFFICES ASSUME RoutingInv, NEW s \in Slots, req[s].pc \in {"use", "run"}
                PROVE  /\ req[s].choice \in DOMAIN account
                       /\ account[req[s].choice].owner = req[s].owner
                       /\ account[req[s].choice].provider = Local => req[s].local
                       /\ req[s].pc = "run" => account[req[s].choice].exists
    BY DEF RunsOnOwner
  <2>1. /\ req[s].usable \subseteq 1 .. Len(req[s].row) /\ req[s].choice \in req[s].usable
        /\ req[s].pc = "run" => account[req[s].choice].exists
        /\ Len(req[s].row) <= Len(account)
    BY RequestTyped DEF RequestHolds
  <2>2. /\ account[req[s].choice].owner = req[s].owner
        /\ account[req[s].choice].provider = Local => req[s].local
    BY <2>1, RequestTyped DEF RequestHolds
  <2>. QED
    BY <2>1, <2>2, RequestTyped, Rows
<1>. QED
  BY <1>1, Invariant, PTL

\* However many completions of requests overlap, monthly_spent is at most
\* twice what the requests of the account have cost.
THEOREM AlwaysSpentIsCovered == Spec => []SpentIsCovered
<1>1. RoutingInv => SpentIsCovered
  BY DEF RoutingInv
<1>. QED
  BY <1>1, Invariant, PTL

\* With a usable account a request is never left without one: each policy has
\* a best account, and an override that names none leaves it to the policy.
CanChoose == \A s \in Slots : At(s, "choose") /\ req[s].usable # {} => Chosen(req[s]) # {}

THEOREM AlwaysCanChoose == Spec => []CanChoose
<1>1. ASSUME RoutingInv, NEW s \in Slots, At(s, "choose"), req[s].usable # {}
      PROVE  Chosen(req[s]) # {}
  <2>. DEFINE q == req[s]
  <2>1. q.usable \in SUBSET (DOMAIN q.row \cap DOMAIN account)
    BY <1>1, RequestTyped, Rows DEF RequestHolds, At
  <2>2. q.policy \in Policies /\ "priority" \in Policies
    BY <1>1, RequestTyped DEF Request, Policies
  <2>3. /\ BestBy(q.policy, q.user, q.usable, q.row, account) # {}
        /\ First(q.usable, q.row, account) # {}
    BY <1>1, <2>1, <2>2, BestByExists, RequestTyped, Rows DEF First
  <2>. QED
    BY <2>3 DEF Chosen
<1>2. RoutingInv => CanChoose
  BY <1>1 DEF CanChoose
<1>. QED
  BY <1>2, Invariant, PTL

\* An account that is not fit for use is taken up by no request anew.
THEOREM AlwaysRetiredStaysUnused == Spec => RetiredStaysUnused
<1>. DEFINE Holding(q, a) == \/ q.pc = "choose" /\ a \in q.usable
                             \/ q.pc \in {"use", "run"} /\ q.choice = a
<1>1. ASSUME RoutingInv, NEW s \in Slots, Serve(s), NEW a \in DOMAIN account,
             Holding(req'[s], a)
      PROVE  Fit(a) \/ Holding(req[s], a)
  <2>1. req[s] \in Request /\ req \in [Slots -> Request]
    BY <1>1, RequestTyped DEF RoutingInv, TypeOK
  <2>2. ~Holding(Idle, a)
    BY DEF Idle
  <2>3. ASSUME NEW n, req' = [req EXCEPT ![s] = n] PROVE req'[s] = n
    BY <2>1, <2>3
  <2>4. ASSUME NEW u \in Users, NEW owner \in Users, Bind(s, u, owner) PROVE FALSE
    <3>1. req'[s].pc = "bound"
      BY <2>1, <2>4 DEF Bind, Idle
    <3>. QED
      BY <1>1, <3>1
  <2>5. ASSUME ReadSettings(s) PROVE FALSE
    <3>1. req'[s].pc = "read"
      BY <2>1, <2>5 DEF ReadSettings, Goto, Request
    <3>. QED
      BY <1>1, <3>1
  <2>6. ASSUME ReadAccounts(s) PROVE Fit(a)
    <3>1. req'[s].pc = "choose" /\ req'[s].usable = Usable(req[s].owner, req[s].local)
      BY <2>1, <2>6 DEF ReadAccounts, Goto, Request
    <3>. QED
      BY <1>1, <3>1 DEF Usable, Fit
  <2>7. ASSUME Choose(s) PROVE Holding(req[s], a)
    <3>1. req'[s] # Idle
      BY <1>1, <2>2
    <3>2. PICK c \in Chosen(req[s]) : req'[s] = [req[s] EXCEPT !.pc = "use", !.choice = c]
      BY <2>1, <2>7, <3>1 DEF Choose, Goto
    <3>3. req'[s].pc = "use" /\ req'[s].choice = c
      BY <2>1, <3>2 DEF Request
    <3>4. c \in req[s].usable
      BY <1>1, <2>1, <2>7, ChosenUsable DEF Choose, At, Request
    <3>. QED
      BY <1>1, <2>7, <3>3, <3>4 DEF Choose, At
  <2>8. ASSUME Use(s) PROVE Holding(req[s], a)
    <3>1. req'[s] # Idle
      BY <1>1, <2>2
    <3>2. req'[s] = [req[s] EXCEPT !.pc = "run"]
      BY <2>1, <2>8, <3>1 DEF Use, Goto
    <3>3. req'[s].pc = "run" /\ req'[s].choice = req[s].choice
      BY <2>1, <3>2 DEF Request
    <3>. QED
      BY <1>1, <2>8, <3>3 DEF Use, At
  <2>9. ASSUME NEW cost \in Costs, Fail(s) \/ Complete(s, cost) PROVE FALSE
    <3>1. req'[s] = Idle
      BY <2>1, <2>9 DEF Fail, Complete, Goto
    <3>. QED
      BY <1>1, <2>2, <3>1
  <2>10. ASSUME Fail(s) PROVE FALSE
    <3>1. req'[s] = Idle
      BY <2>1, <2>10 DEF Fail, Goto
    <3>. QED
      BY <1>1, <2>2, <3>1
  <2>. HIDE DEF Holding
  <2>. QED
    BY <1>1, <2>4, <2>5, <2>6, <2>7, <2>8, <2>9, <2>10 DEF Serve
<1>2. ASSUME RoutingInv, [Next]_vars
      PROVE  req' = req \/ \E s \in Slots : Serve(s) /\ \A t \in Slots \ {s} : req'[t] = req[t]
  <2>1. ASSUME NEW s \in Slots, Serve(s)
        PROVE  \A t \in Slots \ {s} : req'[t] = req[t]
    <3>1. \E q : req' = [req EXCEPT ![s] = q]
      BY <2>1 DEF Serve, Bind, ReadSettings, ReadAccounts, Choose, Use, Fail, Complete, Goto
    <3>. QED
      BY <1>2, <3>1, RequestTyped, Rows
  <2>. QED
    BY <1>2, <2>1 DEF Next, Manage, CreateAccount, UpdateAccount, DeleteAccount, UpdateSettings,
                     Damage, NewMonth, vars
<1>3. ASSUME RoutingInv, [Next]_vars, NEW a \in DOMAIN account, ~Fit(a), ~Held(a)
      PROVE  ~Held(a)'
  <2>1. \A s \in Slots : ~Holding(req[s], a)
    BY <1>3 DEF Held, At
  <2>2. \A s \in Slots : ~Holding(req'[s], a)
    <3>. HIDE DEF Holding
    <3>. QED
      BY <1>1, <1>2, <1>3, <2>1
  <2>. QED
    BY <2>2 DEF Held, At
<1>4. RoutingInv /\ [Next]_vars =>
        [\A a \in DOMAIN account : ~Fit(a) /\ ~Held(a) => ~Held(a)']_vars
  BY <1>3
<1>. QED
  BY <1>4, Invariant, PTL DEF Spec, RetiredStaysUnused
=============================================================================
