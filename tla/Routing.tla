------------------------------ MODULE Routing ------------------------------
(***************************************************************************)
(* The AI accounts of one workspace and the routing engine, which decides  *)
(* on whose behalf a chat request runs: on which of one owner's accounts.  *)
(*                                                                         *)
(* A request binds the demo mode's override when it comes in, reads the    *)
(* workspace's settings, then the owner's accounts, then what was used     *)
(* this month, decides by what it holds, and runs the provider with the    *)
(* account's credentials; accounts and settings can change in between.     *)
(* The gateway asks first for the sender's own accounts, then for those of *)
(* each lender in turn; budgets are the matter of Gateway.                 *)
(***************************************************************************)
EXTENDS Integers, Sequences, FiniteSets

CONSTANTS
  Users,         \* the members of the workspace
  Creator,       \* the member who created it
  Admins,        \* the members who may manage every account and the settings
  Providers,     \* AI providers
  Keyless,       \* those that need no credentials
  Local,         \* the one that runs local models
  Rank,          \* provider_rank: the price order of the providers
  DevKeys,       \* the providers a development server has keys of its own for
  Priorities,    \* priorities of accounts
  Costs,         \* what a request can cost
  Cent,          \* what a cent is worth in the unit of costs
  None,          \* no user
  Slots,         \* requests the server can be handling at the same time
  MaxAccounts,   \* bound: accounts ever made
  MaxEvents      \* bound: requests of all kinds, and other events, ever

ASSUME RoutingAssumption ==
  /\ Admins \subseteq Users /\ Creator \in Users /\ None \notin Users
  /\ Keyless \subseteq Providers /\ Local \in Keyless /\ DevKeys \subseteq Providers
  /\ Rank \in [Providers -> Nat]
  /\ Priorities \subseteq Nat /\ Costs \subseteq Nat /\ Cent \in Nat \ {0}
  /\ MaxAccounts \in Nat /\ MaxEvents \in Nat

VARIABLES
  account,   \* the AI accounts, in the order they were made
  policy,    \* the workspace's routing policy
  local,     \* allow_local_models
  override,  \* the demo mode's routing override
  special,   \* the account it names, 0 for none
  req,       \* the request in each slot
  issued     \* requests of all kinds, and other events, so far

vars == <<account, policy, local, override, special, req, issued>>
settings == <<policy, local, override, special>>

Policies == {"owner_first", "balanced", "lowest_usage", "cheapest", "priority"}
Keys == {"given", "blank", "damaged"}
Overrides == {"normal", "first", "second", "random", "specific"}

\* spent is monthly_spent, in cents; ran and used sum up its completed requests
\* of this month, total those of all months.
Account == [exists : BOOLEAN, owner : Users, provider : Providers, key : Keys,
            active : BOOLEAN, priority : Priorities,
            spent : Nat, ran : BOOLEAN, used : Nat, total : Nat]

\* What a request for user, on owner's accounts, holds: the override it is bound
\* to, the settings it read, the usable accounts and the rows of all it read,
\* and its choice (0: none).
Request == [pc : {"none", "bound", "read", "choose", "use", "run"},
            user : Users \cup {None}, owner : Users \cup {None},
            override : Overrides, special : Nat, policy : Policies, local : BOOLEAN,
            usable : SUBSET Nat, row : Seq(Account), choice : Nat]
Idle == [pc |-> "none", user |-> None, owner |-> None,
         override |-> "normal", special |-> 0, policy |-> "owner_first",
         local |-> TRUE, usable |-> {}, row |-> <<>>, choice |-> 0]

Init ==
  /\ account = <<>>
  /\ policy = "owner_first" /\ local = TRUE /\ override = "normal" /\ special = 0
  /\ req = [s \in Slots |-> Idle]
  /\ issued = 0

TypeOK ==
  /\ account \in Seq(Account)
  /\ policy \in Policies /\ local \in BOOLEAN /\ override \in Overrides /\ special \in Nat
  /\ req \in [Slots -> Request]
  /\ issued \in Nat

-----------------------------------------------------------------------------
\* Accounts and settings.

Counted == issued < MaxEvents /\ issued' = issued + 1

\* (One made inactive, or with a blank key, is one that is updated at once.)
CreateAccount(u, provider, priority) ==
  /\ Len(account) < MaxAccounts
  /\ account' = Append(account,
       [exists |-> TRUE, owner |-> u, provider |-> provider, key |-> "given", active |-> TRUE,
        priority |-> priority, spent |-> 0, ran |-> FALSE, used |-> 0, total |-> 0])
  /\ Counted /\ UNCHANGED <<settings, req>>

\* can_manage_account: its owner and those who manage the workspace.
Manages(u, a) == account[a].exists /\ (account[a].owner = u \/ u \in Admins)

\* The columns that are given are written, whatever else has changed.
UpdateAccount(u, a, priority, active, key) ==
  /\ Manages(u, a)
  /\ account' \in {[account EXCEPT ![a].priority = priority],
                   [account EXCEPT ![a].active = active],
                   [account EXCEPT ![a].key = key]}
  /\ Counted /\ UNCHANGED <<settings, req>>

\* The server can no longer decrypt a key.
Damage(a) ==
  /\ account[a].exists
  /\ account' = [account EXCEPT ![a].key = "damaged"]
  /\ Counted /\ UNCHANGED <<settings, req>>

\* A request that runs has a row that refers to the account: deleting waits.
DeleteAccount(u, a) ==
  /\ Manages(u, a)
  /\ ~\E s \in Slots : req[s].pc = "run" /\ req[s].choice = a
  /\ account' = [account EXCEPT ![a].exists = FALSE]
  /\ special' = IF special = a THEN 0 ELSE special
  /\ Counted /\ UNCHANGED <<policy, local, override, req>>

UpdateSettings(u) ==
  /\ u \in Admins
  /\ \/ policy' \in Policies /\ UNCHANGED <<local, override, special>>
     \/ local' = ~local /\ UNCHANGED <<policy, override, special>>
     \/ /\ override' \in Overrides
        /\ special' \in IF override' = "specific"
                       THEN {0} \cup {a \in DOMAIN account : account[a].exists} ELSE {0}
        /\ UNCHANGED <<policy, local>>
  /\ Counted /\ UNCHANGED <<account, req>>

\* What was used in a month that has ended is not counted; monthly_spent is
\* never set back.
NewMonth ==
  /\ account' = [a \in DOMAIN account |-> [account[a] EXCEPT !.ran = FALSE, !.used = 0]]
  /\ Counted /\ UNCHANGED <<settings, req>>

-----------------------------------------------------------------------------
\* The policies: each ranks the accounts by a key, the smallest is the best.
\* Of two accounts that are alike the older one comes first, because the list
\* is sorted by priority and age.

Before(k, l) ==
  \/ k[1] < l[1]
  \/ k[1] = l[1] /\ k[2] < l[2]
  \/ k[1] = l[1] /\ k[2] = l[2] /\ k[3] < l[3]

\* row: the accounts as the request has read them; now: as they are, for the
\* usage, which is read last.
ByPriority(a, row) == <<0, row[a].priority, a>>
ByBalance(a, row, now) == <<IF now[a].ran THEN now[a].used ELSE Cent * row[a].spent, row[a].priority, a>>
ByUsage(a, row, now) == <<now[a].used, row[a].priority, a>>
ByPrice(a, row) == <<Rank[row[a].provider], row[a].priority, a>>

Key(p, u, a, row, now) ==
  CASE p = "priority" \/ (p = "owner_first" /\ u = Creator) -> ByPriority(a, row)
    [] p = "balanced" \/ (p = "owner_first" /\ u # Creator) -> ByBalance(a, row, now)
    [] p = "lowest_usage" -> ByUsage(a, row, now)
    [] p = "cheapest" -> ByPrice(a, row)

\* The best of S: one account, or none when S is empty.
BestBy(p, u, S, row, now) ==
  {a \in S : \A b \in S \ {a} : Before(Key(p, u, a, row, now), Key(p, u, b, row, now))}

First(S, row, now) == BestBy("priority", None, S, row, now)

\* filter_healthy_accounts and _check_credentials, of the active ones.
Healthy(r) ==
  \/ r.provider \in Keyless
  \/ r.key = "given"
  \/ r.key = "blank" /\ r.provider \in DevKeys
Usable(owner, allowed) ==
  {a \in DOMAIN account :
     /\ account[a].exists /\ account[a].active /\ account[a].owner = owner
     /\ account[a].provider = Local => allowed
     /\ Healthy(account[a])}

\* Mutant: the account named is not looked up among those of the owner.
ImposedUnchecked(q, now) ==
  IF q.override = "specific" THEN {q.special} \cap DOMAIN q.row ELSE {}

\* What the demo mode imposes: nothing, or accounts of which it takes one.
Imposed(q, now) ==
  LET first == First(q.usable, q.row, now) IN
  CASE q.override = "normal" -> {}
    [] q.override = "first" -> first
    [] q.override = "second" ->
         IF q.usable \subseteq first THEN first ELSE First(q.usable \ first, q.row, now)
    [] q.override = "random" -> q.usable
    [] q.override = "specific" -> q.usable \cap {q.special}

\* A sender's own accounts are taken in the order of their priorities; the
\* policy is for those of a lender.
Chosen(q) ==
  IF Imposed(q, account) # {} THEN Imposed(q, account)
  ELSE IF q.owner = q.user THEN First(q.usable, q.row, account)
  ELSE BestBy(q.policy, q.user, q.usable, q.row, account)

-----------------------------------------------------------------------------
\* Requests.

At(s, pc) == req[s].pc = pc
Goto(s, q) == req' = [req EXCEPT ![s] = q] /\ UNCHANGED issued

Bind(s, u, owner) ==
  /\ At(s, "none") /\ Counted
  /\ req' = [req EXCEPT ![s] = [Idle EXCEPT !.pc = "bound", !.user = u, !.owner = owner,
                                            !.override = override, !.special = special]]
  /\ UNCHANGED <<account, settings>>

ReadSettings(s) ==
  /\ At(s, "bound")
  /\ Goto(s, [req[s] EXCEPT !.pc = "read", !.policy = policy, !.local = local])
  /\ UNCHANGED <<account, settings>>

ReadAccounts(s) ==
  /\ At(s, "read")
  /\ Goto(s, [req[s] EXCEPT !.pc = "choose", !.row = account,
                            !.usable = Usable(req[s].owner, req[s].local)])
  /\ UNCHANGED <<account, settings>>

\* Without an account to use this part of the request is over; so it is when
\* the credentials of the one chosen, which a free provider would not need,
\* cannot be decrypted.
Choose(s) ==
  LET q == req[s] IN
  /\ At(s, "choose")
  /\ \/ /\ q.usable = {}
        /\ Goto(s, Idle)
     \/ \E a \in Chosen(q) :
          Goto(s, IF q.row[a].provider # Local /\ q.row[a].key = "damaged" THEN Idle
                  ELSE [q EXCEPT !.pc = "use", !.choice = a])
  /\ UNCHANGED <<account, settings>>

\* The row of the AI request refers to the account: refused if that is gone.
Use(s) ==
  /\ At(s, "use")
  /\ Goto(s, IF account[req[s].choice].exists THEN [req[s] EXCEPT !.pc = "run"] ELSE Idle)
  /\ UNCHANGED <<account, settings>>

\* The provider fails: the request costs nothing.
Fail(s) ==
  /\ At(s, "run")
  /\ Goto(s, Idle)
  /\ UNCHANGED <<account, settings>>

\* What the database keeps of an amount: cents.
Rounded(amount) == (amount + Cent \div 2) \div Cent

\* monthly_spent is what the request has read plus what it cost, and is not
\* written when that is the same; the usage is a sum over the requests.
Complete(s, cost) ==
  LET a == req[s].choice
      seen == req[s].row[a].spent
  IN
  /\ At(s, "run")
  /\ account' = [account EXCEPT
       ![a].spent = IF cost = 0 THEN @ ELSE Rounded(Cent * seen + cost),
       ![a].ran = TRUE, ![a].used = @ + cost, ![a].total = @ + cost]
  /\ Goto(s, Idle)
  /\ UNCHANGED settings

-----------------------------------------------------------------------------
Manage(u) ==
  \/ \E provider \in Providers, priority \in Priorities : CreateAccount(u, provider, priority)
  \/ \E a \in DOMAIN account, priority \in Priorities, active \in BOOLEAN, key \in {"given", "blank"} :
       UpdateAccount(u, a, priority, active, key)
  \/ \E a \in DOMAIN account : DeleteAccount(u, a)
  \/ UpdateSettings(u)

Serve(s) ==
  \/ \E u, owner \in Users : Bind(s, u, owner)
  \/ ReadSettings(s)
  \/ ReadAccounts(s)
  \/ Choose(s)
  \/ Use(s)
  \/ Fail(s)
  \/ \E cost \in Costs : Complete(s, cost)

Next ==
  \/ \E u \in Users : Manage(u)
  \/ \E s \in Slots : Serve(s)
  \/ \E a \in DOMAIN account : Damage(a)
  \/ NewMonth

Spec == Init /\ [][Next]_vars

-----------------------------------------------------------------------------
\* A request runs on an account of the owner it was routed to, whatever has
\* been done to accounts, policies and overrides since it began: nobody pays
\* for a third person's request, and a local model runs only if it was allowed
\* (load_user_accounts, filter_healthy_accounts, try_override).
RunsOnOwner ==
  \A s \in Slots : req[s].pc \in {"use", "run"} =>
    LET q == req[s] IN
    /\ q.choice \in DOMAIN account
    /\ account[q.choice].owner = q.owner
    /\ account[q.choice].provider = Local => q.local
    /\ req[s].pc = "run" => account[q.choice].exists

\* An account that is switched off, has lost its key or is deleted is taken up
\* by no request any more, until it is fit again: those that had read it before
\* may still run on it, but nobody else does, not even one whose override names
\* it (load_user_accounts, _check_credentials, try_override).
Fit(a) == account[a].exists /\ account[a].active /\ Healthy(account[a])
Held(a) == \E s \in Slots : \/ At(s, "choose") /\ a \in req[s].usable
                            \/ req[s].pc \in {"use", "run"} /\ req[s].choice = a
RetiredStaysUnused ==
  [][\A a \in DOMAIN account : ~Fit(a) /\ ~Held(a) => ~Held(a)']_vars

\* monthly_spent, which the balanced policy compares with sums over requests,
\* loses the costs of requests that overlap and is rounded, but never shows
\* more than twice what the account's requests have cost.
SpentIsCovered ==
  \A a \in DOMAIN account :
    /\ Cent * account[a].spent <= 2 * account[a].total
    /\ account[a].used <= account[a].total
    /\ account[a].used > 0 => account[a].ran
=============================================================================
