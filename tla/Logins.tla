------------------------------- MODULE Logins -------------------------------
(***************************************************************************)
(* Users and the refresh tokens of their devices: a token is issued at the *)
(* login, replaced by another when it is used, and revoked at the logout.  *)
(* A request loads a token, decides by what it has loaded and commits.     *)
(***************************************************************************)
EXTENDS Integers, Sequences, FiniteSets

CONSTANTS
  Emails,      \* e-mail addresses
  None,        \* none of them
  Slots,       \* requests the server can be handling at the same time
  MaxTokens,   \* bound: no token is begun beyond it
  MaxRequests  \* bound: requests ever made

VARIABLES
  registered,  \* the addresses there is a user for
  token,       \* the refresh tokens
  req,         \* the request in each slot
  issued       \* requests made

Token == [user : Emails, parent : Nat, revoked : BOOLEAN, expired : BOOLEAN]

Ops == {"none", "register", "login", "refresh", "logout"}
\* item is the token the request has loaded; dead those revoked by then.
Request == [op : Ops, user : Emails \cup {None}, item : Nat, dead : SUBSET Nat]
Free == [op |-> "none", user |-> None, item |-> 0, dead |-> {}]

Init ==
  /\ registered = {}
  /\ token = <<>>
  /\ req = [s \in Slots |-> Free]
  /\ issued = 0

TypeOK ==
  /\ registered \subseteq Emails
  /\ token \in Seq(Token)
  /\ req \in [Slots -> Request]
  /\ issued \in Nat
  /\ \A t \in DOMAIN token : token[t].user \in registered /\ token[t].parent < t

-----------------------------------------------------------------------------
Revoked == {t \in DOMAIN token : token[t].revoked}
Valid(t) == ~token[t].revoked /\ ~token[t].expired

Doing(s, op) == req[s].op = op
Start(s, r) ==
  /\ Doing(s, "none") /\ issued < MaxRequests
  /\ req' = [req EXCEPT ![s] = [r EXCEPT !.dead = Revoked]]
  /\ issued' = issued + 1
  /\ UNCHANGED <<registered, token>>
End(s) == req' = [req EXCEPT ![s] = Free] /\ UNCHANGED issued

\* Bound: there is room for one more token.
Room == Len(token) + Cardinality({s \in Slots : req[s].op \in {"login", "refresh"}}) < MaxTokens

Register(s, e) == Start(s, [Free EXCEPT !.op = "register", !.user = e])

\* The address is unique: the second of two requests is refused.
WriteRegister(s) ==
  /\ Doing(s, "register")
  /\ registered' = registered \cup {req[s].user}
  /\ End(s)
  /\ UNCHANGED token

Issue(tokens, e, parent) ==
  Append(tokens, [user |-> e, parent |-> parent, revoked |-> FALSE, expired |-> FALSE])

Login(s, e) ==
  /\ e \in registered /\ Room
  /\ Start(s, [Free EXCEPT !.op = "login", !.user = e])

WriteLogin(s) ==
  /\ Doing(s, "login")
  /\ token' = Issue(token, req[s].user, 0)
  /\ End(s)
  /\ UNCHANGED registered

\* Mutant: only the expiry of a token is looked at.
RefreshRevoked(s, t) ==
  /\ ~token[t].expired /\ Room
  /\ Start(s, [Free EXCEPT !.op = "refresh", !.user = token[t].user, !.item = t])

Refresh(s, t) ==
  /\ Valid(t) /\ Room
  /\ Start(s, [Free EXCEPT !.op = "refresh", !.user = token[t].user, !.item = t])

\* The token is revoked and its successor issued in one transaction.
WriteRefresh(s) ==
  LET t == req[s].item IN
  /\ Doing(s, "refresh")
  /\ token' = Issue([token EXCEPT ![t].revoked = TRUE], req[s].user, t)
  /\ End(s)
  /\ UNCHANGED registered

Logout(s, t) ==
  /\ Valid(t)
  /\ Start(s, [Free EXCEPT !.op = "logout", !.item = t])

WriteLogout(s) ==
  /\ Doing(s, "logout")
  /\ token' = [token EXCEPT ![req[s].item].revoked = TRUE]
  /\ End(s)
  /\ UNCHANGED registered

Expire(t) ==
  /\ ~token[t].expired
  /\ token' = [token EXCEPT ![t].expired = TRUE]
  /\ UNCHANGED <<registered, req, issued>>

Begin(s) ==
  \/ \E e \in Emails : Register(s, e)
  \/ \E e \in Emails : Login(s, e)
  \/ \E t \in DOMAIN token : Refresh(s, t)
  \/ \E t \in DOMAIN token : Logout(s, t)

Write(s) == WriteRegister(s) \/ WriteLogin(s) \/ WriteRefresh(s) \/ WriteLogout(s)

Next == \/ \E s \in Slots : Begin(s) \/ Write(s)
        \/ \E t \in DOMAIN token : Expire(t)

Spec == Init /\ [][Next]_<<registered, token, req, issued>>

-----------------------------------------------------------------------------
\* A token that has a successor is revoked, and both are the same user's: a
\* device never holds two tokens of one login that are good, unless two
\* requests used the same one at the same time.
SuccessorsReplace ==
  \A t \in DOMAIN token : token[t].parent # 0 =>
    LET parent == token[token[t].parent] IN parent.revoked /\ parent.user = token[t].user

\* A request is about a token that is there, its user's, and was not revoked
\* when it was loaded.
RequestKnows(r) ==
  /\ r.dead \subseteq DOMAIN token
  /\ r.op = "register" => r.user \in Emails
  /\ r.op \in {"login", "refresh"} => r.user \in registered
  /\ r.op \in {"refresh", "logout"} => r.item \in DOMAIN token
  /\ r.op = "refresh" => r.item \notin r.dead /\ token[r.item].user = r.user
RequestsKnow == \A r \in {req[s] : s \in Slots} : RequestKnows(r)

\* The inductive invariant.
LoginsInv == TypeOK /\ SuccessorsReplace /\ RequestsKnow

\* No request issues a successor to a token that was revoked when it began,
\* and no token comes back to life.
RevokedStaysRevoked ==
  [][/\ \A t \in Revoked : token'[t].revoked
     /\ \A s \in Slots : req'[s] # req[s] =>
          \A t \in DOMAIN token' \ DOMAIN token : token'[t].parent \notin req[s].dead]_token
=============================================================================
