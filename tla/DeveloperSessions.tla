-------------------------- MODULE DeveloperSessions --------------------------
(***************************************************************************)
(* Developer workspace sessions: the sessions the clients of developers    *)
(* open on a branch of a repository (workspace_client), keep alive with    *)
(* heartbeats and close, and the sweep that marks silent ones.             *)
(*                                                                         *)
(* A request loads the row of a session, decides by what it has loaded and *)
(* writes the columns it changes: a session can be closed, swept or woken  *)
(* by another request in between.                                          *)
(***************************************************************************)
EXTENDS Integers, Sequences, FiniteSets

CONSTANTS
  Clients,      \* a developer's client on one branch and conversation
  None,         \* none of them
  Slots,        \* requests the server can be handling at the same time
  IdleAfter,    \* time without a heartbeat after which a session is idle
  GoneAfter,    \* and after which it is disconnected
  MaxTime,      \* bound: the time there is
  MaxSessions,  \* bound: no session is begun beyond it
  MaxRequests   \* bound: requests ever made

VARIABLES
  session,   \* the sessions
  now,       \* the time
  archived,  \* the repository is archived
  req,       \* the request in each slot
  issued     \* requests made

tables == <<session, archived>>

Live == {"active", "idle", "disconnected"}
Session == [client : Clients, status : Live \cup {"closed"}, beat : Nat, ended : BOOLEAN]

Ops == {"none", "create", "heartbeat", "close", "sweep"}
\* item is the session the request has loaded (0: it will create one), status
\* what was loaded; marks what a sweep will write; ended the sessions closed
\* when the request loaded what it has.
Request == [op : Ops, client : Clients \cup {None}, item : Nat, status : Live,
            marks : SUBSET (Nat \X Live), ended : SUBSET Nat]
Free == [op |-> "none", client |-> None, item |-> 0,
         status |-> "active", marks |-> {}, ended |-> {}]

Init ==
  /\ session = <<>>
  /\ now = 0
  /\ archived = FALSE
  /\ req = [s \in Slots |-> Free]
  /\ issued = 0

TypeOK ==
  /\ session \in Seq(Session)
  /\ now \in Nat /\ archived \in BOOLEAN /\ issued \in Nat
  /\ req \in [Slots -> Request]
  /\ \A i \in DOMAIN session : session[i].beat <= now

-----------------------------------------------------------------------------
\* Requests.

Closed == {i \in DOMAIN session : session[i].status = "closed"}
Doing(s, op) == req[s].op = op
Start(s, r) ==
  /\ Doing(s, "none") /\ issued < MaxRequests
  /\ req' = [req EXCEPT ![s] = [r EXCEPT !.ended = Closed]]
  /\ issued' = issued + 1
  /\ UNCHANGED <<tables, now>>
End(s) == req' = [req EXCEPT ![s] = Free] /\ UNCHANGED <<issued, archived, now>>

\* Time passes: the guards of requests that wait are not looked at again.
Tick == /\ now < MaxTime
        /\ now' = now + 1
        /\ UNCHANGED <<tables, req, issued>>

\* The repository is archived, or taken back.
Archive == /\ archived' = ~archived
           /\ UNCHANGED <<session, now, req, issued>>

-----------------------------------------------------------------------------
\* Sessions.

\* Mutant: any session of the client is resumed.
ResumableAll(c) == {i \in DOMAIN session : session[i].client = c}

\* The sessions a client that connects again can go on with.
Resumable(c) == {i \in DOMAIN session : session[i].client = c /\ session[i].status \in Live}

Heard(i) == [Free EXCEPT !.op = "heartbeat", !.item = i, !.client = session[i].client,
                         !.status = session[i].status]

\* A new session is refused for an archived repository.
Create(s, c) ==
  /\ ~archived
  /\ Len(session) + Cardinality({o \in Slots : Doing(o, "create")}) < MaxSessions
  /\ Start(s, [Free EXCEPT !.op = "create", !.client = c])

WriteCreate(s) ==
  /\ Doing(s, "create")
  /\ session' = Append(session, [client |-> req[s].client, status |-> "active",
                                 beat |-> now, ended |-> FALSE])
  /\ End(s)

\* A client connects: it goes on with the session heard of last, else it gets
\* a new one.
Connect(s, c) ==
  \/ \E i \in Resumable(c) :
       /\ \A o \in Resumable(c) : session[o].beat <= session[i].beat
       /\ Start(s, Heard(i))
  \/ Resumable(c) = {} /\ Create(s, c)

\* A heartbeat, also the one of a push, is refused for a closed session.
Heartbeat(s, i) ==
  /\ session[i].status # "closed"
  /\ Start(s, Heard(i))

\* The status is written when what was loaded is to be changed.
WriteHeartbeat(s) ==
  LET r == req[s]
      row == session[r.item] IN
  /\ Doing(s, "heartbeat")
  /\ session' = [session EXCEPT ![r.item] =
       [row EXCEPT !.beat = now,
                   !.status = IF r.status \in {"idle", "disconnected"} THEN "active" ELSE row.status]]
  /\ End(s)

\* Closing a closed session changes nothing.
Close(s, i) ==
  /\ session[i].status # "closed"
  /\ Start(s, [Free EXCEPT !.op = "close", !.item = i, !.client = session[i].client])

WriteClose(s) ==
  /\ Doing(s, "close")
  /\ session' = [session EXCEPT ![req[s].item] = [@ EXCEPT !.status = "closed", !.ended = TRUE]]
  /\ End(s)

\* The sweep: what it makes of the sessions that are active or idle.
Silent(i, time) == now - session[i].beat >= time
Swept(i) == IF Silent(i, GoneAfter) THEN "disconnected"
            ELSE IF Silent(i, IdleAfter) /\ session[i].status = "active" THEN "idle"
            ELSE session[i].status
MarkIdle(s) ==
  LET marks == {<<i, Swept(i)>> : i \in {o \in DOMAIN session :
                  session[o].status \in {"active", "idle"} /\ Swept(o) # session[o].status}}
  IN  marks # {} /\ Start(s, [Free EXCEPT !.op = "sweep", !.marks = marks])

WriteIdle(s) ==
  LET marks == req[s].marks IN
  /\ Doing(s, "sweep")
  /\ session' = [i \in DOMAIN session |->
       IF \E m \in marks : m[1] = i
       THEN [session[i] EXCEPT !.status = (CHOOSE m \in marks : m[1] = i)[2]]
       ELSE session[i]]
  /\ End(s)

-----------------------------------------------------------------------------
Begin(s) ==
  \/ \E c \in Clients : Connect(s, c)
  \/ \E c \in Clients : Create(s, c)
  \/ \E i \in DOMAIN session : Heartbeat(s, i)
  \/ \E i \in DOMAIN session : Close(s, i)
  \/ MarkIdle(s)

Write(s) == WriteCreate(s) \/ WriteHeartbeat(s) \/ WriteClose(s) \/ WriteIdle(s)

Next == Tick \/ Archive \/ \E s \in Slots : Begin(s) \/ Write(s)

Spec == Init /\ [][Next]_<<tables, now, req, issued>>

-----------------------------------------------------------------------------
\* A closed session has the time it was closed; with requests that overlap the
\* converse fails: a heartbeat that loaded an idle session, or a sweep, writes
\* its status over a close.
ClosedHasTime == \A i \in Closed : session[i].ended

\* A request is about a session that is there and was not closed when it was
\* loaded.
RequestKnows(r) ==
  /\ r.ended \subseteq DOMAIN session
  /\ r.op = "create" => r.client \in Clients
  /\ r.op \in {"heartbeat", "close"} => r.item \in DOMAIN session \ r.ended
  /\ r.op = "sweep" => \A m \in r.marks : m[1] \in DOMAIN session \ r.ended
RequestsKnow == \A r \in {req[s] : s \in Slots} : RequestKnows(r)

\* The inductive invariant.
SessionsInv == TypeOK /\ ClosedHasTime /\ RequestsKnow

\* No request touches a session that was closed when it began: connecting does
\* not resume it, heartbeats and pushes are refused, the sweep passes it by.
ClosedStaysClosed ==
  [][\A s \in Slots : req'[s] # req[s] =>
       \A i \in req[s].ended : session[i].status = "closed" => session'[i] = session[i]]_session
=============================================================================
