-------------------------------- MODULE Hub --------------------------------
(***************************************************************************)
(* The realtime hub: the WebSocket connections of one server process, the  *)
(* indexes by which events find them, presence and typing.                 *)
(*                                                                         *)
(* Everything runs on one event loop, so what lies between two awaits is   *)
(* one step; no code awaits while it holds the lock.  A coroutine awaits   *)
(* at every send, and a send to a dead socket makes the sender disconnect  *)
(* that client, which broadcasts in turn: scans[t] is the stack of         *)
(* presence broadcasts coroutine t is in.                                  *)
(***************************************************************************)
EXTENDS Integers, Sequences, FiniteSets

CONSTANTS
  Users,          \* the users who connect
  Workspaces,     \* the workspaces they subscribe to
  Conversations,  \* the conversations they subscribe to
  Connections,    \* the connections, numbered in the order they are made
  Logins,         \* whose the connections may be
  Loop,           \* the coroutine that expires typing
  NoWorkspace,    \* a connection that has not subscribed
  MaxMessages     \* bound: messages the clients send

ASSUME HubAssumption ==
  /\ Logins \subseteq [Connections -> Users]
  /\ Connections \subseteq Nat /\ Loop \notin Connections
  /\ NoWorkspace \notin Workspaces
  /\ MaxMessages \in Nat

Coroutines == Connections \cup {Loop}

VARIABLES
  sock,                    \* the sockets, as the network has them
  connections,             \* the registered connections
  client,                  \* who a connection is and what it subscribed to
  workspaceConnections,    \* the indexes
  conversationConnections,
  userConnections,
  presence,                \* presence[w][u]: "unknown" is no entry
  typing,                  \* typing[k][u]: "no", or an expiry to come or past
  handler,                 \* the coroutine serving each connection
  scans,                   \* the presence broadcasts a coroutine is in
  expiry,                  \* the coroutine that expires typing
  sent                     \* messages received so far

registry == <<connections, client, workspaceConnections, conversationConnections,
              userConnections, presence>>
vars == <<sock, registry, typing, handler, scans, expiry, sent>>

Client == [user : Users, workspace : Workspaces \cup {NoWorkspace},
           conversations : SUBSET Conversations]

\* A presence broadcast iterates over the entries of a workspace, members are
\* those it started with; the member.* event after it iterates over nothing.
Scan == [workspace : Workspaces, iterating : BOOLEAN, members : SUBSET Users]

Pcs == {"new", "hello", "receive", "reply", "verify", "joining", "typing",
        "finally", "closing", "ended"}
Handler == [pc : Pcs, workspace : Workspaces \cup {NoWorkspace},
            conversations : SUBSET Conversations]

Idle == [pc |-> "new", workspace |-> NoWorkspace, conversations |-> {}]

\* The typing loop goes through the conversations still to do; it is in
\* conversation, where expired are the users still to remove.
Expiry == [pc : {"asleep", "telling", "failed"}, todo : SUBSET Conversations,
           conversation : SUBSET Conversations, expired : SUBSET Users]

Asleep == [pc |-> "asleep", todo |-> {}, conversation |-> {}, expired |-> {}]

Init ==
  /\ sock = [c \in Connections |-> "none"]
  /\ connections = {}
  /\ \E user \in Logins :
       client = [c \in Connections |->
                  [user |-> user[c], workspace |-> NoWorkspace, conversations |-> {}]]
  /\ workspaceConnections = [w \in Workspaces |-> {}]
  /\ conversationConnections = [k \in Conversations |-> {}]
  /\ userConnections = [u \in Users |-> {}]
  /\ presence = [w \in Workspaces |-> [u \in Users |-> "unknown"]]
  /\ typing = [k \in Conversations |-> [u \in Users |-> "no"]]
  /\ handler = [c \in Connections |-> Idle]
  /\ scans = [t \in Coroutines |-> <<>>]
  /\ expiry = Asleep
  /\ sent = 0

Dead(c) == sock[c] = "dead"
Known(w) == {u \in Users : presence[w][u] # "unknown"}

\* The handler of c is at p and in no broadcast of its own.
At(c, p) == handler[c].pc = p /\ scans[c] = <<>>
Goto(c, p) == handler' = [handler EXCEPT ![c] = [Idle EXCEPT !.pc = p]]

-----------------------------------------------------------------------------
(* The sections under the lock. *)

\* Mutant: the connection is closed but stays in the index of its workspace.
DropButWorkspace(c) ==
  /\ connections' = connections \ {c}
  /\ userConnections' = [u \in Users |-> userConnections[u] \ {c}]
  /\ conversationConnections' = [k \in Conversations |-> conversationConnections[k] \ {c}]
  /\ presence' = [w \in Workspaces |-> IF w = client[c].workspace
                    THEN [presence[w] EXCEPT ![client[c].user] = "offline"] ELSE presence[w]]
  /\ UNCHANGED <<client, workspaceConnections>>

\* disconnect: presence goes offline even if the user has another connection.
Drop(c) ==
  /\ connections' = connections \ {c}
  /\ userConnections' = [userConnections EXCEPT ![client[c].user] = @ \ {c}]
  /\ workspaceConnections' = [w \in Workspaces |-> IF w = client[c].workspace
                    THEN workspaceConnections[w] \ {c} ELSE workspaceConnections[w]]
  /\ presence' = [w \in Workspaces |-> IF w = client[c].workspace
                    THEN [presence[w] EXCEPT ![client[c].user] = "offline"] ELSE presence[w]]
  /\ conversationConnections' = [k \in Conversations |-> IF k \in client[c].conversations
                    THEN conversationConnections[k] \ {c} ELSE conversationConnections[k]]
  /\ UNCHANGED client

\* The broadcasts that follow a change of u's presence in w.
Presence(w, u) == [workspace |-> w, iterating |-> TRUE, members |-> Known(w) \cup {u}]
Event(w) == [workspace |-> w, iterating |-> FALSE, members |-> {}]

\* What disconnect broadcasts after the lock: presence, and member.left when
\* no connection of the user is left in the workspace.
Farewell(c) ==
  IF client[c].workspace = NoWorkspace THEN <<>>
  ELSE LET w == client[c].workspace  u == client[c].user IN
       IF \E d \in workspaceConnections[w] \ {c} : client[d].user = u
       THEN <<Presence(w, u)>> ELSE <<Presence(w, u), Event(w)>>

\* A coroutine t that calls disconnect(c); nothing happens the second time.
Disconnect(t, c) ==
  \/ /\ c \in connections
     /\ Drop(c)
     /\ scans' = [scans EXCEPT ![t] = Farewell(c) \o @]
  \/ c \notin connections /\ UNCHANGED <<registry, scans>>

\* subscribe_workspace: leaving the old workspace is announced to nobody.
Join(c, w) ==
  LET old == client[c].workspace  u == client[c].user IN
  /\ client' = [client EXCEPT ![c].workspace = w]
  /\ workspaceConnections' = [v \in Workspaces |->
       IF v = w THEN workspaceConnections[v] \cup {c}
       ELSE IF v = old THEN workspaceConnections[v] \ {c} ELSE workspaceConnections[v]]
  /\ presence' = [v \in Workspaces |->
       IF v = w THEN [presence[v] EXCEPT ![u] = "online"]
       ELSE IF v = old THEN [presence[v] EXCEPT ![u] = "offline"] ELSE presence[v]]
  /\ scans' = [scans EXCEPT ![c] = <<Presence(w, u), Event(w)>>]
  /\ UNCHANGED <<connections, userConnections, conversationConnections>>

-----------------------------------------------------------------------------
(* The network. *)

\* A client closes its socket, or is lost without a word.
Die(c) ==
  /\ sock[c] = "open"
  /\ sock' = [sock EXCEPT ![c] = "dead"]
  /\ UNCHANGED <<registry, typing, handler, scans, expiry, sent>>

-----------------------------------------------------------------------------
(* Broadcasts. *)

\* The connections coroutine t may be sending to: replies go to the client
\* itself, typing to the others in the conversation.
Audience(t) ==
  CASE scans[t] # <<>> -> workspaceConnections[Head(scans[t]).workspace]
    [] scans[t] = <<>> /\ t = Loop ->
         UNION {conversationConnections[k] : k \in expiry.conversation}
    [] OTHER ->
         IF handler[t].pc \in {"hello", "reply"} THEN {t}
         ELSE IF handler[t].pc = "typing"
              THEN UNION {conversationConnections[k] : k \in handler[t].conversations} \ {t}
              ELSE {}

\* _broadcast_to_connections: a send fails, and the sender disconnects c.
SendFails(t) ==
  /\ \E c \in Audience(t) : Dead(c) /\ Disconnect(t, c)
  /\ UNCHANGED <<sock, typing, handler, expiry, sent>>

\* A request, or a heartbeat about to end, broadcasts and finds c dead.  What
\* then happens to its own broadcast changes nothing here.
Publish(c) ==
  /\ Dead(c) /\ c \in connections
  /\ Drop(c)
  /\ UNCHANGED <<sock, typing, handler, scans, expiry, sent>>

\* _broadcast_presence_unlocked reaches the end of the dictionary, or the
\* member.* event has been sent.
ScanEnds(t) ==
  /\ scans[t] # <<>>
  /\ LET s == Head(scans[t]) IN s.iterating => s.members = Known(s.workspace)
  /\ scans' = [scans EXCEPT ![t] = Tail(@)]
  /\ UNCHANGED <<sock, registry, typing, handler, expiry, sent>>

\* The dictionary has grown meanwhile: RuntimeError, out of every broadcast
\* the coroutine is in.  A handler goes to its finally, or ends if it is in
\* it; the typing loop is gone for good.
ScanBreaks(t) ==
  /\ scans[t] # <<>>
  /\ LET s == Head(scans[t]) IN s.iterating /\ s.members # Known(s.workspace)
  /\ scans' = [scans EXCEPT ![t] = <<>>]
  /\ IF t = Loop
     THEN expiry' = [Asleep EXCEPT !.pc = "failed"] /\ UNCHANGED handler
     ELSE Goto(t, IF handler[t].pc = "closing" THEN "ended" ELSE "finally") /\ UNCHANGED expiry
  /\ UNCHANGED <<sock, registry, typing, sent>>

-----------------------------------------------------------------------------
(* The handler of a connection: realtime_websocket. *)

\* The client is authenticated, accepted and registered.
Connect(c) ==
  /\ At(c, "new") /\ \A d \in Connections : d < c => handler[d].pc # "new"
  /\ sock' = [sock EXCEPT ![c] = "open"]
  /\ connections' = connections \cup {c}
  /\ userConnections' = [userConnections EXCEPT ![client[c].user] = @ \cup {c}]
  /\ Goto(c, "hello")
  /\ UNCHANGED <<client, workspaceConnections, conversationConnections, presence,
                 typing, scans, expiry, sent>>

\* The event connected, or a reply, has been sent, or failed.
Replied(c) ==
  /\ At(c, "hello") \/ At(c, "reply")
  /\ Goto(c, "receive")
  /\ UNCHANGED <<sock, registry, typing, scans, expiry, sent>>

\* A message of the client.  One sent before the socket died is received
\* before it, which makes no difference.
Receive(c) ==
  /\ At(c, "receive") /\ sock[c] = "open" /\ sent < MaxMessages
  /\ sent' = sent + 1
  /\ UNCHANGED <<sock, registry, scans, expiry>>

Ping(c) == Receive(c) /\ Goto(c, "reply") /\ UNCHANGED typing

\* A message that does not validate: the exception ends the handler.
Malformed(c) == Receive(c) /\ Goto(c, "finally") /\ UNCHANGED typing

ReceiveSubscribe(c) ==
  /\ Receive(c)
  /\ \E w \in Workspaces, K \in SUBSET Conversations :
       handler' = [handler EXCEPT ![c] = [pc |-> "verify", workspace |-> w, conversations |-> K]]
  /\ UNCHANGED typing

\* Not a member of the workspace.
Refuse(c) ==
  /\ At(c, "verify")
  /\ Goto(c, "reply")
  /\ UNCHANGED <<sock, registry, typing, scans, expiry, sent>>

\* Mutant: a connection that is gone by now is entered in the index.
SubscribeAnyway(c) ==
  /\ At(c, "verify")
  /\ Join(c, handler[c].workspace)
  /\ handler' = [handler EXCEPT ![c].pc = "joining"]
  /\ UNCHANGED <<sock, typing, expiry, sent>>

\* subscribe_workspace, once the database has answered.
SubscribeWorkspace(c) ==
  /\ At(c, "verify")
  /\ IF c \in connections THEN Join(c, handler[c].workspace) ELSE UNCHANGED <<registry, scans>>
  /\ handler' = [handler EXCEPT ![c].pc = "joining"]
  /\ UNCHANGED <<sock, typing, expiry, sent>>

\* subscribe_conversations, after the broadcasts of subscribe_workspace.
SubscribeConversations(c) ==
  LET K == handler[c].conversations IN
  /\ At(c, "joining")
  /\ IF c \in connections
     THEN /\ client' = [client EXCEPT ![c].conversations = @ \cup K]
          /\ conversationConnections' = [k \in Conversations |->
               IF k \in K THEN conversationConnections[k] \cup {c} ELSE conversationConnections[k]]
     ELSE UNCHANGED <<client, conversationConnections>>
  /\ Goto(c, "receive")
  /\ UNCHANGED <<sock, connections, workspaceConnections, userConnections, presence,
                 typing, scans, expiry, sent>>

\* handle_typing: ignored without a workspace.
Typing(c) ==
  LET u == client[c].user IN
  /\ Receive(c)
  /\ \E k \in Conversations :
       IF c \in connections /\ client[c].workspace # NoWorkspace
       THEN /\ \E x \in {"to come", "no"} : typing' = [typing EXCEPT ![k][u] = x]
            /\ handler' = [handler EXCEPT ![c] = [Idle EXCEPT !.pc = "typing", !.conversations = {k}]]
       ELSE UNCHANGED <<typing, handler>>

Typed(c) ==
  /\ At(c, "typing")
  /\ Goto(c, "receive")
  /\ UNCHANGED <<sock, registry, typing, scans, expiry, sent>>

\* receive_text raises WebSocketDisconnect: the client has closed.  Of a lost
\* one the handler may never hear.
Leave(c) ==
  /\ At(c, "receive") /\ Dead(c)
  /\ Goto(c, "finally")
  /\ UNCHANGED <<sock, registry, typing, scans, expiry, sent>>

Finally(c) ==
  /\ At(c, "finally")
  /\ Disconnect(c, c)
  /\ Goto(c, "closing")
  /\ UNCHANGED <<sock, typing, expiry, sent>>

Ended(c) ==
  /\ At(c, "closing")
  /\ Goto(c, "ended")
  /\ UNCHANGED <<sock, registry, typing, scans, expiry, sent>>

-----------------------------------------------------------------------------
(* The heartbeat of a connection, from its first message to its finally. *)

Beating(c) == c \in connections /\ handler[c].pc \notin {"new", "hello", "closing", "ended"}

\* Mutant: run_heartbeat gives up without disconnecting.
HeartbeatGivesUp(c) == Beating(c) /\ Dead(c) /\ UNCHANGED vars

\* run_heartbeat: its send fails.
Heartbeat(c) == Beating(c) /\ Publish(c)

-----------------------------------------------------------------------------
(* The typing loop: _typing_expiry_loop. *)

\* Time passes.
Expire(k, u) ==
  /\ typing[k][u] = "to come"
  /\ typing' = [typing EXCEPT ![k][u] = "past"]
  /\ UNCHANGED <<sock, registry, handler, scans, expiry, sent>>

Past(k) == {u \in Users : typing[k][u] = "past"}

\* The loop wakes up and copies the items, or has told the last removal.
Resumes == expiry.pc \in {"asleep", "telling"} /\ scans[Loop] = <<>>
Todo == IF expiry.pc = "asleep" THEN Conversations ELSE expiry.todo

\* Mutant: where nobody listens nothing is removed.
RemoveIfHeard(k, u, E, K) ==
  /\ typing' = IF conversationConnections[k] = {} THEN typing ELSE [typing EXCEPT ![k][u] = "no"]
  /\ expiry' = [pc |-> "telling", todo |-> K, conversation |-> {k}, expired |-> E \ {u}]

\* User u of those found expired in k is removed, even if typing again since,
\* and the conversation is told.
Remove(k, u, E, K) ==
  /\ typing' = [typing EXCEPT ![k][u] = "no"]
  /\ expiry' = [pc |-> "telling", todo |-> K, conversation |-> {k}, expired |-> E \ {u}]

\* On to the next expired user, or to the next conversation that has one.
ExpireOne ==
  /\ Resumes
  /\ \/ \E k \in expiry.conversation, u \in expiry.expired :
          Remove(k, u, expiry.expired, expiry.todo)
     \/ expiry.expired = {} /\ \E k \in Todo : \E u \in Past(k) : Remove(k, u, Past(k), Todo \ {k})
  /\ UNCHANGED <<sock, registry, handler, scans, sent>>

Sleep ==
  /\ Resumes /\ expiry.pc = "telling" /\ expiry.expired = {}
  /\ \A k \in Todo : Past(k) = {}
  /\ expiry' = Asleep
  /\ UNCHANGED <<sock, registry, typing, handler, scans, sent>>

-----------------------------------------------------------------------------
Broadcast(t) == SendFails(t) \/ ScanEnds(t) \/ ScanBreaks(t)

Serve(c) ==
  \/ Replied(c) \/ Refuse(c) \/ SubscribeWorkspace(c) \/ SubscribeConversations(c)
  \/ Typed(c) \/ Finally(c) \/ Ended(c)

Listen(c) ==
  \/ Connect(c) \/ Leave(c)
  \/ Ping(c) \/ Malformed(c) \/ ReceiveSubscribe(c) \/ Typing(c)

ExpiryLoop == ExpireOne \/ Sleep

Next ==
  \/ \E c \in Connections : Die(c) \/ Listen(c) \/ Serve(c) \/ Heartbeat(c) \/ Publish(c)
  \/ \E t \in Coroutines : Broadcast(t)
  \/ \E k \in Conversations, u \in Users : Expire(k, u)
  \/ ExpiryLoop

\* A coroutine that can go on does, heartbeats go out, and the typing loop
\* wakes up.  No client has to send anything and no request has to broadcast.
Fairness ==
  /\ \A c \in Connections : WF_vars(Serve(c) \/ Broadcast(c)) /\ WF_vars(Heartbeat(c))
  /\ WF_vars(ExpiryLoop \/ Broadcast(Loop))

Spec == Init /\ [][Next]_vars /\ Fairness

-----------------------------------------------------------------------------
(* Properties. *)

TypeOK ==
  /\ sock \in [Connections -> {"none", "open", "dead"}]
  /\ connections \subseteq Connections
  /\ client \in [Connections -> Client]
  /\ workspaceConnections \in [Workspaces -> SUBSET Connections]
  /\ conversationConnections \in [Conversations -> SUBSET Connections]
  /\ userConnections \in [Users -> SUBSET Connections]
  /\ presence \in [Workspaces -> [Users -> {"unknown", "online", "offline"}]]
  /\ typing \in [Conversations -> [Users -> {"no", "to come", "past"}]]
  /\ handler \in [Connections -> Handler]
  /\ scans \in [Coroutines -> Seq(Scan)]
  /\ expiry \in Expiry
  /\ sent \in 0 .. MaxMessages

\* The three indexes list exactly the registered connections.
IndexesAgree ==
  /\ \A w \in Workspaces : workspaceConnections[w] = {c \in connections : client[c].workspace = w}
  /\ \A k \in Conversations :
       conversationConnections[k] = {c \in connections : k \in client[c].conversations}
  /\ \A u \in Users : userConnections[u] = {c \in connections : client[c].user = u}

\* Whoever is shown online has a connection there, and a connection's user
\* has an entry.
OnlineIsConnected ==
  \A w \in Workspaces :
    /\ \A u \in Users : presence[w][u] = "online" => \E c \in workspaceConnections[w] : client[c].user = u
    /\ \A c \in workspaceConnections[w] : client[c].user \in Known(w)

\* A connection is registered and subscribes only as its handler goes on.
HandlersKnow ==
  \A c \in Connections :
    /\ handler[c].pc = "new" => /\ c \notin connections
                               /\ client[c].workspace = NoWorkspace /\ client[c].conversations = {}
    /\ handler[c].pc = "verify" => handler[c].workspace \in Workspaces

\* However handlers, broadcasts, heartbeats and failing sends interleave, a
\* connection that is gone is in no index, one that is there is in all of its
\* own, and nobody is shown online in a workspace without a connection to it.
HubInv == TypeOK /\ IndexesAgree /\ OnlineIsConnected /\ HandlersKnow

\* A connection whose socket is dead is removed in the end, even if the client
\* was lost without a word and nothing is ever broadcast: the heartbeat finds
\* it, or the handler it is failing in.
DeadConnectionsLeave == \A c \in Connections : Dead(c) ~> c \notin connections

\* Typing past its time is removed (or renewed by the user), unless the typing
\* loop has died of a broadcast.
TypingEnds ==
  \A k \in Conversations, u \in Users :
    typing[k][u] = "past" ~> typing[k][u] # "past" \/ expiry.pc = "failed"
=============================================================================
