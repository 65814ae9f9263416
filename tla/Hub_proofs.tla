----------------------------- MODULE Hub_proofs -----------------------------
(***************************************************************************)
(* Proofs about Hub, for any users, workspaces, conversations and          *)
(* connections.                                                            *)
(***************************************************************************)
EXTENDS Hub, TLAPS

USE HubAssumption

\* The hub's own dictionaries.
RegistryTypeOK ==
  /\ connections \subseteq Connections
  /\ client \in [Connections -> Client]
  /\ workspaceConnections \in [Workspaces -> SUBSET Connections]
  /\ conversationConnections \in [Conversations -> SUBSET Connections]
  /\ userConnections \in [Users -> SUBSET Connections]
  /\ presence \in [Workspaces -> [Users -> {"unknown", "online", "offline"}]]
RegistryOK == RegistryTypeOK /\ IndexesAgree /\ OnlineIsConnected

\* What the coroutines keep.
CoroutinesOK ==
  /\ sock \in [Connections -> {"none", "open", "dead"}]
  /\ typing \in [Conversations -> [Users -> {"no", "to come", "past"}]]
  /\ handler \in [Connections -> Handler]
  /\ scans \in [Coroutines -> Seq(Scan)]
  /\ expiry \in Expiry
  /\ sent \in 0 .. MaxMessages

LEMMA HubParts ==
  /\ HubInv <=> RegistryOK /\ CoroutinesOK /\ HandlersKnow
  /\ HubInv' <=> RegistryOK' /\ CoroutinesOK' /\ HandlersKnow'
BY DEF HubInv, TypeOK, RegistryOK, RegistryTypeOK, CoroutinesOK

LEMMA ClientFacts ==
  ASSUME RegistryTypeOK, NEW c \in Connections
  PROVE  /\ client[c].user \in Users /\ client[c].workspace \in Workspaces \cup {NoWorkspace}
         /\ client[c].conversations \in SUBSET Conversations
BY DEF RegistryTypeOK, Client

-----------------------------------------------------------------------------
(* The sections under the lock *)

\* A connection that is dropped leaves every index it is in, and its user's
\* presence with it.
LEMMA DropStep ==
  ASSUME RegistryOK, NEW c \in connections, Drop(c)
  PROVE  RegistryOK' /\ client' = client /\ connections' = connections \ {c}
<1>. DEFINE u == client[c].user
            w == client[c].workspace
            K == client[c].conversations
<1>1. /\ c \in Connections /\ u \in Users /\ w \in Workspaces \cup {NoWorkspace}
      /\ K \in SUBSET Conversations
  BY ClientFacts DEF RegistryOK, RegistryTypeOK
<1>2. /\ connections' = connections \ {c} /\ client' = client
      /\ \A v \in Users : userConnections'[v] = IF v = u THEN userConnections[v] \ {c} ELSE userConnections[v]
      /\ \A v \in Workspaces :
           /\ workspaceConnections'[v] = IF v = w THEN workspaceConnections[v] \ {c}
                                         ELSE workspaceConnections[v]
           /\ \A o \in Users : presence'[v][o] = IF v = w /\ o = u THEN "offline" ELSE presence[v][o]
      /\ \A k \in Conversations :
           conversationConnections'[k] = IF k \in K THEN conversationConnections[k] \ {c}
                                         ELSE conversationConnections[k]
  BY <1>1 DEF Drop, RegistryOK, RegistryTypeOK
<1>3. RegistryTypeOK'
  BY <1>1 DEF Drop, RegistryOK, RegistryTypeOK
<1>. HIDE DEF u, w, K
<1>4. IndexesAgree'
  <2>1. ASSUME NEW v \in Workspaces
        PROVE  workspaceConnections'[v] = {d \in connections' : client'[d].workspace = v}
    <3>1. workspaceConnections[v] = {d \in connections : client[d].workspace = v}
      BY DEF RegistryOK, IndexesAgree
    <3>2. client[c].workspace = w
      BY DEF w
    <3>3. CASE v = w
      BY <1>2, <3>1, <3>2, <3>3
    <3>4. CASE v # w
      <4>1. workspaceConnections'[v] = {d \in connections : client[d].workspace = v}
        BY <1>2, <3>1, <3>4
      <4>2. connections' = connections \ {c} /\ client' = client
        BY <1>2
      <4>. QED
        BY <3>2, <3>4, <4>1, <4>2
    <3>. QED
      BY <3>3, <3>4
  <2>2. ASSUME NEW k \in Conversations
        PROVE  conversationConnections'[k] = {d \in connections' : k \in client'[d].conversations}
    <3>1. conversationConnections[k] = {d \in connections : k \in client[d].conversations}
      BY DEF RegistryOK, IndexesAgree
    <3>2. client[c].conversations = K
      BY DEF K
    <3>3. CASE k \in K
      BY <1>2, <3>1, <3>2, <3>3
    <3>4. CASE k \notin K
      BY <1>2, <3>1, <3>2, <3>4
    <3>. QED
      BY <3>3, <3>4
  <2>3. ASSUME NEW v \in Users
        PROVE  userConnections'[v] = {d \in connections' : client'[d].user = v}
    <3>1. userConnections[v] = {d \in connections : client[d].user = v}
      BY DEF RegistryOK, IndexesAgree
    <3>2. client[c].user = u
      BY DEF u
    <3>3. CASE v = u
      BY <1>2, <3>1, <3>2, <3>3
    <3>4. CASE v # u
      <4>1. userConnections'[v] = {d \in connections : client[d].user = v}
        BY <1>2, <3>1, <3>4
      <4>2. connections' = connections \ {c} /\ client' = client
        BY <1>2
      <4>. QED
        BY <3>2, <3>4, <4>1, <4>2
    <3>. QED
      BY <3>3, <3>4
  <2>. QED
    BY <2>1, <2>2, <2>3 DEF IndexesAgree
<1>5. OnlineIsConnected'
  <2>1. ASSUME NEW v \in Workspaces, NEW o \in Users, presence'[v][o] = "online"
        PROVE  \E d \in workspaceConnections'[v] : client'[d].user = o
    <3>1. presence[v][o] = "online" /\ ~(v = w /\ o = u)
      BY <1>2, <2>1
    <3>2. PICK d \in workspaceConnections[v] : client[d].user = o
      BY <3>1 DEF RegistryOK, OnlineIsConnected
    <3>3. d \in workspaceConnections'[v]
      BY <1>2, <3>1, <3>2 DEF u
    <3>. QED
      BY <1>2, <3>2, <3>3
  <2>2. ASSUME NEW v \in Workspaces, NEW d \in workspaceConnections'[v]
        PROVE  client'[d].user \in Users /\ presence'[v][client'[d].user] # "unknown"
    <3>1. d \in workspaceConnections[v]
      BY <1>2
    <3>2. client[d].user \in Users /\ presence[v][client[d].user] # "unknown"
      BY <3>1 DEF RegistryOK, OnlineIsConnected, Known
    <3>3. PICK o \in Users : o = client[d].user
      BY <3>2
    <3>4. presence'[v][o] # "unknown"
      <4>1. presence[v][o] # "unknown"
        BY <3>2, <3>3
      <4>. QED
        BY <1>2, <4>1
    <3>5. client'[d].user = o
      BY <1>2, <3>3
    <3>. QED
      BY <3>4, <3>5
  <2>. QED
    BY <2>1, <2>2 DEF OnlineIsConnected, Known
<1>. QED
  BY <1>2, <1>3, <1>4, <1>5 DEF RegistryOK

\* A registered connection that subscribes to a workspace moves from the index
\* of the one it leaves to that of the one it joins, and so does its presence.
LEMMA JoinStep ==
  ASSUME RegistryOK, NEW c \in connections, NEW w \in Workspaces, Join(c, w)
  PROVE  /\ RegistryOK' /\ connections' = connections
         /\ \A d \in Connections : d # c => client'[d] = client[d]
<1>. DEFINE u == client[c].user
            old == client[c].workspace
<1>1. c \in Connections /\ u \in Users /\ old \in Workspaces \cup {NoWorkspace}
  BY ClientFacts DEF RegistryOK, RegistryTypeOK
<1>2. /\ connections' = connections /\ userConnections' = userConnections
      /\ conversationConnections' = conversationConnections
      /\ client' = [client EXCEPT ![c].workspace = w]
      /\ \A v \in Workspaces :
           /\ workspaceConnections'[v] = IF v = w THEN workspaceConnections[v] \cup {c}
                                         ELSE IF v = old THEN workspaceConnections[v] \ {c}
                                         ELSE workspaceConnections[v]
           /\ \A o \in Users : presence'[v][o] = IF v = w /\ o = u THEN "online"
                                                 ELSE IF v # w /\ v = old /\ o = u THEN "offline"
                                                 ELSE presence[v][o]
  BY <1>1 DEF Join, RegistryOK, RegistryTypeOK
<1>3. /\ client[c] \in Client /\ client'[c].workspace = w /\ client'[c].user = u
      /\ client'[c].conversations = client[c].conversations /\ client'[c] \in Client
      /\ \A d \in Connections : d # c => client'[d] = client[d]
  BY <1>1, <1>2 DEF RegistryOK, RegistryTypeOK, Client
<1>4. RegistryTypeOK'
  <2>1. client' \in [Connections -> Client]
    BY <1>1, <1>2, <1>3 DEF RegistryOK, RegistryTypeOK
  <2>2. /\ workspaceConnections' \in [Workspaces -> SUBSET Connections]
        /\ presence' \in [Workspaces -> [Users -> {"unknown", "online", "offline"}]]
    BY <1>1 DEF Join, RegistryOK, RegistryTypeOK
  <2>. QED
    BY <1>2, <2>1, <2>2 DEF RegistryOK, RegistryTypeOK
<1>. HIDE DEF u, old
<1>5. connections \subseteq Connections
  BY DEF RegistryOK, RegistryTypeOK
<1>6. IndexesAgree'
  <2>1. ASSUME NEW v \in Workspaces
        PROVE  workspaceConnections'[v] = {d \in connections' : client'[d].workspace = v}
    <3>1. workspaceConnections[v] = {d \in connections : client[d].workspace = v}
      BY DEF RegistryOK, IndexesAgree
    <3>2. client[c].workspace = old
      BY DEF old
    <3>3. /\ connections' = connections /\ client'[c].workspace = w
          /\ \A d \in connections : d # c => client'[d].workspace = client[d].workspace
      BY <1>2, <1>3, <1>5
    <3>4. CASE v = w
      <4>1. workspaceConnections'[v] = {d \in connections : client[d].workspace = v} \cup {c}
        BY <1>2, <3>1, <3>4
      <4>. QED
        BY <3>3, <3>4, <4>1
    <3>5. CASE v # w
      <4>1. workspaceConnections'[v] = {d \in connections : client[d].workspace = v} \ {c}
        <5>1. CASE v = old
          BY <1>2, <3>1, <3>5, <5>1
        <5>2. CASE v # old
          <6>1. workspaceConnections'[v] = {d \in connections : client[d].workspace = v}
            BY <1>2, <3>1, <3>5, <5>2
          <6>. QED
            BY <3>2, <5>2, <6>1
        <5>. QED
          BY <5>1, <5>2
      <4>. QED
        BY <3>3, <3>5, <4>1
    <3>. QED
      BY <3>4, <3>5
  <2>2. ASSUME NEW k \in Conversations
        PROVE  conversationConnections'[k] = {d \in connections' : k \in client'[d].conversations}
    BY <1>2, <1>3, <1>5 DEF RegistryOK, IndexesAgree
  <2>3. ASSUME NEW v \in Users
        PROVE  userConnections'[v] = {d \in connections' : client'[d].user = v}
    BY <1>2, <1>3, <1>5 DEF RegistryOK, IndexesAgree, u
  <2>. QED
    BY <2>1, <2>2, <2>3 DEF IndexesAgree
<1>7. \A d \in Connections : client'[d].user = client[d].user
  BY <1>3 DEF u
<1>8. \A v \in Workspaces : /\ workspaceConnections[v] \subseteq Connections
                             /\ workspaceConnections'[v] \subseteq Connections
  BY <1>4 DEF RegistryOK, RegistryTypeOK
<1>9. OnlineIsConnected'
  <2>1. ASSUME NEW v \in Workspaces, NEW o \in Users, presence'[v][o] = "online"
        PROVE  \E d \in workspaceConnections'[v] : client'[d].user = o
    <3>1. CASE v = w /\ o = u
      BY <1>2, <1>3, <3>1
    <3>2. CASE ~(v = w /\ o = u)
      <4>1. presence[v][o] = "online" /\ ~(v # w /\ v = old /\ o = u)
        BY <1>2, <2>1, <3>2
      <4>2. PICK d \in workspaceConnections[v] : client[d].user = o
        BY <4>1 DEF RegistryOK, OnlineIsConnected
      <4>3. d \in workspaceConnections'[v]
        <5>1. CASE v = w
          BY <1>2, <4>2, <5>1
        <5>2. CASE v # w /\ v = old
          <6>1. d # c
            BY <4>1, <4>2, <5>2 DEF u
          <6>. QED
            BY <1>2, <4>2, <5>2, <6>1
        <5>3. CASE v # w /\ v # old
          BY <1>2, <4>2, <5>3
        <5>. QED
          BY <5>1, <5>2, <5>3
      <4>4. client'[d].user = o
        <5>1. d \in Connections
          BY <1>8, <4>2
        <5>. QED
          BY <1>7, <4>2, <5>1
      <4>. QED
        BY <4>3, <4>4
    <3>. QED
      BY <3>1, <3>2
  <2>2. ASSUME NEW v \in Workspaces, NEW d \in workspaceConnections'[v]
        PROVE  client'[d].user \in Users /\ presence'[v][client'[d].user] # "unknown"
    <3>1. CASE d = c /\ v = w
      <4>1. u \in Users /\ client'[d].user = u
        BY <1>1, <1>3, <3>1 DEF u
      <4>2. presence'[w][u] = "online"
        BY <1>1, <1>2
      <4>. QED
        BY <3>1, <4>1, <4>2
    <3>2. CASE ~(d = c /\ v = w)
      <4>1. d \in workspaceConnections[v] /\ d \in Connections
        <5>1. d \in Connections
          BY <1>8
        <5>2. CASE v = w
          BY <1>2, <3>2, <5>1, <5>2
        <5>3. CASE v # w
          BY <1>2, <5>1, <5>3
        <5>. QED
          BY <5>2, <5>3
      <4>2. client[d].user \in Users /\ presence[v][client[d].user] # "unknown"
        BY <4>1 DEF RegistryOK, OnlineIsConnected, Known
      <4>3. client'[d].user = client[d].user
        BY <1>7, <4>1
      <4>4. PICK o \in Users : o = client[d].user
        BY <4>2
      <4>5. presence'[v][o] # "unknown"
        BY <1>2, <4>2, <4>4
      <4>. QED
        BY <4>3, <4>4, <4>5
    <3>. QED
      BY <3>1, <3>2
  <2>. QED
    BY <2>1, <2>2 DEF OnlineIsConnected, Known
<1>. QED
  BY <1>2, <1>3, <1>4, <1>6, <1>9 DEF RegistryOK

\* A connection that is disconnected: nothing happens the second time.
LEMMA DisconnectStep ==
  ASSUME RegistryOK, scans \in [Coroutines -> Seq(Scan)], NEW t \in Coroutines, NEW c, Disconnect(t, c)
  PROVE  /\ RegistryOK' /\ client' = client /\ connections' \subseteq connections
         /\ scans' \in [Coroutines -> Seq(Scan)]
<1>1. CASE c \in connections /\ Drop(c) /\ scans' = [scans EXCEPT ![t] = Farewell(c) \o @]
  <2>1. Farewell(c) \in Seq(Scan)
    <3>1. /\ client[c].user \in Users /\ client[c].workspace \in Workspaces \cup {NoWorkspace}
      BY <1>1, ClientFacts DEF RegistryOK, RegistryTypeOK
    <3>2. ASSUME NEW w \in Workspaces, NEW u \in Users PROVE Presence(w, u) \in Scan /\ Event(w) \in Scan
      BY DEF Presence, Event, Scan, Known
    <3>. QED
      BY <3>1, <3>2 DEF Farewell
  <2>2. scans' \in [Coroutines -> Seq(Scan)]
    BY <1>1, <2>1
  <2>. QED
    BY <1>1, <2>2, DropStep
<1>2. CASE UNCHANGED <<registry, scans>>
  BY <1>2 DEF registry, RegistryOK, RegistryTypeOK, IndexesAgree, OnlineIsConnected, Known
<1>. QED
  BY <1>1, <1>2 DEF Disconnect

LEMMA RegistryUnchanged ==
  ASSUME RegistryOK, UNCHANGED registry
  PROVE  RegistryOK' /\ client' = client /\ connections' \subseteq connections
BY DEF registry, RegistryOK, RegistryTypeOK, IndexesAgree, OnlineIsConnected, Known

\* A handler that goes to another place than "new" and "verify" needs nothing.
LEMMA HandlersStep ==
  ASSUME HandlersKnow, connections' \subseteq connections, client' = client,
         \A c \in Connections : \/ handler'[c] = handler[c]
                                \/ handler'[c].pc \notin {"new", "verify"}
                                \/ handler'[c].pc = "verify" /\ handler'[c].workspace \in Workspaces
  PROVE  HandlersKnow'
BY DEF HandlersKnow

LEMMA GotoFacts ==
  ASSUME handler \in [Connections -> Handler], NEW c \in Connections,
         NEW p \in Pcs \ {"new", "verify"}, Goto(c, p)
  PROVE  /\ handler' \in [Connections -> Handler] /\ handler'[c].pc = p
         /\ \A d \in Connections : d # c => handler'[d] = handler[d]
<1>1. [Idle EXCEPT !.pc = p] \in Handler /\ [Idle EXCEPT !.pc = p].pc = p
  BY DEF Idle, Handler
<1>. QED
  BY <1>1 DEF Goto

-----------------------------------------------------------------------------
(* One step per action *)

LEMMA HubInit == Init => HubInv
<1>. SUFFICES ASSUME Init
              PROVE  HubInv
  OBVIOUS
<1>1. PICK user \in Logins :
        client = [c \in Connections |->
                   [user |-> user[c], workspace |-> NoWorkspace, conversations |-> {}]]
  BY DEF Init
<1>2. \A c \in Connections : /\ client[c] \in Client /\ client[c].workspace = NoWorkspace
                             /\ client[c].conversations = {}
  BY <1>1 DEF Client
<1>3. RegistryTypeOK
  <2>1. client \in [Connections -> Client]
    BY <1>1, <1>2
  <2>. QED
    BY <2>1 DEF Init, RegistryTypeOK
<1>4. IndexesAgree /\ OnlineIsConnected
  BY DEF Init, IndexesAgree, OnlineIsConnected, Known
<1>5. CoroutinesOK
  <2>1. Idle \in Handler /\ Asleep \in Expiry /\ <<>> \in Seq(Scan)
    BY DEF Idle, Handler, Pcs, Asleep, Expiry
  <2>2. sent \in 0 .. MaxMessages
    BY DEF Init
  <2>. QED
    BY <2>1, <2>2 DEF Init, CoroutinesOK
<1>6. HandlersKnow
  BY <1>2 DEF Init, HandlersKnow, Idle
<1>. QED
  BY <1>3, <1>4, <1>5, <1>6, HubParts DEF RegistryOK

LEMMA NetworkStep ==
  ASSUME HubInv, NEW c \in Connections, Die(c)
  PROVE  HubInv'
<1>1. RegistryOK /\ CoroutinesOK /\ HandlersKnow
  BY HubParts
<1>2. RegistryOK' /\ client' = client /\ connections' \subseteq connections
  BY <1>1, RegistryUnchanged DEF Die
<1>3. CoroutinesOK'
  BY <1>1 DEF CoroutinesOK, Die
<1>4. HandlersKnow'
  BY <1>1, <1>2, HandlersStep DEF Die
<1>. QED
  BY <1>2, <1>3, <1>4, HubParts

LEMMA PublishStep ==
  ASSUME HubInv, NEW c \in Connections, Publish(c)
  PROVE  HubInv'
<1>1. RegistryOK /\ CoroutinesOK /\ HandlersKnow
  BY HubParts
<1>2. RegistryOK' /\ client' = client /\ connections' \subseteq connections
  BY <1>1, DropStep DEF Publish
<1>3. CoroutinesOK' /\ HandlersKnow'
  BY <1>1, <1>2, HandlersStep DEF CoroutinesOK, Publish
<1>. QED
  BY <1>2, <1>3, HubParts

LEMMA BroadcastStep ==
  ASSUME HubInv, NEW t \in Coroutines, Broadcast(t)
  PROVE  HubInv'
<1>1. RegistryOK /\ CoroutinesOK /\ HandlersKnow /\ scans \in [Coroutines -> Seq(Scan)]
  BY HubParts DEF CoroutinesOK
<1>2. CASE SendFails(t)
  <2>1. RegistryOK' /\ client' = client /\ connections' \subseteq connections
        /\ scans' \in [Coroutines -> Seq(Scan)]
    BY <1>1, <1>2, DisconnectStep DEF SendFails
  <2>2. CoroutinesOK' /\ HandlersKnow'
    BY <1>1, <1>2, <2>1, HandlersStep DEF CoroutinesOK, SendFails
  <2>. QED
    BY <2>1, <2>2, HubParts
<1>3. CASE ScanEnds(t)
  <2>1. RegistryOK' /\ client' = client /\ connections' \subseteq connections
    BY <1>1, <1>3, RegistryUnchanged DEF ScanEnds
  <2>2. scans' \in [Coroutines -> Seq(Scan)]
    <3>1. scans[t] \in Seq(Scan) /\ scans[t] # <<>>
      BY <1>1, <1>3 DEF ScanEnds
    <3>2. Tail(scans[t]) \in Seq(Scan)
      BY <3>1
    <3>. QED
      BY <1>1, <1>3, <3>2 DEF ScanEnds
  <2>3. CoroutinesOK' /\ HandlersKnow'
    BY <1>1, <1>3, <2>1, <2>2, HandlersStep DEF CoroutinesOK, ScanEnds
  <2>. QED
    BY <2>1, <2>3, HubParts
<1>4. CASE ScanBreaks(t)
  <2>1. RegistryOK' /\ client' = client /\ connections' \subseteq connections
    BY <1>1, <1>4, RegistryUnchanged DEF ScanBreaks
  <2>2. scans' \in [Coroutines -> Seq(Scan)]
    BY <1>1, <1>4 DEF ScanBreaks
  <2>3. sock' = sock /\ typing' = typing /\ sent' = sent
    BY <1>4 DEF ScanBreaks
  <2>4. CASE t = Loop
    <3>1. expiry' \in Expiry /\ handler' = handler
      BY <1>4, <2>4 DEF ScanBreaks, Asleep, Expiry
    <3>2. CoroutinesOK' /\ HandlersKnow'
      BY <1>1, <2>1, <2>2, <2>3, <3>1, HandlersStep DEF CoroutinesOK
    <3>. QED
      BY <2>1, <3>2, HubParts
  <2>5. CASE t # Loop
    <3>1. PICK p \in Pcs \ {"new", "verify"} : Goto(t, p) /\ expiry' = expiry
      BY <1>4, <2>5 DEF ScanBreaks, Pcs
    <3>2. /\ t \in Connections /\ handler' \in [Connections -> Handler] /\ handler'[t].pc = p
          /\ \A d \in Connections : d # t => handler'[d] = handler[d]
      BY <1>1, <2>5, <3>1, GotoFacts DEF CoroutinesOK, Coroutines
    <3>3. CoroutinesOK' /\ HandlersKnow'
      BY <1>1, <2>1, <2>2, <2>3, <3>1, <3>2, HandlersStep DEF CoroutinesOK
    <3>. QED
      BY <2>1, <3>3, HubParts
  <2>. QED
    BY <2>4, <2>5
<1>. QED
  BY <1>2, <1>3, <1>4 DEF Broadcast

\* A handler that goes on without touching the hub.
LEMMA HandlerStep ==
  ASSUME HubInv, UNCHANGED registry, NEW c \in Connections, NEW h \in Handler,
         handler' = [handler EXCEPT ![c] = h],
         h.pc \notin {"new", "verify"} \/ (h.pc = "verify" /\ h.workspace \in Workspaces),
         sent' \in 0 .. MaxMessages, typing' \in [Conversations -> [Users -> {"no", "to come", "past"}]],
         UNCHANGED <<sock, scans, expiry>>
  PROVE  HubInv'
<1>1. RegistryOK /\ CoroutinesOK /\ HandlersKnow
  BY HubParts
<1>2. RegistryOK' /\ client' = client /\ connections' \subseteq connections
  BY <1>1, RegistryUnchanged
<1>3. \A d \in Connections : handler'[d] = IF d = c THEN h ELSE handler[d]
  BY <1>1 DEF CoroutinesOK
<1>4. HandlersKnow'
  BY <1>1, <1>2, <1>3, HandlersStep
<1>5. CoroutinesOK'
  BY <1>1 DEF CoroutinesOK
<1>. QED
  BY <1>2, <1>4, <1>5, HubParts

\* It goes on with its state reset.
LEMMA GotoStep ==
  ASSUME HubInv, UNCHANGED registry, NEW c \in Connections, NEW p \in Pcs \ {"new", "verify"}, Goto(c, p),
         sent' \in 0 .. MaxMessages, typing' = typing, UNCHANGED <<sock, scans, expiry>>
  PROVE  HubInv'
<1>1. PICK h \in Handler : h = [Idle EXCEPT !.pc = p] /\ h.pc = p
  <2>1. [Idle EXCEPT !.pc = p] \in Handler /\ [Idle EXCEPT !.pc = p].pc = p
    BY DEF Idle, Handler
  <2>. QED
    BY <2>1
<1>2. handler' = [handler EXCEPT ![c] = h] /\ typing \in [Conversations -> [Users -> {"no", "to come", "past"}]]
  BY <1>1 DEF Goto, HubInv, TypeOK
<1>. QED
  BY <1>1, <1>2, HandlerStep

LEMMA MessageFacts ==
  ASSUME CoroutinesOK, NEW c \in Connections, Receive(c)
  PROVE  sent' \in 0 .. MaxMessages /\ UNCHANGED registry /\ UNCHANGED <<sock, scans, expiry>>
<1>1. sent \in 0 .. MaxMessages /\ sent < MaxMessages /\ sent' = sent + 1
  BY DEF CoroutinesOK, Receive
<1>. QED
  BY <1>1 DEF Receive

LEMMA ConnectStep ==
  ASSUME HubInv, NEW c \in Connections, Connect(c)
  PROVE  HubInv'
<1>1. RegistryOK /\ CoroutinesOK /\ HandlersKnow
  BY HubParts
<1>2. /\ handler[c].pc = "new" /\ connections' = connections \cup {c} /\ client' = client
      /\ Goto(c, "hello") /\ "hello" \in Pcs \ {"new", "verify"}
      /\ UNCHANGED <<workspaceConnections, conversationConnections, presence, typing, scans, expiry, sent>>
  BY DEF Connect, At, Pcs
<1>3. c \notin connections /\ client[c].workspace = NoWorkspace /\ client[c].conversations = {}
  BY <1>1, <1>2 DEF HandlersKnow
<1>4. /\ client[c].user \in Users
      /\ \A u \in Users : userConnections'[u] = IF u = client[c].user THEN userConnections[u] \cup {c}
                                                ELSE userConnections[u]
      /\ userConnections' \in [Users -> SUBSET Connections]
  BY <1>1, ClientFacts DEF RegistryOK, RegistryTypeOK, Connect
<1>5. RegistryTypeOK'
  BY <1>1, <1>2, <1>4 DEF RegistryOK, RegistryTypeOK
<1>6. IndexesAgree'
  <2>1. \A w \in Workspaces : {d \in connections' : client'[d].workspace = w}
                                = {d \in connections : client[d].workspace = w}
    BY <1>2, <1>3
  <2>2. \A k \in Conversations : {d \in connections' : k \in client'[d].conversations}
                                   = {d \in connections : k \in client[d].conversations}
    BY <1>2, <1>3
  <2>3. ASSUME NEW u \in Users
        PROVE  userConnections'[u] = {d \in connections' : client'[d].user = u}
    <3>1. userConnections[u] = {d \in connections : client[d].user = u}
      BY <1>1 DEF RegistryOK, IndexesAgree
    <3>2. CASE u = client[c].user
      BY <1>2, <1>4, <3>1, <3>2
    <3>3. CASE u # client[c].user
      <4>1. userConnections'[u] = {d \in connections : client[d].user = u}
        BY <1>4, <3>1, <3>3
      <4>. QED
        BY <1>2, <3>3, <4>1
    <3>. QED
      BY <3>2, <3>3
  <2>. QED
    BY <1>1, <1>2, <2>1, <2>2, <2>3 DEF RegistryOK, IndexesAgree
<1>7. OnlineIsConnected'
  BY <1>1, <1>2 DEF RegistryOK, OnlineIsConnected, Known
<1>8. /\ handler' \in [Connections -> Handler] /\ handler'[c].pc = "hello"
      /\ \A d \in Connections : d # c => handler'[d] = handler[d]
  BY <1>1, <1>2, GotoFacts DEF CoroutinesOK
<1>9. HandlersKnow'
  BY <1>1, <1>2, <1>8 DEF HandlersKnow
<1>10. CoroutinesOK'
  BY <1>1, <1>2, <1>8 DEF CoroutinesOK, Connect
<1>. QED
  BY <1>5, <1>6, <1>7, <1>9, <1>10, HubParts DEF RegistryOK

LEMMA ListenStep ==
  ASSUME HubInv, NEW c \in Connections, Listen(c)
  PROVE  HubInv'
<1>1. CoroutinesOK /\ RegistryOK
  BY HubParts
<1>2. sent \in 0 .. MaxMessages /\ typing \in [Conversations -> [Users -> {"no", "to come", "past"}]]
  BY <1>1 DEF CoroutinesOK
<1>3. CASE Leave(c)
  <2>1. "finally" \in Pcs \ {"new", "verify"}
    BY DEF Pcs
  <2>. QED
    BY <1>2, <1>3, <2>1, GotoStep DEF Leave
<1>4. CASE Ping(c)
  <2>1. "reply" \in Pcs \ {"new", "verify"}
    BY DEF Pcs
  <2>2. Receive(c) /\ Goto(c, "reply") /\ typing' = typing
    BY <1>4 DEF Ping
  <2>. QED
    BY <1>1, <2>1, <2>2, MessageFacts, GotoStep
<1>5. CASE Malformed(c)
  <2>1. "finally" \in Pcs \ {"new", "verify"}
    BY DEF Pcs
  <2>2. Receive(c) /\ Goto(c, "finally") /\ typing' = typing
    BY <1>5 DEF Malformed
  <2>. QED
    BY <1>1, <2>1, <2>2, MessageFacts, GotoStep
<1>6. CASE ReceiveSubscribe(c)
  <2>1. PICK w \in Workspaces, K \in SUBSET Conversations :
          handler' = [handler EXCEPT ![c] = [pc |-> "verify", workspace |-> w, conversations |-> K]]
    BY <1>6 DEF ReceiveSubscribe
  <2>2. PICK h \in Handler : h = [pc |-> "verify", workspace |-> w, conversations |-> K]
    BY DEF Handler, Pcs
  <2>3. handler' = [handler EXCEPT ![c] = h] /\ h.pc = "verify" /\ h.workspace \in Workspaces
    BY <2>1, <2>2
  <2>4. Receive(c) /\ typing' = typing
    BY <1>6 DEF ReceiveSubscribe
  <2>. QED
    BY <1>1, <1>2, <2>3, <2>4, MessageFacts, HandlerStep
<1>7. CASE Typing(c)
  <2>1. Receive(c)
    BY <1>7 DEF Typing
  <2>2. sent' \in 0 .. MaxMessages /\ UNCHANGED registry /\ UNCHANGED <<sock, scans, expiry>>
    BY <1>1, <2>1, MessageFacts
  <2>3. PICK u \in Users : u = client[c].user
    BY <1>1, ClientFacts DEF RegistryOK
  <2>4. PICK k \in Conversations :
          \/ /\ \E x \in {"to come", "no"} : typing' = [typing EXCEPT ![k][u] = x]
             /\ handler' = [handler EXCEPT ![c] = [Idle EXCEPT !.pc = "typing", !.conversations = {k}]]
          \/ UNCHANGED <<typing, handler>>
    BY <1>7, <2>3 DEF Typing
  <2>5. CASE /\ \E x \in {"to come", "no"} : typing' = [typing EXCEPT ![k][u] = x]
             /\ handler' = [handler EXCEPT ![c] = [Idle EXCEPT !.pc = "typing", !.conversations = {k}]]
    <3>1. PICK h \in Handler : h = [Idle EXCEPT !.pc = "typing", !.conversations = {k}] /\ h.pc = "typing"
      <4>1. /\ [Idle EXCEPT !.pc = "typing", !.conversations = {k}] \in Handler
            /\ [Idle EXCEPT !.pc = "typing", !.conversations = {k}].pc = "typing"
        BY DEF Idle, Handler, Pcs
      <4>. QED
        BY <4>1
    <3>2. handler' = [handler EXCEPT ![c] = h]
      BY <2>5, <3>1
    <3>3. typing' \in [Conversations -> [Users -> {"no", "to come", "past"}]]
      <4>1. PICK x \in {"no", "to come", "past"} : typing' = [typing EXCEPT ![k][u] = x]
        BY <2>5
      <4>2. typing[k] \in [Users -> {"no", "to come", "past"}]
        BY <1>2
      <4>3. [typing[k] EXCEPT ![u] = x] \in [Users -> {"no", "to come", "past"}]
        BY <4>2
      <4>4. typing' = [typing EXCEPT ![k] = [typing[k] EXCEPT ![u] = x]]
        BY <4>1
      <4>. QED
        BY <1>2, <4>3, <4>4
    <3>. QED
      BY <2>2, <3>1, <3>2, <3>3, HandlerStep
  <2>6. CASE UNCHANGED <<typing, handler>>
    <3>1. RegistryOK' /\ client' = client /\ connections' \subseteq connections
      BY <1>1, <2>2, RegistryUnchanged
    <3>2. CoroutinesOK' /\ HandlersKnow'
      BY <1>1, <2>2, <2>6, <3>1, HubParts, HandlersStep DEF CoroutinesOK
    <3>. QED
      BY <3>1, <3>2, HubParts
  <2>. QED
    BY <2>4, <2>5, <2>6
<1>. QED
  BY <1>3, <1>4, <1>5, <1>6, <1>7, ConnectStep DEF Listen

\* A connection that is not registered any more subscribes to nothing.
LEMMA SubscribeWorkspaceStep ==
  ASSUME HubInv, NEW c \in Connections, SubscribeWorkspace(c)
  PROVE  HubInv'
<1>1. RegistryOK /\ CoroutinesOK /\ HandlersKnow
  BY HubParts
<1>2. PICK w \in Workspaces : w = handler[c].workspace
  BY <1>1 DEF SubscribeWorkspace, At, HandlersKnow
<1>3. /\ UNCHANGED <<sock, typing, expiry, sent>> /\ handler[c].pc = "verify"
      /\ handler' = [handler EXCEPT ![c].pc = "joining"]
  BY DEF SubscribeWorkspace, At
<1>4. /\ handler' \in [Connections -> Handler] /\ handler'[c].pc = "joining"
      /\ \A d \in Connections : d # c => handler'[d] = handler[d]
  <2>1. handler[c] \in Handler
    BY <1>1 DEF CoroutinesOK
  <2>2. /\ [handler[c] EXCEPT !.pc = "joining"] \in Handler
        /\ [handler[c] EXCEPT !.pc = "joining"].pc = "joining"
    BY <2>1 DEF Handler, Pcs
  <2>. QED
    BY <1>1, <1>3, <2>2 DEF CoroutinesOK
<1>5. CASE c \in connections /\ Join(c, w)
  <2>1. /\ RegistryOK' /\ connections' = connections
        /\ \A d \in Connections : d # c => client'[d] = client[d]
    BY <1>1, <1>5, JoinStep
  <2>2. scans' \in [Coroutines -> Seq(Scan)]
    <3>1. PICK u \in Users : u = client[c].user
      BY <1>1, ClientFacts DEF RegistryOK
    <3>2. Presence(w, u) \in Scan /\ Event(w) \in Scan
      BY DEF Presence, Event, Scan, Known
    <3>3. <<Presence(w, u), Event(w)>> \in Seq(Scan)
      BY <3>2
    <3>4. scans' = [scans EXCEPT ![c] = <<Presence(w, u), Event(w)>>]
      BY <1>5, <3>1 DEF Join
    <3>. QED
      BY <1>1, <3>3, <3>4 DEF CoroutinesOK
  <2>3. HandlersKnow'
    BY <1>1, <1>4, <2>1 DEF HandlersKnow
  <2>4. CoroutinesOK'
    BY <1>1, <1>3, <1>4, <2>2 DEF CoroutinesOK
  <2>. QED
    BY <2>1, <2>3, <2>4, HubParts
<1>6. CASE UNCHANGED <<registry, scans>>
  <2>1. RegistryOK' /\ client' = client /\ connections' \subseteq connections
    BY <1>1, <1>6, RegistryUnchanged
  <2>2. HandlersKnow'
    BY <1>1, <1>4, <2>1, HandlersStep
  <2>3. CoroutinesOK'
    BY <1>1, <1>3, <1>4, <1>6 DEF CoroutinesOK
  <2>. QED
    BY <2>1, <2>2, <2>3, HubParts
<1>. QED
  BY <1>2, <1>5, <1>6 DEF SubscribeWorkspace

LEMMA SubscribeConversationsStep ==
  ASSUME HubInv, NEW c \in Connections, SubscribeConversations(c)
  PROVE  HubInv'
<1>. DEFINE K == handler[c].conversations
<1>1. RegistryOK /\ CoroutinesOK /\ HandlersKnow
  BY HubParts
<1>2. /\ Goto(c, "receive") /\ "receive" \in Pcs \ {"new", "verify"}
      /\ UNCHANGED <<sock, connections, workspaceConnections, userConnections, presence,
                     typing, scans, expiry, sent>>
  BY DEF SubscribeConversations, Pcs
<1>3. /\ handler' \in [Connections -> Handler] /\ handler'[c].pc = "receive"
      /\ \A d \in Connections : d # c => handler'[d] = handler[d]
  BY <1>1, <1>2, GotoFacts DEF CoroutinesOK
<1>4. CoroutinesOK'
  BY <1>1, <1>2, <1>3 DEF CoroutinesOK
<1>5. CASE UNCHANGED <<client, conversationConnections>>
  <2>1. RegistryOK' /\ client' = client /\ connections' \subseteq connections
    BY <1>1, <1>2, <1>5, RegistryUnchanged DEF registry
  <2>2. HandlersKnow'
    BY <1>1, <1>3, <2>1, HandlersStep
  <2>. QED
    BY <1>4, <2>1, <2>2, HubParts
<1>6. CASE /\ c \in connections
           /\ client' = [client EXCEPT ![c].conversations = @ \cup K]
           /\ conversationConnections' = [k \in Conversations |->
                IF k \in K THEN conversationConnections[k] \cup {c} ELSE conversationConnections[k]]
  <2>1. K \in SUBSET Conversations /\ client[c] \in Client
    BY <1>1 DEF CoroutinesOK, Handler, RegistryOK, RegistryTypeOK
  <2>2. /\ client'[c] \in Client /\ client'[c].user = client[c].user
        /\ client'[c].workspace = client[c].workspace
        /\ client'[c].conversations = client[c].conversations \cup K
        /\ \A d \in Connections : d # c => client'[d] = client[d]
    <3>. HIDE DEF K
    <3>. QED
      BY <1>1, <1>6, <2>1 DEF RegistryOK, RegistryTypeOK, Client
  <2>. HIDE DEF K
  <2>3. RegistryTypeOK'
    <3>1. client' \in [Connections -> Client]
      BY <1>1, <1>6, <2>2 DEF RegistryOK, RegistryTypeOK
    <3>2. conversationConnections' \in [Conversations -> SUBSET Connections]
      BY <1>1, <1>6 DEF RegistryOK, RegistryTypeOK
    <3>. QED
      BY <1>1, <1>2, <3>1, <3>2 DEF RegistryOK, RegistryTypeOK
  <2>4. connections' = connections /\ connections \subseteq Connections
    BY <1>1, <1>2 DEF RegistryOK, RegistryTypeOK
  <2>5. \A d \in Connections : client'[d].user = client[d].user /\ client'[d].workspace = client[d].workspace
    BY <2>2
  <2>6. IndexesAgree'
    <3>1. ASSUME NEW k \in Conversations
          PROVE  conversationConnections'[k] = {d \in connections' : k \in client'[d].conversations}
      <4>1. conversationConnections[k] = {d \in connections : k \in client[d].conversations}
        BY <1>1 DEF RegistryOK, IndexesAgree
      <4>2. CASE k \in K
        <5>1. conversationConnections'[k] = conversationConnections[k] \cup {c}
          BY <1>6, <4>2
        <5>. QED
          BY <1>6, <2>2, <2>4, <4>1, <4>2, <5>1
      <4>3. CASE k \notin K
        <5>1. conversationConnections'[k] = conversationConnections[k]
          BY <1>6, <4>3
        <5>. QED
          BY <2>2, <2>4, <4>1, <4>3, <5>1
      <4>. QED
        BY <4>2, <4>3
    <3>2. ASSUME NEW w \in Workspaces
          PROVE  workspaceConnections'[w] = {d \in connections' : client'[d].workspace = w}
      <4>1. workspaceConnections[w] = {d \in connections : client[d].workspace = w}
        BY <1>1 DEF RegistryOK, IndexesAgree
      <4>2. workspaceConnections'[w] = workspaceConnections[w]
        BY <1>2
      <4>. QED
        BY <2>4, <2>5, <4>1, <4>2
    <3>3. ASSUME NEW u \in Users
          PROVE  userConnections'[u] = {d \in connections' : client'[d].user = u}
      <4>1. userConnections[u] = {d \in connections : client[d].user = u}
        BY <1>1 DEF RegistryOK, IndexesAgree
      <4>2. userConnections'[u] = userConnections[u]
        BY <1>2
      <4>. QED
        BY <2>4, <2>5, <4>1, <4>2
    <3>. QED
      BY <3>1, <3>2, <3>3 DEF IndexesAgree
  <2>7. OnlineIsConnected'
    <3>1. /\ presence' = presence /\ workspaceConnections' = workspaceConnections
          /\ \A w \in Workspaces : workspaceConnections[w] \subseteq Connections
      BY <1>1, <1>2 DEF RegistryOK, RegistryTypeOK
    <3>2. \A w \in Workspaces : Known(w)' = Known(w)
      BY <3>1 DEF Known
    <3>3. ASSUME NEW w \in Workspaces
          PROVE  /\ \A u \in Users : presence'[w][u] = "online" =>
                      \E d \in workspaceConnections'[w] : client'[d].user = u
                 /\ \A d \in workspaceConnections'[w] : client'[d].user \in Known(w)'
      <4>1. /\ \A u \in Users : presence[w][u] = "online" =>
                  \E d \in workspaceConnections[w] : client[d].user = u
            /\ \A d \in workspaceConnections[w] : client[d].user \in Known(w)
        BY <1>1 DEF RegistryOK, OnlineIsConnected
      <4>2. \A d \in workspaceConnections[w] : client'[d].user = client[d].user
        BY <2>5, <3>1
      <4>3. workspaceConnections'[w] = workspaceConnections[w] /\ presence'[w] = presence[w]
        BY <3>1
      <4>4. \A u \in Users : presence'[w][u] = "online" =>
              \E d \in workspaceConnections'[w] : client'[d].user = u
        BY <4>1, <4>2, <4>3
      <4>5. \A d \in workspaceConnections'[w] : client'[d].user \in Known(w)'
        BY <3>2, <4>1, <4>2, <4>3
      <4>. QED
        BY <4>4, <4>5
    <3>. QED
      BY <3>3 DEF OnlineIsConnected
  <2>8. HandlersKnow'
    BY <1>1, <1>3, <2>2, <2>4 DEF HandlersKnow
  <2>. QED
    BY <1>4, <2>3, <2>6, <2>7, <2>8, HubParts DEF RegistryOK
<1>. QED
  BY <1>5, <1>6 DEF SubscribeConversations

LEMMA FinallyStep ==
  ASSUME HubInv, NEW c \in Connections, Finally(c)
  PROVE  HubInv'
<1>1. RegistryOK /\ CoroutinesOK /\ HandlersKnow /\ c \in Coroutines
  BY HubParts DEF Coroutines
<1>2. /\ RegistryOK' /\ client' = client /\ connections' \subseteq connections
      /\ scans' \in [Coroutines -> Seq(Scan)]
  BY <1>1, DisconnectStep DEF Finally, CoroutinesOK
<1>3. /\ handler' \in [Connections -> Handler] /\ handler'[c].pc = "closing"
      /\ \A d \in Connections : d # c => handler'[d] = handler[d]
  BY <1>1, GotoFacts DEF Finally, CoroutinesOK, Pcs
<1>4. HandlersKnow'
  BY <1>1, <1>2, <1>3, HandlersStep
<1>5. CoroutinesOK'
  BY <1>1, <1>2, <1>3 DEF CoroutinesOK, Finally
<1>. QED
  BY <1>2, <1>4, <1>5, HubParts

LEMMA ServeStep ==
  ASSUME HubInv, NEW c \in Connections, Serve(c)
  PROVE  HubInv'
<1>1. {"receive", "reply", "ended"} \subseteq Pcs \ {"new", "verify"} /\ sent \in 0 .. MaxMessages
  BY HubParts DEF Pcs, CoroutinesOK
<1>2. CASE Replied(c) \/ Typed(c)
  BY <1>1, <1>2, GotoStep DEF Replied, Typed
<1>3. CASE Refuse(c)
  BY <1>1, <1>3, GotoStep DEF Refuse
<1>4. CASE Ended(c)
  BY <1>1, <1>4, GotoStep DEF Ended
<1>. QED
  BY <1>2, <1>3, <1>4, SubscribeWorkspaceStep, SubscribeConversationsStep, FinallyStep DEF Serve

\* Typing and the loop that expires it touch no connection.
LEMMA TypingStep ==
  ASSUME HubInv, UNCHANGED <<sock, registry, handler, scans, sent>>, expiry' \in Expiry,
         typing' = typing \/ \E k \in Conversations, u \in Users, x \in {"no", "past"} :
                               typing' = [typing EXCEPT ![k][u] = x]
  PROVE  HubInv'
<1>1. RegistryOK /\ CoroutinesOK /\ HandlersKnow
  BY HubParts
<1>2. RegistryOK' /\ client' = client /\ connections' \subseteq connections
  BY <1>1, RegistryUnchanged
<1>3. HandlersKnow'
  BY <1>1, <1>2, HandlersStep
<1>4. typing \in [Conversations -> [Users -> {"no", "to come", "past"}]]
  BY <1>1 DEF CoroutinesOK
<1>5. ASSUME NEW k \in Conversations, NEW u \in Users, NEW x \in {"no", "past"},
             typing' = [typing EXCEPT ![k][u] = x]
      PROVE  typing' \in [Conversations -> [Users -> {"no", "to come", "past"}]]
  <2>1. typing[k] \in [Users -> {"no", "to come", "past"}]
    BY <1>4
  <2>2. [typing[k] EXCEPT ![u] = x] \in [Users -> {"no", "to come", "past"}]
    BY <2>1
  <2>3. typing' = [typing EXCEPT ![k] = [typing[k] EXCEPT ![u] = x]]
    BY <1>5
  <2>. QED
    BY <1>4, <2>2, <2>3
<1>6. CoroutinesOK'
  BY <1>1, <1>4, <1>5 DEF CoroutinesOK
<1>. QED
  BY <1>2, <1>3, <1>6, HubParts

LEMMA ExpiryStep ==
  ASSUME HubInv, ExpiryLoop \/ \E k \in Conversations, u \in Users : Expire(k, u)
  PROVE  HubInv'
<1>1. /\ expiry \in Expiry /\ expiry.todo \in SUBSET Conversations
      /\ expiry.conversation \in SUBSET Conversations /\ expiry.expired \in SUBSET Users
  BY HubParts DEF CoroutinesOK, Expiry
<1>2. Todo \in SUBSET Conversations /\ \A k : Past(k) \in SUBSET Users
  BY <1>1 DEF Todo, Past
<1>3. ASSUME NEW k \in Conversations, NEW u \in Users, Expire(k, u) PROVE HubInv'
  BY <1>1, <1>3, TypingStep DEF Expire
<1>4. ASSUME NEW k \in Conversations, NEW u \in Users, NEW E \in SUBSET Users,
             NEW K \in SUBSET Conversations, Remove(k, u, E, K),
             UNCHANGED <<sock, registry, handler, scans, sent>>
      PROVE  HubInv'
  <2>1. expiry' \in Expiry
    BY <1>4 DEF Remove, Expiry
  <2>. QED
    BY <1>4, <2>1, TypingStep DEF Remove
<1>5. CASE ExpireOne
  <2>1. CASE \E k \in expiry.conversation, u \in expiry.expired : Remove(k, u, expiry.expired, expiry.todo)
    BY <1>1, <1>4, <1>5, <2>1 DEF ExpireOne
  <2>2. CASE \E k \in Todo : \E u \in Past(k) : Remove(k, u, Past(k), Todo \ {k})
    <3>1. PICK k \in Todo : \E u \in Past(k) : Remove(k, u, Past(k), Todo \ {k})
      BY <2>2
    <3>2. k \in Conversations /\ Past(k) \in SUBSET Users /\ Todo \ {k} \in SUBSET Conversations
      BY <1>2
    <3>. QED
      BY <1>4, <1>5, <3>1, <3>2 DEF ExpireOne
  <2>. QED
    BY <1>5, <2>1, <2>2 DEF ExpireOne
<1>6. CASE Sleep
  <2>1. Asleep \in Expiry
    BY DEF Asleep, Expiry
  <2>. QED
    BY <1>6, <2>1, TypingStep DEF Sleep
<1>. QED
  BY <1>3, <1>5, <1>6 DEF ExpiryLoop

\* However the handlers of any number of connections, their broadcasts, the
\* heartbeats and failing sends interleave, the hub's indexes agree with the
\* connections registered and nobody is shown online without one.
THEOREM HubHolds == Spec => []HubInv
<1>1. ASSUME HubInv, [Next]_vars
      PROVE  HubInv'
  <2>1. CASE UNCHANGED vars
    <3>1. RegistryOK /\ CoroutinesOK /\ HandlersKnow
      BY <1>1, HubParts
    <3>2. RegistryOK' /\ CoroutinesOK' /\ HandlersKnow'
      BY <2>1, <3>1, RegistryUnchanged, HandlersStep DEF vars, CoroutinesOK
    <3>. QED
      BY <3>2, HubParts
  <2>2. ASSUME NEW c \in Connections, Die(c) \/ Listen(c) \/ Serve(c) \/ Heartbeat(c) \/ Publish(c)
        PROVE  HubInv'
    BY <1>1, <2>2, NetworkStep, ListenStep, ServeStep, PublishStep DEF Heartbeat
  <2>3. ASSUME NEW t \in Coroutines, Broadcast(t) PROVE HubInv'
    BY <1>1, <2>3, BroadcastStep
  <2>. QED
    BY <1>1, <2>1, <2>2, <2>3, ExpiryStep DEF Next
<1>. QED
  BY HubInit, <1>1, PTL DEF Spec
====
