--------------------------- MODULE Accounts_proofs ---------------------------
(***************************************************************************)
(* Proofs about developer sessions and logins, for any clients, addresses, *)
(* requests and bounds, and about the four components of MCAccounts side   *)
(* by side.                                                                *)
(***************************************************************************)
EXTENDS MCAccounts, Routing_proofs, SequenceTheorems

WP == INSTANCE Workspaces_proofs WITH req <- wreq, issued <- wissued

-----------------------------------------------------------------------------
(* Developer sessions: requests *)

LEMMA SessionRequests ==
  /\ D!Free \in D!Request /\ D!Free.op = "none"
  /\ \A op \in D!Ops, c \in Users, i \in Nat, status \in D!Live :
       [D!Free EXCEPT !.op = op, !.item = i, !.client = c, !.status = status] \in D!Request
  /\ \A op \in D!Ops, c \in Users, i \in Nat :
       [D!Free EXCEPT !.op = op, !.item = i, !.client = c] \in D!Request
  /\ \A op \in D!Ops, c \in Users : [D!Free EXCEPT !.op = op, !.client = c] \in D!Request
  /\ \A op \in D!Ops, marks \in SUBSET (Nat \X D!Live) :
       [D!Free EXCEPT !.op = op, !.marks = marks] \in D!Request
  /\ \A r \in D!Request, ended \in SUBSET Nat : [r EXCEPT !.ended = ended] \in D!Request
<1>1. "none" \in D!Ops /\ "active" \in D!Live
  BY DEF D!Ops, D!Live
<1>2. D!Free \in D!Request /\ D!Free.op = "none"
  BY <1>1 DEF D!Free, D!Request
<1>. QED
  BY <1>2 DEF D!Request

LEMMA SessionOps == "create" \in D!Ops /\ "heartbeat" \in D!Ops /\ "close" \in D!Ops /\ "sweep" \in D!Ops
BY DEF D!Ops

LEMMA SessionFacts ==
  ASSUME D!SessionsInv
  PROVE  /\ session \in Seq(D!Session) /\ Len(session) \in Nat
         /\ DOMAIN session = 1 .. Len(session)
         /\ dreq \in [Slots -> D!Request]
         /\ now \in Nat /\ archived \in BOOLEAN /\ dissued \in Nat
         /\ \A i \in DOMAIN session :
              /\ session[i] \in D!Session /\ session[i].beat <= now
              /\ session[i].client \in Users
              /\ session[i].status # "closed" => session[i].status \in D!Live
              /\ session[i].status = "closed" => session[i].ended
         /\ \A s \in Slots : dreq[s] \in D!Request /\ D!RequestKnows(dreq[s])
<1>1. /\ session \in Seq(D!Session) /\ dreq \in [Slots -> D!Request]
      /\ now \in Nat /\ archived \in BOOLEAN /\ dissued \in Nat
      /\ \A i \in DOMAIN session : session[i].beat <= now
  BY DEF D!SessionsInv, D!TypeOK
<1>2. \A i \in DOMAIN session : session[i] \in D!Session
  BY <1>1
<1>3. \A i \in DOMAIN session :
        /\ session[i].client \in Users
        /\ session[i].status # "closed" => session[i].status \in D!Live
  BY <1>2 DEF D!Session
<1>4. \A i \in DOMAIN session : session[i].status = "closed" => session[i].ended
  BY DEF D!SessionsInv, D!ClosedHasTime, D!Closed
<1>5. \A s \in Slots : D!RequestKnows(dreq[s])
  BY DEF D!SessionsInv, D!RequestsKnow
<1>. QED
  BY <1>1, <1>2, <1>3, <1>4, <1>5

\* Sessions only come, so that what a request knows stays true.
LEMMA SessionsKnown ==
  ASSUME D!SessionsInv, DOMAIN session \subseteq DOMAIN session',
         \A q \in {dreq'[s] : s \in Slots} : q \in {dreq[s] : s \in Slots} \/ D!RequestKnows(q)
  PROVE  D!RequestsKnow'
<1>1. ASSUME NEW q, D!RequestKnows(q) PROVE D!RequestKnows(q)'
  BY <1>1 DEF D!RequestKnows
<1>2. ASSUME NEW q \in {dreq'[s] : s \in Slots} PROVE D!RequestKnows(q)'
  <2>1. D!RequestKnows(q)
    BY <1>2 DEF D!SessionsInv, D!RequestsKnow
  <2>. QED
    BY <1>1, <2>1
<1>. QED
  BY <1>2 DEF D!RequestsKnow

LEMMA FreeSession == ASSUME D!SessionsInv PROVE D!RequestKnows(D!Free)
<1>1. D!Free.op = "none" /\ D!Free.ended = {}
  BY DEF D!Free
<1>. QED
  BY <1>1 DEF D!RequestKnows

\* A request that starts has not loaded a closed session.
LEMMA SessionStart ==
  ASSUME D!SessionsInv, NEW s \in Slots, NEW r \in D!Request, D!Start(s, r),
         D!RequestKnows([r EXCEPT !.ended = D!Closed])
  PROVE  D!SessionsInv' /\ session' = session
<1>1. PICK q : q = [r EXCEPT !.ended = D!Closed]
  OBVIOUS
<1>2. /\ dreq' = [dreq EXCEPT ![s] = q] /\ dissued' = dissued + 1
      /\ UNCHANGED <<session, archived, now>>
  BY <1>1 DEF D!Start, D!tables
<1>3. q \in D!Request
  <2>1. D!Closed \in SUBSET Nat
    BY SessionFacts DEF D!Closed
  <2>. QED
    BY <1>1, <2>1, SessionRequests
<1>4. dreq' \in [Slots -> D!Request] /\ \A t \in Slots : dreq'[t] = IF t = s THEN q ELSE dreq[t]
  BY <1>2, <1>3, SessionFacts
<1>5. D!RequestsKnow'
  <2>1. \A p \in {dreq'[t] : t \in Slots} : p = q \/ p \in {dreq[t] : t \in Slots}
    BY <1>4
  <2>. QED
    BY <1>1, <1>2, <2>1, SessionsKnown
<1>6. D!TypeOK'
  BY <1>2, <1>4, SessionFacts DEF D!TypeOK
<1>7. D!ClosedHasTime'
  BY <1>2 DEF D!SessionsInv, D!ClosedHasTime, D!Closed
<1>. QED
  BY <1>2, <1>5, <1>6, <1>7 DEF D!SessionsInv

\* A step that changes sessions only as it may.
LEMMA SessionStep ==
  ASSUME D!SessionsInv, session' \in Seq(D!Session), DOMAIN session \subseteq DOMAIN session',
         \A i \in DOMAIN session' :
           session'[i].beat <= now /\ (session'[i].status = "closed" => session'[i].ended),
         now' \in Nat, now <= now', archived' \in BOOLEAN, dissued' = dissued,
         dreq' = dreq \/ \E s \in Slots : dreq' = [dreq EXCEPT ![s] = D!Free]
  PROVE  D!SessionsInv'
<1>1. dreq' \in [Slots -> D!Request]
  BY SessionFacts, SessionRequests
<1>2. \A q \in {dreq'[t] : t \in Slots} : q = D!Free \/ q \in {dreq[t] : t \in Slots}
  BY SessionFacts
<1>3. D!RequestsKnow'
  BY <1>2, FreeSession, SessionsKnown
<1>4. ASSUME NEW i \in DOMAIN session' PROVE session'[i].beat <= now'
  <2>1. session'[i].beat \in Nat
    <3>1. session'[i] \in D!Session
      OBVIOUS
    <3>. QED
      BY <3>1 DEF D!Session
  <2>. QED
    BY <2>1, SessionFacts
<1>5. D!TypeOK'
  BY <1>1, <1>4, SessionFacts DEF D!TypeOK
<1>6. D!ClosedHasTime'
  BY DEF D!ClosedHasTime, D!Closed
<1>. QED
  BY <1>3, <1>5, <1>6 DEF D!SessionsInv

-----------------------------------------------------------------------------
(* Developer sessions: steps *)

LEMMA SessionBegins ==
  ASSUME D!SessionsInv, NEW s \in Slots, D!Begin(s)
  PROVE  D!SessionsInv' /\ session' = session
<1>1. D!Closed \subseteq DOMAIN session
  BY DEF D!Closed
<1>2. ASSUME NEW c \in Users, D!Create(s, c) PROVE D!SessionsInv' /\ session' = session
  <2>1. PICK r \in D!Request : r = [D!Free EXCEPT !.op = "create", !.client = c]
    BY SessionRequests, SessionOps
  <2>2. PICK q : q = [r EXCEPT !.ended = D!Closed]
    OBVIOUS
  <2>3. q.op = "create" /\ q.client = c /\ q.ended = D!Closed
    BY <2>1, <2>2 DEF D!Free
  <2>4. D!RequestKnows(q)
    BY <1>1, <2>3 DEF D!RequestKnows
  <2>. QED
    BY <1>2, <2>1, <2>2, <2>4, SessionStart DEF D!Create
<1>3. ASSUME NEW i \in DOMAIN session, session[i].status # "closed", D!Start(s, D!Heard(i))
      PROVE  D!SessionsInv' /\ session' = session
  <2>1. PICK r \in D!Request : r = D!Heard(i)
    <3>1. i \in Nat /\ session[i].client \in Users /\ session[i].status \in D!Live
      BY <1>3, SessionFacts
    <3>. QED
      BY <3>1, SessionRequests, SessionOps DEF D!Heard
  <2>2. PICK q : q = [r EXCEPT !.ended = D!Closed]
    OBVIOUS
  <2>3. q.op = "heartbeat" /\ q.item = i /\ q.ended = D!Closed
    BY <2>1, <2>2 DEF D!Heard, D!Free
  <2>4. i \notin D!Closed
    BY <1>3 DEF D!Closed
  <2>5. D!RequestKnows(q)
    BY <1>1, <2>3, <2>4 DEF D!RequestKnows
  <2>. QED
    BY <1>3, <2>1, <2>2, <2>5, SessionStart
<1>4. ASSUME NEW i \in DOMAIN session, D!Close(s, i)
      PROVE  D!SessionsInv' /\ session' = session
  <2>1. PICK r \in D!Request : r = [D!Free EXCEPT !.op = "close", !.item = i, !.client = session[i].client]
    <3>1. i \in Nat /\ session[i].client \in Users
      BY SessionFacts
    <3>. QED
      BY <3>1, SessionRequests, SessionOps
  <2>2. PICK q : q = [r EXCEPT !.ended = D!Closed]
    OBVIOUS
  <2>3. q.op = "close" /\ q.item = i /\ q.ended = D!Closed
    BY <2>1, <2>2 DEF D!Free
  <2>4. i \notin D!Closed
    BY <1>4 DEF D!Close, D!Closed
  <2>5. D!RequestKnows(q)
    BY <1>1, <2>3, <2>4 DEF D!RequestKnows
  <2>. QED
    BY <1>4, <2>1, <2>2, <2>5, SessionStart DEF D!Close
<1>5. ASSUME D!MarkIdle(s)
      PROVE  D!SessionsInv' /\ session' = session
  <2>1. PICK marks :
          /\ marks = {<<i, D!Swept(i)>> : i \in {o \in DOMAIN session :
               session[o].status \in {"active", "idle"} /\ D!Swept(o) # session[o].status}}
          /\ D!Start(s, [D!Free EXCEPT !.op = "sweep", !.marks = marks])
    BY <1>5 DEF D!MarkIdle
  <2>2. ASSUME NEW m \in marks
        PROVE  m \in Nat \X D!Live /\ m[1] \in DOMAIN session \ D!Closed
    <3>1. PICK i \in DOMAIN session : session[i].status \in {"active", "idle"} /\ m = <<i, D!Swept(i)>>
      BY <2>1
    <3>2. D!Swept(i) \in D!Live
      BY <3>1 DEF D!Swept, D!Live
    <3>. QED
      BY <3>1, <3>2, SessionFacts DEF D!Closed
  <2>3. PICK r \in D!Request : r = [D!Free EXCEPT !.op = "sweep", !.marks = marks]
    BY <2>2, SessionRequests, SessionOps
  <2>4. PICK q : q = [r EXCEPT !.ended = D!Closed]
    OBVIOUS
  <2>5. q.op = "sweep" /\ q.marks = marks /\ q.ended = D!Closed
    BY <2>3, <2>4 DEF D!Free
  <2>6. D!RequestKnows(q)
    BY <1>1, <2>2, <2>5 DEF D!RequestKnows
  <2>. QED
    BY <2>1, <2>3, <2>4, <2>6, SessionStart
<1>6. ASSUME NEW c \in Users, D!Connect(s, c) PROVE D!SessionsInv' /\ session' = session
  <2>1. CASE \E i \in D!Resumable(c) : D!Start(s, D!Heard(i))
    <3>1. PICK i \in D!Resumable(c) : D!Start(s, D!Heard(i))
      BY <2>1
    <3>2. i \in DOMAIN session /\ session[i].status # "closed"
      BY <3>1 DEF D!Resumable, D!Live
    <3>. QED
      BY <1>3, <3>1, <3>2
  <2>2. CASE D!Create(s, c)
    BY <1>2, <2>2
  <2>. QED
    BY <1>6, <2>1, <2>2 DEF D!Connect
<1>. QED
  BY <1>2, <1>3, <1>4, <1>5, <1>6 DEF D!Begin, D!Heartbeat

\* Writing: the slot is free again, and no session that was closed when the
\* request had loaded what it needed is touched.
LEMMA SessionWrites ==
  ASSUME D!SessionsInv, NEW s \in Slots, D!Write(s)
  PROVE  /\ D!SessionsInv'
         /\ dreq' = [dreq EXCEPT ![s] = D!Free]
         /\ \A i \in dreq[s].ended : session'[i] = session[i]
<1>1. PICK r \in D!Request : r = dreq[s] /\ D!RequestKnows(r)
  BY SessionFacts
<1>2. /\ dreq' = [dreq EXCEPT ![s] = D!Free]
      /\ UNCHANGED <<dissued, archived, now>>
  BY DEF D!Write, D!WriteCreate, D!WriteHeartbeat, D!WriteClose, D!WriteIdle, D!End
<1>3. r.ended \subseteq DOMAIN session
  BY <1>1 DEF D!RequestKnows
<1>4. ASSUME session' \in Seq(D!Session), DOMAIN session \subseteq DOMAIN session',
             \A i \in DOMAIN session' :
               session'[i].beat <= now /\ (session'[i].status = "closed" => session'[i].ended),
             \A i \in r.ended : session'[i] = session[i]
      PROVE  /\ D!SessionsInv'
             /\ \A i \in dreq[s].ended : session'[i] = session[i]
  <2>1. now' \in Nat /\ now <= now' /\ archived' \in BOOLEAN
    BY <1>2, SessionFacts
  <2>. QED
    BY <1>1, <1>2, <1>4, <2>1, SessionStep
<1>5. CASE D!WriteCreate(s)
  <2>1. PICK row : row = [client |-> r.client, status |-> "active", beat |-> now, ended |-> FALSE]
    OBVIOUS
  <2>2. session' = Append(session, row) /\ r.op = "create"
    BY <1>1, <1>5, <2>1 DEF D!WriteCreate, D!Doing
  <2>3. row \in D!Session /\ row.beat = now /\ row.status # "closed"
    <3>1. r.client \in Users
      BY <1>1, <2>2 DEF D!RequestKnows
    <3>. QED
      BY <2>1, <3>1, SessionFacts DEF D!Session, D!Live
  <2>4. /\ session' \in Seq(D!Session)
        /\ \A i \in DOMAIN session : i \in DOMAIN session' /\ session'[i] = session[i]
        /\ \A i \in DOMAIN session' : i \in DOMAIN session \/ session'[i] = row
    BY <2>2, <2>3, SessionFacts, AppendProperties, LenProperties
  <2>5. \A i \in DOMAIN session' :
          session'[i].beat <= now /\ (session'[i].status = "closed" => session'[i].ended)
    BY <2>3, <2>4, SessionFacts
  <2>. QED
    BY <1>2, <1>3, <1>4, <2>4, <2>5
<1>6. CASE D!WriteHeartbeat(s)
  <2>1. PICK i : i = r.item /\ i \in DOMAIN session /\ i \notin r.ended
    BY <1>1, <1>6 DEF D!WriteHeartbeat, D!Doing, D!RequestKnows
  <2>2. PICK old \in D!Session : old = session[i]
    BY <2>1, SessionFacts
  <2>3. PICK row : /\ row = [old EXCEPT !.beat = now,
                       !.status = IF r.status \in {"idle", "disconnected"} THEN "active" ELSE old.status]
                   /\ session' = [session EXCEPT ![i] = row]
    <3>1. session' = [session EXCEPT ![i] =
            [session[i] EXCEPT !.beat = now,
                !.status = IF r.status \in {"idle", "disconnected"} THEN "active" ELSE session[i].status]]
      BY <1>1, <1>6, <2>1 DEF D!WriteHeartbeat
    <3>. QED
      BY <2>2, <3>1
  <2>4. /\ row \in D!Session /\ row.beat = now /\ row.ended = old.ended
        /\ row.status = "closed" => old.status = "closed"
    BY <2>2, <2>3, SessionFacts DEF D!Session, D!Live
  <2>5. /\ session' \in Seq(D!Session) /\ DOMAIN session' = DOMAIN session
        /\ \A j \in DOMAIN session : session'[j] = IF j = i THEN row ELSE session[j]
    BY <2>1, <2>3, <2>4, SessionFacts
  <2>6. ASSUME NEW j \in DOMAIN session'
        PROVE  session'[j].beat <= now /\ (session'[j].status = "closed" => session'[j].ended)
    BY <2>1, <2>2, <2>4, <2>5, SessionFacts
  <2>. QED
    BY <1>2, <1>3, <1>4, <2>1, <2>5, <2>6
<1>7. CASE D!WriteClose(s)
  <2>1. PICK i : i = r.item /\ i \in DOMAIN session /\ i \notin r.ended
    BY <1>1, <1>7 DEF D!WriteClose, D!Doing, D!RequestKnows
  <2>2. PICK old \in D!Session : old = session[i] /\ old.beat <= now
    BY <2>1, SessionFacts
  <2>3. PICK row : /\ row = [old EXCEPT !.status = "closed", !.ended = TRUE]
                   /\ session' = [session EXCEPT ![i] = row]
    BY <1>1, <1>7, <2>1, <2>2 DEF D!WriteClose
  <2>4. row \in D!Session /\ row.beat = old.beat /\ row.ended
    BY <2>2, <2>3 DEF D!Session, D!Live
  <2>5. /\ session' \in Seq(D!Session) /\ DOMAIN session' = DOMAIN session
        /\ \A j \in DOMAIN session : session'[j] = IF j = i THEN row ELSE session[j]
    BY <2>1, <2>3, <2>4, SessionFacts
  <2>6. ASSUME NEW j \in DOMAIN session'
        PROVE  session'[j].beat <= now /\ (session'[j].status = "closed" => session'[j].ended)
    BY <2>1, <2>2, <2>4, <2>5, SessionFacts
  <2>. QED
    BY <1>2, <1>3, <1>4, <2>1, <2>5, <2>6
<1>8. CASE D!WriteIdle(s)
  <2>1. PICK marks : /\ marks = r.marks
                     /\ marks \in SUBSET (Nat \X D!Live)
                     /\ \A m \in marks : m[1] \in DOMAIN session \ r.ended
    BY <1>1, <1>8 DEF D!WriteIdle, D!Doing, D!RequestKnows, D!Request
  <2>2. session' = [i \in DOMAIN session |->
          IF \E m \in marks : m[1] = i
          THEN [session[i] EXCEPT !.status = (CHOOSE m \in marks : m[1] = i)[2]]
          ELSE session[i]]
    BY <1>1, <1>8, <2>1 DEF D!WriteIdle
  <2>3. ASSUME NEW i \in DOMAIN session
        PROVE  /\ session'[i] \in D!Session /\ session'[i].beat = session[i].beat
               /\ session'[i].ended = session[i].ended
               /\ session'[i].status = "closed" => session[i].status = "closed"
               /\ i \in r.ended => session'[i] = session[i]
    <3>1. PICK old \in D!Session : old = session[i]
      BY SessionFacts
    <3>2. CASE \E m \in marks : m[1] = i
      <4>1. PICK status : status = (CHOOSE m \in marks : m[1] = i)[2]
        OBVIOUS
      <4>2. status \in D!Live
        <5>1. (CHOOSE m \in marks : m[1] = i) \in marks
          BY <3>2, Zenon
        <5>. QED
          BY <2>1, <4>1, <5>1
      <4>3. session'[i] = [old EXCEPT !.status = status]
        BY <2>2, <3>1, <3>2, <4>1
      <4>4. PICK new : new = [old EXCEPT !.status = status]
        OBVIOUS
      <4>5. new \in D!Session /\ new.beat = old.beat /\ new.ended = old.ended /\ new.status = status
        BY <4>2, <4>4 DEF D!Session
      <4>6. status # "closed"
        BY <4>2 DEF D!Live
      <4>7. i \notin r.ended
        BY <2>1, <3>2
      <4>. QED
        BY <3>1, <4>3, <4>4, <4>5, <4>6, <4>7
    <3>3. CASE ~\E m \in marks : m[1] = i
      BY <2>2, <3>1, <3>3
    <3>. QED
      BY <3>2, <3>3
  <2>4. session' \in Seq(D!Session) /\ DOMAIN session' = DOMAIN session
    <3>1. DOMAIN session' = DOMAIN session
      BY <2>2
    <3>2. session' \in [1 .. Len(session) -> D!Session]
      BY <2>2, <2>3, <3>1, SessionFacts
    <3>. QED
      BY <3>1, <3>2, SessionFacts
  <2>5. ASSUME NEW j \in DOMAIN session'
        PROVE  session'[j].beat <= now /\ (session'[j].status = "closed" => session'[j].ended)
    BY <2>3, <2>4, SessionFacts
  <2>. QED
    BY <1>2, <1>3, <1>4, <2>3, <2>4, <2>5
<1>. QED
  BY <1>2, <1>5, <1>6, <1>7, <1>8 DEF D!Write

LEMMA SessionInit == D!Init => D!SessionsInv
<1>. SUFFICES ASSUME D!Init PROVE D!SessionsInv
  OBVIOUS
<1>1. dreq \in [Slots -> D!Request]
  BY SessionRequests DEF D!Init
<1>2. D!TypeOK /\ D!ClosedHasTime
  <2>1. session = <<>> /\ session \in Seq(D!Session) /\ DOMAIN session = {}
    BY DEF D!Init
  <2>2. now \in Nat /\ archived \in BOOLEAN /\ dissued \in Nat
    BY DEF D!Init
  <2>. QED
    BY <1>1, <2>1, <2>2 DEF D!TypeOK, D!ClosedHasTime, D!Closed
<1>3. D!RequestKnows(D!Free)
  BY DEF D!Free, D!RequestKnows
<1>4. D!RequestsKnow
  BY <1>3 DEF D!Init, D!RequestsKnow
<1>. QED
  BY <1>2, <1>4 DEF D!SessionsInv

LEMMA SessionNext ==
  ASSUME D!SessionsInv, [D!Next]_<<D!tables, now, dreq, dissued>>
  PROVE  /\ D!SessionsInv'
         /\ \A s \in Slots : dreq'[s] # dreq[s] =>
              \A i \in dreq[s].ended : session[i].status = "closed" => session'[i] = session[i]
<1>1. ASSUME NEW s \in Slots, D!Write(s)
      PROVE  /\ D!SessionsInv'
             /\ \A t \in Slots : dreq'[t] # dreq[t] =>
                  \A i \in dreq[t].ended : session[i].status = "closed" => session'[i] = session[i]
  <2>1. /\ D!SessionsInv' /\ dreq' = [dreq EXCEPT ![s] = D!Free]
        /\ \A i \in dreq[s].ended : session'[i] = session[i]
    BY <1>1, SessionWrites
  <2>2. \A t \in Slots : dreq'[t] # dreq[t] => t = s
    BY <2>1, SessionFacts
  <2>. QED
    BY <2>1, <2>2
<1>2. ASSUME NEW s \in Slots, D!Begin(s)
      PROVE  D!SessionsInv' /\ session' = session
  BY <1>2, SessionBegins
<1>3. CASE D!Tick \/ D!Archive \/ UNCHANGED <<D!tables, now, dreq, dissued>>
  <2>1. /\ session' = session /\ dreq' = dreq /\ dissued' = dissued
        /\ now' \in Nat /\ now <= now' /\ archived' \in BOOLEAN
    <3>1. CASE D!Tick
      BY <3>1, SessionFacts DEF D!Tick, D!tables
    <3>2. CASE D!Archive
      BY <3>2, SessionFacts DEF D!Archive
    <3>3. CASE UNCHANGED <<D!tables, now, dreq, dissued>>
      BY <3>3, SessionFacts DEF D!tables
    <3>. QED
      BY <1>3, <3>1, <3>2, <3>3
  <2>2. D!SessionsInv'
    BY <2>1, SessionFacts, SessionStep
  <2>. QED
    BY <2>1, <2>2
<1>. QED
  BY <1>1, <1>2, <1>3 DEF D!Next

\* SessionsInv holds: a session that is shown as closed has the time it was
\* closed at, whatever heartbeats, closes and sweeps write over each other.
THEOREM SessionsHold == D!Spec => []D!SessionsInv
<1>1. D!SessionsInv /\ [D!Next]_<<D!tables, now, dreq, dissued>> => D!SessionsInv'
  BY SessionNext
<1>. QED
  BY <1>1, SessionInit, PTL DEF D!Spec

\* ClosedStaysClosed holds: no request touches a session that was closed when
\* it loaded what it decided by.
THEOREM ClosedStays == D!Spec => D!ClosedStaysClosed
<1>. DEFINE Untouched ==
       \A s \in Slots : dreq'[s] # dreq[s] =>
         \A i \in dreq[s].ended : session[i].status = "closed" => session'[i] = session[i]
<1>1. D!SessionsInv /\ [D!Next]_<<D!tables, now, dreq, dissued>> => [Untouched]_session
  BY SessionNext
<1>. HIDE DEF Untouched
<1>2. D!Spec => [][Untouched]_session
  BY <1>1, SessionsHold, PTL DEF D!Spec
<1>. QED
  BY <1>2 DEF D!ClosedStaysClosed, Untouched

-----------------------------------------------------------------------------
(* Logins: requests *)

LEMMA LoginRequests ==
  /\ L!Free \in L!Request
  /\ L!Free.op = "none" /\ L!Free.user = None /\ L!Free.item = 0 /\ L!Free.dead = {}
  /\ \A op \in L!Ops, e \in Users : [L!Free EXCEPT !.op = op, !.user = e] \in L!Request
  /\ \A op \in L!Ops, i \in Nat : [L!Free EXCEPT !.op = op, !.item = i] \in L!Request
  /\ \A op \in L!Ops, e \in Users, i \in Nat :
       [L!Free EXCEPT !.op = op, !.user = e, !.item = i] \in L!Request
  /\ \A r \in L!Request, dead \in SUBSET Nat : [r EXCEPT !.dead = dead] \in L!Request
<1>1. "none" \in L!Ops
  BY DEF L!Ops
<1>2. L!Free \in L!Request
  BY <1>1 DEF L!Free, L!Request
<1>3. L!Free.op = "none" /\ L!Free.user = None /\ L!Free.item = 0 /\ L!Free.dead = {}
  BY DEF L!Free
<1>. QED
  BY <1>2, <1>3 DEF L!Request

LEMMA LoginOps ==
  "register" \in L!Ops /\ "login" \in L!Ops /\ "refresh" \in L!Ops /\ "logout" \in L!Ops
BY DEF L!Ops

LEMMA LoginFacts ==
  ASSUME L!LoginsInv
  PROVE  /\ registered \in SUBSET Users
         /\ token \in Seq(L!Token) /\ Len(token) \in Nat /\ DOMAIN token = 1 .. Len(token)
         /\ lreq \in [Slots -> L!Request] /\ lissued \in Nat
         /\ \A t \in DOMAIN token :
              /\ token[t] \in L!Token /\ token[t].user \in Users /\ token[t].parent \in Nat
              /\ token[t].user \in registered /\ token[t].parent < t
              /\ token[t].parent # 0 =>
                   /\ token[t].parent \in DOMAIN token
                   /\ token[token[t].parent].revoked
                   /\ token[token[t].parent].user = token[t].user
         /\ \A s \in Slots : lreq[s] \in L!Request /\ L!RequestKnows(lreq[s])
<1>1. /\ registered \in SUBSET Users
      /\ token \in Seq(L!Token) /\ lreq \in [Slots -> L!Request] /\ lissued \in Nat
      /\ \A t \in DOMAIN token : token[t].user \in registered /\ token[t].parent < t
  BY DEF L!LoginsInv, L!TypeOK
<1>2. Len(token) \in Nat /\ DOMAIN token = 1 .. Len(token)
  BY <1>1
<1>3. ASSUME NEW t \in DOMAIN token
      PROVE  /\ token[t] \in L!Token /\ token[t].user \in Users /\ token[t].parent \in Nat
             /\ token[t].parent # 0 =>
                  /\ token[t].parent \in DOMAIN token
                  /\ token[token[t].parent].revoked
                  /\ token[token[t].parent].user = token[t].user
  <2>1. token[t] \in L!Token
    BY <1>1
  <2>2. token[t].user \in Users /\ token[t].parent \in Nat
    BY <2>1 DEF L!Token
  <2>3. token[t].parent # 0 => token[t].parent \in DOMAIN token
    BY <1>1, <1>2, <2>2
  <2>4. token[t].parent # 0 => /\ token[token[t].parent].revoked
                               /\ token[token[t].parent].user = token[t].user
    BY DEF L!LoginsInv, L!SuccessorsReplace
  <2>. QED
    BY <2>1, <2>2, <2>3, <2>4
<1>4. \A s \in Slots : L!RequestKnows(lreq[s])
  BY DEF L!LoginsInv, L!RequestsKnow
<1>. QED
  BY <1>1, <1>2, <1>3, <1>4

\* Users and tokens only come, and a token stays its user's, so that what a
\* request knows stays true.
LEMMA LoginsKnown ==
  ASSUME L!LoginsInv, registered \subseteq registered', DOMAIN token \subseteq DOMAIN token',
         \A t \in DOMAIN token : token'[t].user = token[t].user,
         \A q \in {lreq'[s] : s \in Slots} : q \in {lreq[s] : s \in Slots} \/ L!RequestKnows(q)
  PROVE  L!RequestsKnow'
<1>1. ASSUME NEW q, L!RequestKnows(q) PROVE L!RequestKnows(q)'
  BY <1>1 DEF L!RequestKnows
<1>2. ASSUME NEW q \in {lreq'[s] : s \in Slots} PROVE L!RequestKnows(q)'
  <2>1. L!RequestKnows(q)
    BY <1>2 DEF L!LoginsInv, L!RequestsKnow
  <2>. QED
    BY <1>1, <2>1
<1>. QED
  BY <1>2 DEF L!RequestsKnow

LEMMA FreeLogin == ASSUME L!LoginsInv PROVE L!RequestKnows(L!Free)
<1>1. L!Free.op = "none" /\ L!Free.dead = {}
  BY LoginRequests
<1>. QED
  BY <1>1 DEF L!RequestKnows

\* A request that starts knows what it has loaded.
LEMMA LoginStart ==
  ASSUME L!LoginsInv, NEW s \in Slots, NEW r \in L!Request, L!Start(s, r),
         L!RequestKnows([r EXCEPT !.dead = L!Revoked])
  PROVE  L!LoginsInv' /\ token' = token
<1>1. PICK q : q = [r EXCEPT !.dead = L!Revoked]
  OBVIOUS
<1>2. /\ lreq' = [lreq EXCEPT ![s] = q] /\ lissued' = lissued + 1
      /\ UNCHANGED <<registered, token>>
  BY <1>1 DEF L!Start
<1>3. q \in L!Request
  <2>1. L!Revoked \in SUBSET Nat
    BY LoginFacts DEF L!Revoked
  <2>. QED
    BY <1>1, <2>1, LoginRequests
<1>4. lreq' \in [Slots -> L!Request] /\ \A t \in Slots : lreq'[t] = IF t = s THEN q ELSE lreq[t]
  BY <1>2, <1>3, LoginFacts
<1>5. L!RequestsKnow'
  <2>1. \A p \in {lreq'[t] : t \in Slots} : p = q \/ p \in {lreq[t] : t \in Slots}
    BY <1>4
  <2>. QED
    BY <1>1, <1>2, <2>1, LoginsKnown
<1>6. L!TypeOK'
  BY <1>2, <1>4, LoginFacts DEF L!TypeOK
<1>7. L!SuccessorsReplace'
  BY <1>2 DEF L!LoginsInv, L!SuccessorsReplace
<1>. QED
  BY <1>2, <1>5, <1>6, <1>7 DEF L!LoginsInv

\* A step that changes tokens only as it may: a token stays its user's and
\* stays revoked, and a new one replaces one of its user's that is revoked.
LEMMA LoginStep ==
  ASSUME L!LoginsInv, registered \subseteq registered', registered' \in SUBSET Users,
         token' \in Seq(L!Token), DOMAIN token \subseteq DOMAIN token',
         \A t \in DOMAIN token :
           /\ token'[t].user = token[t].user /\ token'[t].parent = token[t].parent
           /\ token[t].revoked => token'[t].revoked,
         \A t \in DOMAIN token' \ DOMAIN token :
           /\ token'[t].user \in registered' /\ token'[t].parent < t
           /\ token'[t].parent # 0 =>
                /\ token'[token'[t].parent].revoked
                /\ token'[token'[t].parent].user = token'[t].user,
         lissued' = lissued,
         lreq' = lreq \/ \E s \in Slots : lreq' = [lreq EXCEPT ![s] = L!Free]
  PROVE  L!LoginsInv'
<1>1. lreq' \in [Slots -> L!Request]
  BY LoginFacts, LoginRequests
<1>2. \A q \in {lreq'[t] : t \in Slots} : q = L!Free \/ q \in {lreq[t] : t \in Slots}
  BY LoginFacts
<1>3. L!RequestsKnow'
  BY <1>2, FreeLogin, LoginsKnown
<1>4. ASSUME NEW t \in DOMAIN token'
      PROVE  token'[t].user \in registered' /\ token'[t].parent < t
  BY LoginFacts
<1>5. L!TypeOK'
  BY <1>1, <1>4, LoginFacts DEF L!TypeOK
<1>6. ASSUME NEW t \in DOMAIN token', token'[t].parent # 0
      PROVE  /\ token'[token'[t].parent].revoked
             /\ token'[token'[t].parent].user = token'[t].user
  <2>1. CASE t \in DOMAIN token
    <3>1. PICK p : p = token[t].parent
      OBVIOUS
    <3>2. p \in DOMAIN token /\ token[p].revoked /\ token[p].user = token[t].user
      BY <1>6, <2>1, <3>1, LoginFacts
    <3>3. token'[t].parent = p /\ token'[p].revoked /\ token'[p].user = token'[t].user
      BY <2>1, <3>1, <3>2
    <3>. QED
      BY <3>3
  <2>2. CASE t \notin DOMAIN token
    BY <1>6, <2>2
  <2>. QED
    BY <2>1, <2>2
<1>7. L!SuccessorsReplace'
  BY <1>6 DEF L!SuccessorsReplace
<1>. QED
  BY <1>3, <1>5, <1>7 DEF L!LoginsInv

\* A row of a token is written: the token is its user's still, and revoked if
\* it was.
LEMMA TokenWritten ==
  ASSUME L!LoginsInv, NEW t \in DOMAIN token, NEW row \in L!Token,
         row.user = token[t].user, row.parent = token[t].parent, token[t].revoked => row.revoked
  PROVE  /\ [token EXCEPT ![t] = row] \in Seq(L!Token)
         /\ DOMAIN [token EXCEPT ![t] = row] = DOMAIN token
         /\ \A u \in DOMAIN token :
              /\ [token EXCEPT ![t] = row][u].user = token[u].user
              /\ [token EXCEPT ![t] = row][u].parent = token[u].parent
              /\ token[u].revoked => [token EXCEPT ![t] = row][u].revoked
         /\ [token EXCEPT ![t] = row][t] = row
<1>1. token \in Seq(L!Token) /\ t \in 1 .. Len(token) /\ DOMAIN token = 1 .. Len(token)
  BY LoginFacts
<1>2. PICK tokens : tokens = [token EXCEPT ![t] = row]
  OBVIOUS
<1>3. /\ tokens \in Seq(L!Token) /\ DOMAIN tokens = DOMAIN token
      /\ \A u \in DOMAIN token : tokens[u] = IF u = t THEN row ELSE token[u]
  BY <1>1, <1>2
<1>4. \A u \in DOMAIN token :
        /\ tokens[u].user = token[u].user /\ tokens[u].parent = token[u].parent
        /\ token[u].revoked => tokens[u].revoked
  BY <1>3
<1>. QED
  BY <1>2, <1>3, <1>4

\* The row of a token that is revoked.
LEMMA RowRevoked ==
  ASSUME L!LoginsInv, NEW t \in DOMAIN token
  PROVE  \E row \in L!Token :
           /\ [token EXCEPT ![t].revoked = TRUE] = [token EXCEPT ![t] = row]
           /\ row.user = token[t].user /\ row.parent = token[t].parent /\ row.revoked
<1>1. PICK old \in L!Token : old = token[t]
  BY LoginFacts
<1>2. PICK row : row = [old EXCEPT !.revoked = TRUE]
  OBVIOUS
<1>3. row \in L!Token /\ row.user = old.user /\ row.parent = old.parent /\ row.revoked
  BY <1>2 DEF L!Token
<1>4. [token EXCEPT ![t].revoked = TRUE] = [token EXCEPT ![t] = row]
  BY <1>1, <1>2
<1>. QED
  BY <1>1, <1>3, <1>4

\* longer is tokens with one issued to e, which renews p (or none).
Lengthens(longer, tokens, e, p) == longer = L!Issue(tokens, e, p)

\* A token is issued at the end of the tokens.
LEMMA TokenIssued ==
  ASSUME NEW tokens \in Seq(L!Token), NEW e \in Users, NEW p \in Nat, NEW longer,
         Lengthens(longer, tokens, e, p)
  PROVE  /\ longer \in Seq(L!Token) /\ DOMAIN tokens \subseteq DOMAIN longer
         /\ \A t \in DOMAIN tokens : longer[t] = tokens[t]
         /\ \A t \in DOMAIN longer \ DOMAIN tokens :
              t = Len(tokens) + 1 /\ longer[t].user = e /\ longer[t].parent = p
<1>1. PICK row : row = [user |-> e, parent |-> p, revoked |-> FALSE, expired |-> FALSE]
  OBVIOUS
<1>2. row \in L!Token /\ row.user = e /\ row.parent = p
  BY <1>1 DEF L!Token
<1>3. longer = Append(tokens, row)
  BY <1>1 DEF Lengthens, L!Issue
<1>4. /\ longer \in Seq(L!Token) /\ DOMAIN tokens \subseteq DOMAIN longer
      /\ \A t \in DOMAIN tokens : longer[t] = tokens[t]
      /\ \A t \in DOMAIN longer \ DOMAIN tokens : t = Len(tokens) + 1
      /\ longer[Len(tokens) + 1] = row
  BY <1>2, <1>3, AppendProperties, LenProperties
<1>. QED
  BY <1>2, <1>4

-----------------------------------------------------------------------------
(* Logins: steps *)

LEMMA LoginBegins ==
  ASSUME L!LoginsInv, NEW s \in Slots, L!Begin(s)
  PROVE  L!LoginsInv' /\ token' = token
<1>1. L!Revoked \subseteq DOMAIN token
  BY DEF L!Revoked
<1>2. ASSUME NEW e \in Users, L!Register(s, e) PROVE L!LoginsInv' /\ token' = token
  <2>1. PICK r \in L!Request : r = [L!Free EXCEPT !.op = "register", !.user = e]
    BY LoginRequests, LoginOps
  <2>2. PICK q : q = [r EXCEPT !.dead = L!Revoked]
    OBVIOUS
  <2>3. q.op = "register" /\ q.user = e /\ q.dead = L!Revoked
    BY <2>1, <2>2 DEF L!Free
  <2>4. L!RequestKnows(q)
    BY <1>1, <2>3 DEF L!RequestKnows
  <2>. QED
    BY <1>2, <2>1, <2>2, <2>4, LoginStart DEF L!Register
<1>3. ASSUME NEW e \in Users, L!Login(s, e) PROVE L!LoginsInv' /\ token' = token
  <2>1. PICK r \in L!Request : r = [L!Free EXCEPT !.op = "login", !.user = e]
    BY LoginRequests, LoginOps
  <2>2. PICK q : q = [r EXCEPT !.dead = L!Revoked]
    OBVIOUS
  <2>3. q.op = "login" /\ q.user = e /\ q.dead = L!Revoked
    BY <2>1, <2>2 DEF L!Free
  <2>4. e \in registered /\ L!Start(s, r)
    BY <1>3, <2>1 DEF L!Login
  <2>5. L!RequestKnows(q)
    BY <1>1, <2>3, <2>4 DEF L!RequestKnows
  <2>. QED
    BY <2>2, <2>4, <2>5, LoginStart
<1>4. ASSUME NEW t \in DOMAIN token, L!Refresh(s, t) PROVE L!LoginsInv' /\ token' = token
  <2>1. PICK e : e = token[t].user /\ e \in Users /\ e \in registered /\ t \in Nat
    BY LoginFacts
  <2>2. PICK r \in L!Request : r = [L!Free EXCEPT !.op = "refresh", !.user = e, !.item = t]
    BY <2>1, LoginRequests, LoginOps
  <2>3. PICK q : q = [r EXCEPT !.dead = L!Revoked]
    OBVIOUS
  <2>4. q.op = "refresh" /\ q.user = e /\ q.item = t /\ q.dead = L!Revoked
    BY <2>2, <2>3 DEF L!Free
  <2>5. L!Start(s, r) /\ t \notin L!Revoked
    BY <1>4, <2>1, <2>2 DEF L!Refresh, L!Valid, L!Revoked
  <2>6. L!RequestKnows(q)
    BY <1>1, <2>1, <2>4, <2>5 DEF L!RequestKnows
  <2>. QED
    BY <2>3, <2>5, <2>6, LoginStart
<1>5. ASSUME NEW t \in DOMAIN token, L!Logout(s, t) PROVE L!LoginsInv' /\ token' = token
  <2>1. PICK r \in L!Request : r = [L!Free EXCEPT !.op = "logout", !.item = t]
    <3>1. t \in Nat
      BY LoginFacts
    <3>. QED
      BY <3>1, LoginRequests, LoginOps
  <2>2. PICK q : q = [r EXCEPT !.dead = L!Revoked]
    OBVIOUS
  <2>3. q.op = "logout" /\ q.item = t /\ q.dead = L!Revoked
    BY <2>1, <2>2 DEF L!Free
  <2>4. L!Start(s, r)
    BY <1>5, <2>1 DEF L!Logout
  <2>5. L!RequestKnows(q)
    BY <1>1, <2>3 DEF L!RequestKnows
  <2>. QED
    BY <2>2, <2>4, <2>5, LoginStart
<1>. QED
  BY <1>2, <1>3, <1>4, <1>5 DEF L!Begin

\* Writing: the slot is free again, a token that is revoked stays so, and a new
\* one replaces none that was revoked when the request had loaded what it needed.
LEMMA LoginWrites ==
  ASSUME L!LoginsInv, NEW s \in Slots, L!Write(s)
  PROVE  /\ L!LoginsInv'
         /\ lreq' = [lreq EXCEPT ![s] = L!Free]
         /\ \A t \in L!Revoked : token'[t].revoked
         /\ \A t \in DOMAIN token' \ DOMAIN token : token'[t].parent \notin lreq[s].dead
<1>1. PICK r \in L!Request : r = lreq[s] /\ L!RequestKnows(r)
  BY LoginFacts
<1>2. lreq' = [lreq EXCEPT ![s] = L!Free] /\ lissued' = lissued
  BY DEF L!Write, L!WriteRegister, L!WriteLogin, L!WriteRefresh, L!WriteLogout, L!End
<1>3. r.dead \subseteq DOMAIN token /\ 0 \notin r.dead
  <2>1. r.dead \subseteq DOMAIN token
    BY <1>1 DEF L!RequestKnows
  <2>. QED
    BY <2>1, LoginFacts
<1>4. ASSUME registered \subseteq registered', registered' \in SUBSET Users,
             token' \in Seq(L!Token), DOMAIN token \subseteq DOMAIN token',
             \A t \in DOMAIN token :
               /\ token'[t].user = token[t].user /\ token'[t].parent = token[t].parent
               /\ token[t].revoked => token'[t].revoked,
             \A t \in DOMAIN token' \ DOMAIN token :
               /\ token'[t].user \in registered' /\ token'[t].parent < t
               /\ token'[t].parent # 0 =>
                    /\ token'[token'[t].parent].revoked
                    /\ token'[token'[t].parent].user = token'[t].user,
             \A t \in DOMAIN token' \ DOMAIN token : token'[t].parent \notin r.dead
      PROVE  /\ L!LoginsInv'
             /\ \A t \in L!Revoked : token'[t].revoked
             /\ \A t \in DOMAIN token' \ DOMAIN token : token'[t].parent \notin lreq[s].dead
  <2>1. L!LoginsInv'
    BY <1>2, <1>4, LoginStep
  <2>2. \A t \in L!Revoked : token'[t].revoked
    BY <1>4 DEF L!Revoked
  <2>. QED
    BY <1>1, <1>4, <2>1, <2>2
<1>5. CASE L!WriteRegister(s)
  <2>1. registered' = registered \cup {r.user} /\ token' = token /\ r.op = "register"
    BY <1>1, <1>5 DEF L!WriteRegister, L!Doing
  <2>2. r.user \in Users
    BY <1>1, <2>1 DEF L!RequestKnows
  <2>3. registered \subseteq registered' /\ registered' \in SUBSET Users
    BY <2>1, <2>2, LoginFacts
  <2>. QED
    BY <1>2, <1>4, <2>1, <2>3, LoginFacts
<1>6. CASE L!WriteLogin(s)
  <2>1. registered' = registered /\ token' = L!Issue(token, r.user, 0) /\ r.op = "login"
    BY <1>1, <1>6 DEF L!WriteLogin, L!Doing
  <2>2. r.user \in registered /\ r.user \in Users
    BY <1>1, <2>1, LoginFacts DEF L!RequestKnows
  <2>3. /\ token' \in Seq(L!Token) /\ DOMAIN token \subseteq DOMAIN token'
        /\ \A t \in DOMAIN token : token'[t] = token[t]
        /\ \A t \in DOMAIN token' \ DOMAIN token :
             t = Len(token) + 1 /\ token'[t].user = r.user /\ token'[t].parent = 0
    <3>1. token \in Seq(L!Token) /\ 0 \in Nat
      BY LoginFacts
    <3>2. PICK user \in Users : user = r.user
      BY <2>2
    <3>3. Lengthens(token', token, user, 0)
      BY <2>1, <3>2 DEF Lengthens
    <3>4. /\ token' \in Seq(L!Token) /\ DOMAIN token \subseteq DOMAIN token'
          /\ \A t \in DOMAIN token : token'[t] = token[t]
          /\ \A t \in DOMAIN token' \ DOMAIN token :
               t = Len(token) + 1 /\ token'[t].user = user /\ token'[t].parent = 0
      BY <3>1, <3>3, TokenIssued
    <3>. QED
      BY <3>2, <3>4
  <2>4. \A t \in DOMAIN token' \ DOMAIN token :
          /\ token'[t].user \in registered' /\ token'[t].parent < t /\ token'[t].parent = 0
          /\ token'[t].parent \notin r.dead
    BY <1>3, <2>1, <2>2, <2>3, LoginFacts
  <2>. QED
    BY <1>2, <1>4, <2>1, <2>3, <2>4, LoginFacts
<1>7. CASE L!WriteRefresh(s)
  <2>1. PICK i : i = r.item
    OBVIOUS
  <2>2. /\ registered' = registered
        /\ token' = L!Issue([token EXCEPT ![i].revoked = TRUE], r.user, i) /\ r.op = "refresh"
    BY <1>1, <1>7, <2>1 DEF L!WriteRefresh, L!Doing
  <2>3. /\ r.user \in registered /\ i \in DOMAIN token /\ i \notin r.dead
        /\ token[i].user = r.user
    BY <1>1, <2>1, <2>2 DEF L!RequestKnows
  <2>4. PICK tokens : /\ tokens = [token EXCEPT ![i].revoked = TRUE]
                      /\ token' = L!Issue(tokens, r.user, i)
    BY <2>2
  <2>5. /\ tokens \in Seq(L!Token) /\ DOMAIN tokens = DOMAIN token
        /\ \A u \in DOMAIN token :
             /\ tokens[u].user = token[u].user /\ tokens[u].parent = token[u].parent
             /\ token[u].revoked => tokens[u].revoked
        /\ tokens[i].revoked
    <3>1. PICK row \in L!Token :
            /\ tokens = [token EXCEPT ![i] = row]
            /\ row.user = token[i].user /\ row.parent = token[i].parent /\ row.revoked
      BY <2>3, <2>4, RowRevoked
    <3>. QED
      BY <2>3, <3>1, TokenWritten
  <2>6. i \in Nat /\ i < Len(token) + 1 /\ r.user \in Users
    BY <2>3, LoginFacts
  <2>7. /\ token' \in Seq(L!Token) /\ DOMAIN tokens \subseteq DOMAIN token'
        /\ \A t \in DOMAIN tokens : token'[t] = tokens[t]
        /\ \A t \in DOMAIN token' \ DOMAIN tokens :
             t = Len(tokens) + 1 /\ token'[t].user = r.user /\ token'[t].parent = i
    <3>1. tokens \in Seq(L!Token) /\ i \in Nat /\ r.user \in Users
      BY <2>5, <2>6
    <3>2. r.user \in Users
      BY <3>1
    <3>3. Lengthens(token', tokens, r.user, i)
      BY <2>4 DEF Lengthens
    <3>. QED
      BY <3>1, <3>2, <3>3, TokenIssued
  <2>8. \A t \in DOMAIN token :
          /\ token'[t].user = token[t].user /\ token'[t].parent = token[t].parent
          /\ token[t].revoked => token'[t].revoked
    BY <2>5, <2>7
  <2>9. token'[i].revoked /\ token'[i].user = r.user
    BY <2>3, <2>5, <2>7, <2>8
  <2>10. \A t \in DOMAIN token' \ DOMAIN token :
           /\ token'[t].user \in registered' /\ token'[t].parent < t
           /\ token'[token'[t].parent].revoked
           /\ token'[token'[t].parent].user = token'[t].user
           /\ token'[t].parent \notin r.dead
    <3>1. Len(tokens) = Len(token) /\ Len(token) \in Nat
      BY <2>5, LoginFacts
    <3>2. ASSUME NEW t \in DOMAIN token' \ DOMAIN token
          PROVE  t = Len(token) + 1 /\ token'[t].user = r.user /\ token'[t].parent = i
      BY <2>5, <2>7, <3>1
    <3>. QED
      BY <2>2, <2>3, <2>6, <2>9, <3>1, <3>2
  <2>. QED
    BY <1>2, <1>4, <2>2, <2>5, <2>7, <2>8, <2>10, LoginFacts
<1>8. CASE L!WriteLogout(s)
  <2>1. PICK i : i = r.item
    OBVIOUS
  <2>2. /\ registered' = registered /\ token' = [token EXCEPT ![i].revoked = TRUE]
        /\ r.op = "logout"
    BY <1>1, <1>8, <2>1 DEF L!WriteLogout, L!Doing
  <2>3. i \in DOMAIN token
    BY <1>1, <2>1, <2>2 DEF L!RequestKnows
  <2>4. /\ token' \in Seq(L!Token) /\ DOMAIN token' = DOMAIN token
        /\ \A u \in DOMAIN token :
             /\ token'[u].user = token[u].user /\ token'[u].parent = token[u].parent
             /\ token[u].revoked => token'[u].revoked
    <3>1. PICK row \in L!Token :
            /\ token' = [token EXCEPT ![i] = row]
            /\ row.user = token[i].user /\ row.parent = token[i].parent /\ row.revoked
      BY <2>2, <2>3, RowRevoked
    <3>. QED
      BY <2>3, <3>1, TokenWritten
  <2>. QED
    BY <1>2, <1>4, <2>2, <2>4, LoginFacts
<1>. QED
  BY <1>2, <1>5, <1>6, <1>7, <1>8 DEF L!Write

LEMMA TokenExpires ==
  ASSUME L!LoginsInv, NEW t \in DOMAIN token, L!Expire(t)
  PROVE  /\ L!LoginsInv' /\ lreq' = lreq /\ DOMAIN token' = DOMAIN token
         /\ \A u \in L!Revoked : token'[u].revoked
<1>1. token' = [token EXCEPT ![t].expired = TRUE] /\ UNCHANGED <<registered, lreq, lissued>>
  BY DEF L!Expire
<1>2. PICK old \in L!Token : old = token[t]
  BY LoginFacts
<1>3. PICK row : row = [old EXCEPT !.expired = TRUE]
  OBVIOUS
<1>4. row \in L!Token /\ row.user = old.user /\ row.parent = old.parent /\ row.revoked = old.revoked
  BY <1>3 DEF L!Token
<1>5. token' = [token EXCEPT ![t] = row]
  BY <1>1, <1>2, <1>3
<1>6. /\ token' \in Seq(L!Token) /\ DOMAIN token' = DOMAIN token
      /\ \A u \in DOMAIN token :
           /\ token'[u].user = token[u].user /\ token'[u].parent = token[u].parent
           /\ token[u].revoked => token'[u].revoked
  BY <1>2, <1>4, <1>5, TokenWritten
<1>7. L!LoginsInv'
  BY <1>1, <1>6, LoginFacts, LoginStep
<1>. QED
  BY <1>1, <1>6, <1>7 DEF L!Revoked

LEMMA LoginInit == L!Init => L!LoginsInv
<1>. SUFFICES ASSUME L!Init PROVE L!LoginsInv
  OBVIOUS
<1>1. lreq \in [Slots -> L!Request] /\ \A s \in Slots : lreq[s] = L!Free
  BY LoginRequests DEF L!Init
<1>2. token = <<>> /\ token \in Seq(L!Token) /\ DOMAIN token = {}
  BY DEF L!Init
<1>3. registered = {} /\ lissued = 0
  BY DEF L!Init
<1>4. L!TypeOK /\ L!SuccessorsReplace
  BY <1>1, <1>2, <1>3 DEF L!TypeOK, L!SuccessorsReplace
<1>5. L!RequestKnows(L!Free)
  BY LoginRequests DEF L!RequestKnows
<1>6. L!RequestsKnow
  BY <1>1, <1>5 DEF L!RequestsKnow
<1>. QED
  BY <1>4, <1>6 DEF L!LoginsInv

LEMMA LoginNext ==
  ASSUME L!LoginsInv, [L!Next]_<<registered, token, lreq, lissued>>
  PROVE  /\ L!LoginsInv'
         /\ \/ UNCHANGED token
            \/ /\ \A t \in L!Revoked : token'[t].revoked
               /\ \A s \in Slots : lreq'[s] # lreq[s] =>
                    \A t \in DOMAIN token' \ DOMAIN token : token'[t].parent \notin lreq[s].dead
<1>1. ASSUME NEW s \in Slots, L!Write(s)
      PROVE  /\ L!LoginsInv'
             /\ \A t \in L!Revoked : token'[t].revoked
             /\ \A u \in Slots : lreq'[u] # lreq[u] =>
                  \A t \in DOMAIN token' \ DOMAIN token : token'[t].parent \notin lreq[u].dead
  <2>1. /\ L!LoginsInv' /\ lreq' = [lreq EXCEPT ![s] = L!Free]
        /\ \A t \in L!Revoked : token'[t].revoked
        /\ \A t \in DOMAIN token' \ DOMAIN token : token'[t].parent \notin lreq[s].dead
    BY <1>1, LoginWrites
  <2>2. \A u \in Slots : lreq'[u] # lreq[u] => u = s
    BY <2>1, LoginFacts
  <2>. QED
    BY <2>1, <2>2
<1>2. ASSUME NEW s \in Slots, L!Begin(s)
      PROVE  L!LoginsInv' /\ token' = token
  BY <1>2, LoginBegins
<1>3. ASSUME NEW t \in DOMAIN token, L!Expire(t)
      PROVE  /\ L!LoginsInv' /\ lreq' = lreq
             /\ \A u \in L!Revoked : token'[u].revoked
  BY <1>3, TokenExpires
<1>4. CASE UNCHANGED <<registered, token, lreq, lissued>>
  <2>1. L!LoginsInv'
    BY <1>4, LoginFacts, LoginStep
  <2>. QED
    BY <1>4, <2>1
<1>. QED
  BY <1>1, <1>2, <1>3, <1>4 DEF L!Next

\* LoginsInv holds: a refresh token that was replaced is revoked and its
\* successor is the same user's, whatever refreshes and logouts interleave.
THEOREM LoginsHold == L!Spec => []L!LoginsInv
<1>1. L!LoginsInv /\ [L!Next]_<<registered, token, lreq, lissued>> => L!LoginsInv'
  BY LoginNext
<1>. QED
  BY <1>1, LoginInit, PTL DEF L!Spec

\* RevokedStaysRevoked holds: no request issues a successor to a token that was
\* revoked when it began, and no token comes back to life.
THEOREM RevokedStays == L!Spec => L!RevokedStaysRevoked
<1>. DEFINE Lasting ==
       /\ \A t \in L!Revoked : token'[t].revoked
       /\ \A s \in Slots : lreq'[s] # lreq[s] =>
            \A t \in DOMAIN token' \ DOMAIN token : token'[t].parent \notin lreq[s].dead
<1>1. L!LoginsInv /\ [L!Next]_<<registered, token, lreq, lissued>> => [Lasting]_token
  BY LoginNext
<1>. HIDE DEF Lasting
<1>2. L!Spec => [][Lasting]_token
  BY <1>1, LoginsHold, PTL DEF L!Spec
<1>. QED
  BY <1>2 DEF L!RevokedStaysRevoked, Lasting

-----------------------------------------------------------------------------
(* Side by side *)

\* The workspace of MCAccounts is the one of Workspaces_proofs, step by step.
LEMMA SameSteps ==
  [W!Next]_workspaces <=> [WP!Next]_<<WP!tables, wreq, wissued>>
<1>1. ASSUME NEW s, NEW u PROVE W!CreateWorkspace(s, u) <=> WP!CreateWorkspace(s, u)
  BY DEF W!CreateWorkspace, WP!CreateWorkspace, W!Once, WP!Once, W!Start, WP!Start,
         W!Doing, WP!Doing, W!Free, WP!Free, W!Default, WP!Default
<1>2. ASSUME NEW s, NEW u PROVE W!DeleteWorkspace(s, u) <=> WP!DeleteWorkspace(s, u)
  BY DEF W!DeleteWorkspace, WP!DeleteWorkspace, W!Start, WP!Start, W!Doing, WP!Doing,
         W!Free, WP!Free, W!Projects, WP!Projects, W!tables, WP!tables, W!people, WP!people
<1>3. ASSUME NEW s, NEW u, NEW email, NEW as
      PROVE  W!Invite(s, u, email, as) <=> WP!Invite(s, u, email, as)
  BY DEF W!Invite, WP!Invite, W!Manages, WP!Manages, W!Member, WP!Member, W!Room, WP!Room,
         W!Cardinality, WP!Cardinality,
         W!Pending, WP!Pending, W!Start, WP!Start, W!Doing, WP!Doing, W!Free, WP!Free,
         W!tables, WP!tables, W!people, WP!people
<1>4. ASSUME NEW s, NEW i PROVE W!Accept(s, i) <=> WP!Accept(s, i)
  BY DEF W!Accept, WP!Accept, W!Pending, WP!Pending, W!Member, WP!Member, W!Start, WP!Start,
         W!Doing, WP!Doing, W!Free, WP!Free, W!tables, WP!tables, W!people, WP!people
<1>5. ASSUME NEW s, NEW standard
      PROVE  W!CreateProject(s, standard) <=> WP!CreateProject(s, standard)
  BY DEF W!CreateProject, WP!CreateProject, W!Room, WP!Room,
         W!Cardinality, WP!Cardinality, W!Once, WP!Once,
         W!Start, WP!Start, W!Doing, WP!Doing, W!Free, WP!Free, W!Default, WP!Default,
         W!people, WP!people
<1>6. ASSUME NEW s, NEW p PROVE W!ChangeProject(s, p) <=> WP!ChangeProject(s, p)
  BY DEF W!ChangeProject, WP!ChangeProject, W!Projects, WP!Projects, W!Once, WP!Once,
         W!Start, WP!Start, W!Doing, WP!Doing, W!Free, WP!Free, W!people, WP!people
<1>7. ASSUME NEW s, NEW p PROVE W!DeleteProject(s, p) <=> WP!DeleteProject(s, p)
  BY DEF W!DeleteProject, WP!DeleteProject, W!Projects, WP!Projects, W!In, WP!In,
         W!Start, WP!Start, W!Doing, WP!Doing, W!Free, WP!Free, W!tables, WP!tables,
         W!people, WP!people
<1>8. ASSUME NEW s, NEW p PROVE W!CreateConversation(s, p) <=> WP!CreateConversation(s, p)
  BY DEF W!CreateConversation, WP!CreateConversation, W!Room, WP!Room,
         W!Cardinality, WP!Cardinality, W!Projects, WP!Projects,
         W!Candidates, WP!Candidates, W!Standard, WP!Standard, W!Start, WP!Start,
         W!Doing, WP!Doing, W!Free, WP!Free, W!tables, WP!tables, W!people, WP!people
<1>9. ASSUME NEW s PROVE W!WriteDelete(s) <=> WP!WriteDelete(s)
  BY DEF W!WriteDelete, WP!WriteDelete, W!Doing, WP!Doing, W!Refused, WP!Refused,
         W!End, WP!End, W!Free, WP!Free, W!tables, WP!tables, W!people, WP!people
<1>10. ASSUME NEW s PROVE W!WriteInvite(s) <=> WP!WriteInvite(s)
  BY DEF W!WriteInvite, WP!WriteInvite, W!Doing, WP!Doing, W!Refused, WP!Refused,
         W!End, WP!End, W!Free, WP!Free, W!tables, WP!tables, W!people, WP!people
<1>11. ASSUME NEW s PROVE W!WriteAccept(s) <=> WP!WriteAccept(s)
  BY DEF W!WriteAccept, WP!WriteAccept, W!Doing, WP!Doing, W!Member, WP!Member,
         W!Joined, WP!Joined, W!Refused, WP!Refused, W!End, WP!End, W!Free, WP!Free,
         W!tables, WP!tables, W!people, WP!people
<1>12. ASSUME NEW s PROVE W!WriteDrop(s) <=> WP!WriteDrop(s)
  BY DEF W!WriteDrop, WP!WriteDrop, W!Doing, WP!Doing, W!Projects, WP!Projects, W!In, WP!In,
         W!Refused, WP!Refused, W!End, WP!End, W!Free, WP!Free, W!tables, WP!tables,
         W!people, WP!people
<1>13. ASSUME NEW s PROVE W!WriteConversation(s) <=> WP!WriteConversation(s)
  BY DEF W!WriteConversation, WP!WriteConversation, W!Doing, WP!Doing, W!Projects, WP!Projects,
         W!Default, WP!Default, W!Refused, WP!Refused, W!End, WP!End, W!Free, WP!Free,
         W!tables, WP!tables, W!people, WP!people
<1>14. ASSUME NEW i PROVE W!Expire(i) <=> WP!Expire(i)
  BY DEF W!Expire, WP!Expire, W!Pending, WP!Pending
<1>15. ASSUME NEW s PROVE W!Begin(s) <=> WP!Begin(s)
  BY <1>1, <1>2, <1>3, <1>4, <1>5, <1>6, <1>7, <1>8 DEF W!Begin, WP!Begin
<1>16. ASSUME NEW s PROVE W!Write(s) <=> WP!Write(s)
  BY <1>9, <1>10, <1>11, <1>12, <1>13 DEF W!Write, WP!Write
<1>17. W!Next <=> WP!Next
  BY <1>14, <1>15, <1>16 DEF W!Next, WP!Next
<1>. QED
  BY <1>17 DEF workspaces, W!tables, W!people, WP!tables, WP!people

LEMMA SameWorkspace ==
  /\ W!Init <=> WP!Init
  /\ [W!Next]_workspaces <=> [WP!Next]_<<WP!tables, wreq, wissued>>
  /\ WP!WorkspaceInv <=> W!WorkspaceInv
<1>1. W!Init <=> WP!Init
  BY DEF W!Init, WP!Init, W!Default, WP!Default, W!Free, WP!Free
<1>2. [W!Next]_workspaces <=> [WP!Next]_<<WP!tables, wreq, wissued>>
  BY SameSteps
<1>3. WP!WorkspaceInv <=> W!WorkspaceInv
  BY DEF W!tables, WP!tables, W!people, WP!people, W!Roles, WP!Roles,
         W!Invitation, WP!Invitation, W!Project, WP!Project, W!Default, WP!Default,
         W!Ops, WP!Ops, W!Request, WP!Request, W!Free, WP!Free, W!Member, WP!Member,
         W!Projects, WP!Projects, W!TypeOK, WP!TypeOK, W!Accepted, WP!Accepted,
         W!MembersAreInvited, WP!MembersAreInvited, W!MembersAreWhole, WP!MembersAreWhole,
         W!ConversationsHaveProject, WP!ConversationsHaveProject,
         W!NothingLeft, WP!NothingLeft, W!RequestKnows, WP!RequestKnows,
         W!RequestsKnow, WP!RequestsKnow, W!WorkspaceInv, WP!WorkspaceInv
<1>. QED
  BY <1>1, <1>2, <1>3

\* What each of the four does is a behaviour of its own.
LEMMA PartsHold == MCSpec => Spec /\ WP!Spec /\ D!Spec /\ L!Spec
<1>1. MCInit => Init /\ WP!Init /\ D!Init /\ L!Init
  BY SameWorkspace DEF MCInit
<1>2. ASSUME [MCNext]_<<part, vars, workspaces, sessions, logins>>
      PROVE  /\ [Next]_vars
             /\ [W!Next]_workspaces
             /\ [D!Next]_<<D!tables, now, dreq, dissued>>
             /\ [L!Next]_<<registered, token, lreq, lissued>>
  <2>1. \/ Next /\ UNCHANGED <<workspaces, sessions, logins>>
        \/ W!Next /\ UNCHANGED <<vars, sessions, logins>>
        \/ D!Next /\ UNCHANGED <<vars, workspaces, logins>>
        \/ L!Next /\ UNCHANGED <<vars, workspaces, sessions>>
        \/ UNCHANGED <<vars, workspaces, sessions, logins>>
    BY <1>2 DEF MCNext
  <2>2. sessions' = sessions => UNCHANGED <<D!tables, now, dreq, dissued>>
    BY DEF sessions, D!tables
  <2>3. logins' = logins => UNCHANGED <<registered, token, lreq, lissued>>
    BY DEF logins
  <2>. QED
    BY <2>1, <2>2, <2>3
<1>3. [MCNext]_<<part, vars, workspaces, sessions, logins>> =>
        [WP!Next]_<<WP!tables, wreq, wissued>>
  BY <1>2, SameWorkspace
<1>. QED
  BY <1>1, <1>2, <1>3, PTL DEF MCSpec, Spec, WP!Spec, D!Spec, L!Spec

\* AccountsInv holds: the types of the four components, what AI accounts show
\* as spent, a workspace's members with their invitations, budgets and projects,
\* developer sessions and the successors of refresh tokens.
THEOREM AccountsHold == MCSpec => []AccountsInv
<1>1. RoutingInv => TypeOK /\ SpentIsCovered
  BY DEF RoutingInv
<1>2. RoutingInv /\ WP!WorkspaceInv /\ D!SessionsInv /\ L!LoginsInv => AccountsInv
  BY <1>1, SameWorkspace DEF AccountsInv
<1>. QED
  BY <1>2, PartsHold, Invariant, WP!WorkspaceHolds, SessionsHold, LoginsHold, PTL

\* AccountsSteps holds: no step resumes a session that was closed, or renews a
\* token that was revoked, before the request that does it began.
THEOREM AccountsStepsHold == MCSpec => AccountsSteps
BY PartsHold, ClosedStays, RevokedStays DEF AccountsSteps
=============================================================================
