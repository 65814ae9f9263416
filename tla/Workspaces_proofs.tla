-------------------------- MODULE Workspaces_proofs --------------------------
(***************************************************************************)
(* Proofs about Workspaces, for any users, requests and bounds.            *)
(***************************************************************************)
EXTENDS Workspaces, TLAPS, SequenceTheorems

\* A row appended comes last, and the others stay.
LEMMA Appended ==
  ASSUME NEW S, NEW q \in Seq(S), NEW e \in S, NEW p, p = Append(q, e)
  PROVE  /\ p \in Seq(S) /\ DOMAIN q = 1 .. Len(q) /\ DOMAIN p = 1 .. Len(q) + 1
         /\ Len(q) \in Nat
         /\ \A i \in DOMAIN q : i \in DOMAIN p /\ p[i] = q[i]
         /\ \A i \in DOMAIN p : i \in DOMAIN q \/ i = Len(q) + 1
         /\ p[Len(q) + 1] = e
BY AppendProperties, LenProperties

\* Requests as they are started.
LEMMA RequestTypes ==
  /\ Free \in Request /\ Free.op = "none"
  /\ \A op \in Ops, u \in Users, n \in Nat : [Free EXCEPT !.op = op, !.user = u, !.item = n] \in Request
  /\ \A op \in Ops, u \in Users, as \in {"admin", "member"}, n \in Nat :
       [Free EXCEPT !.op = op, !.user = u, !.role = as, !.item = n] \in Request
  /\ \A op \in Ops, u \in Users, as \in {"admin", "member"} :
       [Free EXCEPT !.op = op, !.user = u, !.role = as] \in Request
  /\ \A op \in Ops, n \in Nat : [Free EXCEPT !.op = op, !.item = n] \in Request
<1>1. "none" \in Ops
  BY DEF Ops
<1>2. Free \in Request /\ Free.op = "none"
  BY <1>1 DEF Free, Request
<1>. QED
  BY <1>2 DEF Request

LEMMA OpsFacts ==
  /\ "delete" \in Ops /\ "invite" \in Ops /\ "accept" \in Ops /\ "drop" \in Ops /\ "converse" \in Ops
BY DEF Ops

LEMMA FreeKnows == RequestKnows(Free) /\ RequestKnows(Free)'
BY RequestTypes DEF RequestKnows

-----------------------------------------------------------------------------
(* What a request knows while others write *)

\* The workspace is made once and deleted once; invitations stay as they are.
Stays ==
  /\ workspace' = "absent" => workspace = "absent"
  /\ workspace' = "live" => workspace \in {"absent", "live"}
  /\ workspace = "live" /\ workspace' = "live" =>
       \A i \in DOMAIN invitation :
         /\ i \in DOMAIN invitation'
         /\ invitation'[i].email = invitation[i].email /\ invitation'[i].role = invitation[i].role

LEMMA KnowledgeKept ==
  ASSUME Stays, NEW r, RequestKnows(r)
  PROVE  RequestKnows(r)'
BY DEF Stays, RequestKnows

\* One request goes on, the others keep what they know.
LEMMA RequestsStep ==
  ASSUME WorkspaceInv, Stays, NEW s \in Slots, NEW r \in Request, RequestKnows(r)',
         req' = [req EXCEPT ![s] = r]
  PROVE  RequestsKnow' /\ req' \in [Slots -> Request]
<1>1. req \in [Slots -> Request]
  BY DEF WorkspaceInv, TypeOK
<1>2. req' \in [Slots -> Request] /\ \A t \in Slots : req'[t] = IF t = s THEN r ELSE req[t]
  BY <1>1
<1>3. ASSUME NEW q \in {req'[t] : t \in Slots}
      PROVE  RequestKnows(q)'
  <2>1. q = r \/ q \in {req[t] : t \in Slots}
    BY <1>2
  <2>2. CASE q \in {req[t] : t \in Slots}
    BY <2>2, KnowledgeKept DEF WorkspaceInv, RequestsKnow
  <2>. QED
    BY <2>1, <2>2
<1>. QED
  BY <1>2, <1>3 DEF RequestsKnow

\* A request that starts, or ends without having written anything.
LEMMA QuietStep ==
  ASSUME WorkspaceInv, UNCHANGED tables, NEW s \in Slots, NEW r \in Request, RequestKnows(r),
         req' = [req EXCEPT ![s] = r], issued' \in Nat
  PROVE  WorkspaceInv'
<1>1. Stays
  BY DEF Stays, tables
<1>2. RequestKnows(r)'
  BY <1>1, KnowledgeKept
<1>3. RequestsKnow' /\ req' \in [Slots -> Request]
  BY <1>1, <1>2, RequestsStep
<1>4. TypeOK'
  BY <1>3 DEF WorkspaceInv, TypeOK, tables
<1>5. MembersAreInvited'
  BY DEF WorkspaceInv, MembersAreInvited, Accepted, tables
<1>6. MembersAreWhole' /\ NothingLeft'
  BY DEF WorkspaceInv, MembersAreWhole, NothingLeft, Member, tables
<1>7. ConversationsHaveProject'
  BY DEF WorkspaceInv, ConversationsHaveProject, Projects, tables
<1>. QED
  BY <1>3, <1>4, <1>5, <1>6, <1>7 DEF WorkspaceInv

LEMMA StartStep ==
  ASSUME WorkspaceInv, NEW s \in Slots, NEW r \in Request, RequestKnows(r), Start(s, r),
         UNCHANGED tables
  PROVE  WorkspaceInv'
<1>1. issued' \in Nat /\ req' = [req EXCEPT ![s] = r]
  BY DEF WorkspaceInv, TypeOK, Start
<1>. QED
  BY <1>1, QuietStep

LEMMA RefusedStep ==
  ASSUME WorkspaceInv, NEW s \in Slots, Refused(s)
  PROVE  WorkspaceInv'
<1>1. issued' \in Nat /\ req' = [req EXCEPT ![s] = Free] /\ UNCHANGED tables
  BY DEF WorkspaceInv, TypeOK, Refused, End
<1>. QED
  BY <1>1, QuietStep, RequestTypes, FreeKnows

\* A request that writes and ends.
LEMMA WriteStep ==
  ASSUME WorkspaceInv, NEW s \in Slots, Once(s) \/ End(s), Stays
  PROVE  RequestsKnow' /\ req' \in [Slots -> Request] /\ issued' \in Nat
<1>1. issued' \in Nat /\ req' = [req EXCEPT ![s] = Free]
  BY DEF WorkspaceInv, TypeOK, Once, Start, End
<1>. QED
  BY <1>1, RequestsStep, RequestTypes, FreeKnows

-----------------------------------------------------------------------------
(* Members *)

LEMMA InvitedKept ==
  ASSUME MembersAreInvited, UNCHANGED <<workspace, role>>, \A u \in Users : Accepted(u)' = Accepted(u),
         \A i \in DOMAIN invitation : invitation'[i].role = invitation[i].role
  PROVE  MembersAreInvited'
<1>1. ASSUME NEW u \in Users
      PROVE  IF role'[u] \in {"none", "owner"} THEN Accepted(u)' = {}
             ELSE \E i \in Accepted(u)' : Accepted(u)' = {i} /\ invitation'[i].role = role'[u]
  <2>1. CASE role[u] \in {"none", "owner"}
    BY <2>1 DEF MembersAreInvited
  <2>2. CASE role[u] \notin {"none", "owner"}
    <3>1. PICK i \in Accepted(u) : Accepted(u) = {i} /\ invitation[i].role = role[u]
      BY <2>2 DEF MembersAreInvited
    <3>2. i \in DOMAIN invitation
      BY <3>1 DEF Accepted
    <3>. QED
      BY <2>2, <3>1, <3>2
  <2>. QED
    BY <2>1, <2>2
<1>. QED
  BY <1>1 DEF MembersAreInvited

LEMMA CreateWorkspaceStep ==
  ASSUME WorkspaceInv, NEW s \in Slots, NEW u \in Users, CreateWorkspace(s, u)
  PROVE  WorkspaceInv'
<1>1. /\ workspace = "absent" /\ workspace' = "live" /\ Once(s)
      /\ role' = [role EXCEPT ![u] = "owner"]
      /\ budget' = {u} /\ preference' = {u} /\ project' = <<Default>>
      /\ UNCHANGED <<invitation, conversation>>
  BY DEF CreateWorkspace
<1>2. Stays
  BY <1>1 DEF Stays
<1>3. RequestsKnow' /\ req' \in [Slots -> Request] /\ issued' \in Nat
  BY <1>1, <1>2, WriteStep
<1>4. role \in [Users -> Roles \cup {"none"}] /\ \A v \in Users : role[v] = "none" /\ Accepted(v) = {}
  <2>1. role \in [Users -> Roles \cup {"none"}] /\ invitation = <<>>
    BY <1>1 DEF WorkspaceInv, TypeOK, NothingLeft
  <2>2. \A v \in Users : Accepted(v) = {}
    BY <2>1 DEF Accepted
  <2>3. ASSUME NEW v \in Users PROVE role[v] = "none"
    <3>1. role[v] # "owner"
      BY <1>1 DEF WorkspaceInv, MembersAreInvited
    <3>2. role[v] \in {"none", "owner"}
      BY <2>2 DEF WorkspaceInv, MembersAreInvited
    <3>. QED
      BY <3>1, <3>2
  <2>. QED
    BY <2>1, <2>2, <2>3
<1>5. \A v \in Users : role'[v] = (IF v = u THEN "owner" ELSE "none")
  BY <1>1, <1>4
<1>6. Default \in Project /\ Default.exists
  BY DEF Default, Project
<1>7. project' \in Seq(Project)
  BY <1>1, <1>6
<1>8. TypeOK'
  <2>1. role' \in [Users -> Roles \cup {"none"}]
    BY <1>1, <1>4 DEF Roles
  <2>. QED
    BY <1>1, <1>3, <1>7, <2>1 DEF WorkspaceInv, TypeOK
<1>9. MembersAreInvited'
  <2>1. \A v \in Users : Accepted(v)' = {}
    BY <1>1, <1>4 DEF Accepted
  <2>. QED
    BY <1>1, <1>5, <2>1 DEF MembersAreInvited
<1>10. MembersAreWhole'
  BY <1>1, <1>5 DEF MembersAreWhole, Member
<1>11. ConversationsHaveProject' /\ NothingLeft'
  BY <1>1 DEF WorkspaceInv, NothingLeft, ConversationsHaveProject
<1>. QED
  BY <1>3, <1>8, <1>9, <1>10, <1>11 DEF WorkspaceInv

LEMMA WriteDeleteStep ==
  ASSUME WorkspaceInv, NEW s \in Slots, WriteDelete(s)
  PROVE  WorkspaceInv'
<1>1. CASE Refused(s)
  BY <1>1, RefusedStep
<1>2. CASE ~Refused(s)
  <2>1. /\ workspace' = "deleted" /\ role' = [u \in Users |-> "none"]
        /\ budget' = {} /\ preference' = {}
        /\ invitation' = <<>> /\ project' = <<>> /\ conversation' = <<>>
        /\ End(s)
    BY <1>2 DEF WriteDelete
  <2>2. Stays
    BY <2>1 DEF Stays
  <2>3. RequestsKnow' /\ req' \in [Slots -> Request] /\ issued' \in Nat
    BY <2>1, <2>2, WriteStep
  <2>4. TypeOK'
    BY <2>1, <2>3 DEF TypeOK
  <2>5. MembersAreInvited'
    BY <2>1 DEF MembersAreInvited, Accepted
  <2>6. MembersAreWhole' /\ NothingLeft' /\ ConversationsHaveProject'
    BY <2>1 DEF MembersAreWhole, Member, NothingLeft, ConversationsHaveProject
  <2>. QED
    BY <2>3, <2>4, <2>5, <2>6 DEF WorkspaceInv
<1>. QED
  BY <1>1, <1>2

LEMMA WriteInviteStep ==
  ASSUME WorkspaceInv, NEW s \in Slots, WriteInvite(s)
  PROVE  WorkspaceInv'
<1>1. CASE Refused(s)
  BY <1>1, RefusedStep
<1>2. CASE ~Refused(s)
  <2>1. PICK row : row = [email |-> req[s].user, role |-> req[s].role, accepted |-> FALSE, expired |-> FALSE]
    OBVIOUS
  <2>2. /\ Doing(s, "invite") /\ workspace = "live"
        /\ invitation' = Append(invitation, row) /\ End(s)
        /\ UNCHANGED <<workspace, role, budget, preference, project, conversation>>
    BY <1>2, <2>1 DEF WriteInvite
  <2>3. row \in Invitation /\ ~row.accepted
    <3>1. req[s] \in Request /\ req[s].user \in Users
      BY <2>2 DEF WorkspaceInv, TypeOK, RequestsKnow, RequestKnows, Doing
    <3>. QED
      BY <2>1, <3>1 DEF Request, Invitation
  <2>4. /\ invitation' \in Seq(Invitation)
        /\ \A i \in DOMAIN invitation : i \in DOMAIN invitation' /\ invitation'[i] = invitation[i]
        /\ \A i \in DOMAIN invitation' : i \in DOMAIN invitation \/ ~invitation'[i].accepted
    BY <2>2, <2>3, Appended DEF WorkspaceInv, TypeOK
  <2>5. Stays
    BY <2>2, <2>4 DEF Stays
  <2>6. RequestsKnow' /\ req' \in [Slots -> Request] /\ issued' \in Nat
    BY <2>2, <2>5, WriteStep
  <2>7. TypeOK'
    BY <2>2, <2>4, <2>6 DEF WorkspaceInv, TypeOK
  <2>8. MembersAreInvited'
    <3>1. \A u \in Users : Accepted(u)' = Accepted(u)
      BY <2>4 DEF Accepted
    <3>. QED
      BY <2>2, <2>4, <3>1, InvitedKept DEF WorkspaceInv
  <2>9. MembersAreWhole' /\ NothingLeft' /\ ConversationsHaveProject'
    BY <2>2 DEF WorkspaceInv, MembersAreWhole, Member, NothingLeft, ConversationsHaveProject, Projects
  <2>. QED
    BY <2>6, <2>7, <2>8, <2>9 DEF WorkspaceInv
<1>. QED
  BY <1>1, <1>2

\* An invitation that expires or is accepted is otherwise the same.
LEMMA MarkedFacts ==
  ASSUME NEW row \in Invitation
  PROVE  /\ \E new \in Invitation :
              /\ new = [row EXCEPT !.expired = TRUE]
              /\ new.email = row.email /\ new.role = row.role /\ new.accepted = row.accepted
         /\ \E new \in Invitation :
              /\ new = [row EXCEPT !.accepted = TRUE]
              /\ new.email = row.email /\ new.role = row.role /\ new.accepted
<1>1. PICK new : new = [row EXCEPT !.expired = TRUE]
  OBVIOUS
<1>2. PICK old : old = [row EXCEPT !.accepted = TRUE]
  OBVIOUS
<1>3. /\ new \in Invitation /\ new.email = row.email /\ new.role = row.role
      /\ new.accepted = row.accepted
  BY <1>1 DEF Invitation
<1>4. old \in Invitation /\ old.email = row.email /\ old.role = row.role /\ old.accepted
  BY <1>2 DEF Invitation
<1>. QED
  BY <1>1, <1>2, <1>3, <1>4

LEMMA ExpireStep ==
  ASSUME WorkspaceInv, NEW i \in DOMAIN invitation, Expire(i)
  PROVE  WorkspaceInv'
<1>1. /\ invitation' = [invitation EXCEPT ![i].expired = TRUE]
      /\ UNCHANGED <<workspace, role, budget, preference, project, conversation, req, issued>>
      /\ invitation \in Seq(Invitation)
  BY DEF WorkspaceInv, TypeOK, Expire
<1>2. /\ DOMAIN invitation' = DOMAIN invitation
      /\ invitation' \in Seq(Invitation)
      /\ \A j \in DOMAIN invitation :
           /\ invitation'[j].email = invitation[j].email /\ invitation'[j].role = invitation[j].role
           /\ invitation'[j].accepted = invitation[j].accepted
  <2>1. invitation' = [invitation EXCEPT ![i] = [invitation[i] EXCEPT !.expired = TRUE]]
    BY <1>1
  <2>2. PICK row \in Invitation :
          /\ row = [invitation[i] EXCEPT !.expired = TRUE]
          /\ row.email = invitation[i].email /\ row.role = invitation[i].role
          /\ row.accepted = invitation[i].accepted
    <3>1. invitation[i] \in Invitation
      BY <1>1
    <3>. QED
      BY <3>1, MarkedFacts
  <2>3. i \in 1 .. Len(invitation) /\ DOMAIN invitation = 1 .. Len(invitation)
    BY <1>1
  <2>4. invitation' = [invitation EXCEPT ![i] = row]
    BY <2>1, <2>2
  <2>5. /\ DOMAIN invitation' = DOMAIN invitation /\ invitation' \in Seq(Invitation)
        /\ \A j \in DOMAIN invitation : invitation'[j] = IF j = i THEN row ELSE invitation[j]
    BY <1>1, <2>2, <2>3, <2>4
  <2>. QED
    BY <2>2, <2>5
<1>3. Stays
  BY <1>1, <1>2 DEF Stays
<1>4. TypeOK'
  BY <1>1, <1>2 DEF WorkspaceInv, TypeOK
<1>5. RequestsKnow'
  <2>1. ASSUME NEW q \in {req[t] : t \in Slots} PROVE RequestKnows(q)'
    BY <1>3, <2>1, KnowledgeKept DEF WorkspaceInv, RequestsKnow
  <2>. QED
    BY <1>1, <2>1 DEF RequestsKnow
<1>6. MembersAreInvited'
  <2>1. \A u \in Users : Accepted(u)' = Accepted(u)
    BY <1>2 DEF Accepted
  <2>. QED
    BY <1>1, <1>2, <2>1, InvitedKept DEF WorkspaceInv
<1>7. MembersAreWhole' /\ NothingLeft' /\ ConversationsHaveProject'
  <2>1. workspace # "live" => FALSE
    BY DEF WorkspaceInv, NothingLeft
  <2>. QED
    BY <1>1, <2>1 DEF WorkspaceInv, MembersAreWhole, Member, NothingLeft, ConversationsHaveProject, Projects
<1>. QED
  BY <1>4, <1>5, <1>6, <1>7 DEF WorkspaceInv

LEMMA WriteAcceptStep ==
  ASSUME WorkspaceInv, NEW s \in Slots, WriteAccept(s)
  PROVE  WorkspaceInv'
<1>1. CASE Refused(s)
  BY <1>1, RefusedStep
<1>2. CASE ~Refused(s)
  <2>1. PICK u, as, i : u = req[s].user /\ as = req[s].role /\ i = req[s].item
    OBVIOUS
  <2>2. /\ Doing(s, "accept") /\ workspace = "live" /\ ~Member(u) /\ End(s)
        /\ role' = [role EXCEPT ![u] = as]
        /\ budget' = budget \cup {u} /\ preference' = preference \cup {u}
        /\ invitation' = [invitation EXCEPT ![i].accepted = TRUE]
        /\ UNCHANGED <<workspace, project, conversation>>
    BY <1>2, <2>1 DEF WriteAccept, Joined
  <2>3. /\ u \in Users /\ as \in {"admin", "member"} /\ i \in DOMAIN invitation
        /\ invitation[i].email = u /\ invitation[i].role = as
    <3>1. req[s] \in Request /\ RequestKnows(req[s])
      BY DEF WorkspaceInv, TypeOK, RequestsKnow
    <3>2. req[s].role \in {"admin", "member"}
      BY <3>1 DEF Request
    <3>. QED
      BY <2>1, <2>2, <3>1, <3>2 DEF RequestKnows, Doing
  <2>4. invitation \in Seq(Invitation) /\ role \in [Users -> Roles \cup {"none"}]
    BY DEF WorkspaceInv, TypeOK
  <2>5. /\ DOMAIN invitation' = DOMAIN invitation
        /\ invitation' \in Seq(Invitation)
        /\ \A j \in DOMAIN invitation :
             /\ invitation'[j].email = invitation[j].email /\ invitation'[j].role = invitation[j].role
             /\ j # i => invitation'[j].accepted = invitation[j].accepted
        /\ invitation'[i].accepted
    <3>1. PICK row \in Invitation :
            /\ row = [invitation[i] EXCEPT !.accepted = TRUE]
            /\ row.email = invitation[i].email /\ row.role = invitation[i].role /\ row.accepted
      <4>1. invitation[i] \in Invitation
        BY <2>3, <2>4
      <4>. QED
        BY <4>1, MarkedFacts
    <3>3. invitation' = [invitation EXCEPT ![i] = row]
      BY <2>2, <3>1
    <3>4. /\ DOMAIN invitation' = DOMAIN invitation /\ invitation' \in Seq(Invitation)
          /\ \A j \in DOMAIN invitation : invitation'[j] = IF j = i THEN row ELSE invitation[j]
      BY <2>3, <2>4, <3>3
    <3>. QED
      BY <2>3, <3>1, <3>4
  <2>6. \A v \in Users : role'[v] = IF v = u THEN as ELSE role[v]
    BY <2>2, <2>3, <2>4
  <2>7. Stays
    BY <2>2, <2>5 DEF Stays
  <2>8. RequestsKnow' /\ req' \in [Slots -> Request] /\ issued' \in Nat
    BY <2>2, <2>7, WriteStep
  <2>9. TypeOK'
    <3>1. role' \in [Users -> Roles \cup {"none"}]
      BY <2>2, <2>3, <2>4 DEF Roles
    <3>2. budget' \subseteq Users /\ preference' \subseteq Users
      BY <2>2, <2>3 DEF WorkspaceInv, TypeOK
    <3>. QED
      BY <2>2, <2>5, <2>8, <3>1, <3>2 DEF WorkspaceInv, TypeOK
  <2>10. MembersAreInvited'
    <3>1. role[u] = "none"
      BY <2>2 DEF Member
    <3>2. Accepted(u) = {}
      BY <2>3, <3>1 DEF WorkspaceInv, MembersAreInvited
    <3>3. Accepted(u)' = {i}
      BY <2>3, <2>5, <3>2 DEF Accepted
    <3>4. \A v \in Users : v # u => Accepted(v)' = Accepted(v)
      BY <2>3, <2>5 DEF Accepted
    <3>5. \A v \in Users : role'[v] = "owner" <=> role[v] = "owner"
      BY <2>3, <2>6, <3>1
    <3>6. ASSUME NEW v \in Users
          PROVE  IF role'[v] \in {"none", "owner"} THEN Accepted(v)' = {}
                 ELSE \E j \in Accepted(v)' : Accepted(v)' = {j} /\ invitation'[j].role = role'[v]
      <4>1. CASE v = u
        <5>1. role'[v] = as /\ as \notin {"none", "owner"}
          BY <2>3, <2>6, <4>1
        <5>2. Accepted(v)' = {i} /\ invitation'[i].role = as
          BY <2>3, <2>5, <3>3, <4>1
        <5>. QED
          BY <5>1, <5>2
      <4>2. CASE v # u /\ role[v] \in {"none", "owner"}
        BY <2>6, <3>4, <4>2 DEF WorkspaceInv, MembersAreInvited
      <4>3. CASE v # u /\ role[v] \notin {"none", "owner"}
        <5>1. PICK j \in Accepted(v) : Accepted(v) = {j} /\ invitation[j].role = role[v]
          BY <4>3 DEF WorkspaceInv, MembersAreInvited
        <5>2. j \in DOMAIN invitation
          BY <5>1 DEF Accepted
        <5>. QED
          BY <2>5, <2>6, <3>4, <4>3, <5>1, <5>2
      <4>. QED
        BY <4>1, <4>2, <4>3
    <3>7. workspace' = "live" <=> \E v \in Users : role'[v] = "owner"
      BY <2>2, <3>5 DEF WorkspaceInv, MembersAreInvited
    <3>8. \A v, w \in Users : role'[v] = "owner" /\ role'[w] = "owner" => v = w
      BY <3>5 DEF WorkspaceInv, MembersAreInvited
    <3>. QED
      BY <3>6, <3>7, <3>8 DEF MembersAreInvited
  <2>11. MembersAreWhole'
    <3>1. \A v \in Users : role'[v] # "none" <=> role[v] # "none" \/ v = u
      BY <2>3, <2>6
    <3>. QED
      BY <2>2, <2>3, <3>1 DEF WorkspaceInv, MembersAreWhole, Member
  <2>12. NothingLeft' /\ ConversationsHaveProject'
    BY <2>2 DEF WorkspaceInv, NothingLeft, ConversationsHaveProject, Projects
  <2>. QED
    BY <2>8, <2>9, <2>10, <2>11, <2>12 DEF WorkspaceInv
<1>. QED
  BY <1>1, <1>2

-----------------------------------------------------------------------------
(* Projects *)

\* A step that changes no more than projects and conversations of a workspace
\* that is there.
LEMMA ProjectsStep ==
  ASSUME WorkspaceInv, NEW s \in Slots, Once(s) \/ End(s), UNCHANGED people,
         workspace = "live", project' \in Seq(Project), conversation' \in Seq(Nat),
         ConversationsHaveProject'
  PROVE  WorkspaceInv'
<1>1. UNCHANGED <<workspace, role, budget, preference, invitation>>
  BY DEF people
<1>2. Stays
  BY <1>1 DEF Stays
<1>3. RequestsKnow' /\ req' \in [Slots -> Request] /\ issued' \in Nat
  BY <1>2, WriteStep
<1>4. TypeOK'
  BY <1>1, <1>3 DEF WorkspaceInv, TypeOK
<1>5. MembersAreInvited'
  BY <1>1 DEF WorkspaceInv, MembersAreInvited, Accepted
<1>6. MembersAreWhole' /\ NothingLeft'
  BY <1>1 DEF WorkspaceInv, MembersAreWhole, Member, NothingLeft
<1>. QED
  BY <1>3, <1>4, <1>5, <1>6 DEF WorkspaceInv

\* Where there is a project there is a workspace.
LEMMA ProjectFacts ==
  ASSUME WorkspaceInv
  PROVE  /\ project \in Seq(Project) /\ conversation \in Seq(Nat)
         /\ \A p \in DOMAIN project : workspace = "live" /\ project[p] \in Project
         /\ \A c \in DOMAIN conversation :
              conversation[c] \in DOMAIN project /\ project[conversation[c]].exists
<1>1. project \in Seq(Project) /\ conversation \in Seq(Nat)
  BY DEF WorkspaceInv, TypeOK
<1>2. project # <<>> => workspace = "live"
  BY DEF WorkspaceInv, NothingLeft
<1>3. \A c \in DOMAIN conversation :
        conversation[c] \in DOMAIN project /\ project[conversation[c]].exists
  BY DEF WorkspaceInv, ConversationsHaveProject, Projects
<1>. QED
  BY <1>1, <1>2, <1>3

LEMMA CreateProjectStep ==
  ASSUME WorkspaceInv, NEW s \in Slots, NEW standard \in BOOLEAN, CreateProject(s, standard)
  PROVE  WorkspaceInv'
<1>1. PICK row \in Project : row = [Default EXCEPT !.standard = standard]
  BY DEF Default, Project
<1>2. /\ workspace = "live" /\ Once(s) /\ project' = Append(project, row)
      /\ UNCHANGED <<people, conversation>>
  BY <1>1 DEF CreateProject
<1>3. /\ project' \in Seq(Project)
      /\ \A p \in DOMAIN project : p \in DOMAIN project' /\ project'[p] = project[p]
  BY <1>1, <1>2, ProjectFacts, Appended
<1>4. ConversationsHaveProject'
  BY <1>2, <1>3, ProjectFacts DEF ConversationsHaveProject, Projects
<1>. QED
  BY <1>2, <1>3, <1>4, ProjectFacts, ProjectsStep

\* The row of a project is replaced.
LEMMA ReplacedStep ==
  ASSUME WorkspaceInv, NEW s \in Slots, Once(s) \/ End(s), UNCHANGED <<people, conversation>>,
         NEW p \in DOMAIN project, NEW row \in Project, row.exists \/ In(p) = {},
         project' = [project EXCEPT ![p] = row]
  PROVE  WorkspaceInv'
<1>1. /\ project' \in Seq(Project) /\ DOMAIN project' = DOMAIN project
      /\ \A q \in DOMAIN project : project'[q] = IF q = p THEN row ELSE project[q]
  BY ProjectFacts
<1>2. ASSUME NEW c \in DOMAIN conversation
      PROVE  conversation[c] \in DOMAIN project' /\ project'[conversation[c]].exists
  <2>1. conversation[c] = p => row.exists
    BY DEF In
  <2>. QED
    BY <1>1, <2>1, ProjectFacts
<1>3. ConversationsHaveProject'
  BY <1>2 DEF ConversationsHaveProject, Projects
<1>. QED
  BY <1>1, <1>3, ProjectFacts, ProjectsStep

LEMMA ChangeProjectStep ==
  ASSUME WorkspaceInv, NEW s \in Slots, NEW p \in DOMAIN project, ChangeProject(s, p)
  PROVE  WorkspaceInv'
<1>1. PICK row : row = project[p]
  OBVIOUS
<1>2. row \in Project /\ row.exists
  BY <1>1, ProjectFacts DEF ChangeProject, Projects
<1>3. /\ Once(s) /\ UNCHANGED <<people, conversation>>
      /\ project' \in {[project EXCEPT ![p].standard = ~@], [project EXCEPT ![p].archived = ~@],
                       [project EXCEPT ![p].stocked = TRUE]}
  BY DEF ChangeProject
<1>4. PICK new : /\ project' = [project EXCEPT ![p] = new]
                 /\ \/ new = [row EXCEPT !.standard = ~row.standard]
                    \/ new = [row EXCEPT !.archived = ~row.archived]
                    \/ new = [row EXCEPT !.stocked = TRUE]
  BY <1>1, <1>3
<1>5. new \in Project /\ new.exists
  BY <1>2, <1>4 DEF Project
<1>. QED
  BY <1>3, <1>4, <1>5, ReplacedStep

LEMMA WriteDropStep ==
  ASSUME WorkspaceInv, NEW s \in Slots, WriteDrop(s)
  PROVE  WorkspaceInv'
<1>1. CASE Refused(s)
  BY <1>1, RefusedStep
<1>2. CASE ~Refused(s)
  <2>1. PICK p : p = req[s].item
    OBVIOUS
  <2>2. /\ p \in Projects /\ In(p) = {} /\ End(s) /\ UNCHANGED <<people, conversation>>
        /\ project' = [project EXCEPT ![p].exists = FALSE]
    BY <1>2, <2>1 DEF WriteDrop
  <2>3. p \in DOMAIN project /\ project[p] \in Project
    BY <2>2, ProjectFacts DEF Projects
  <2>4. PICK row \in Project : row = [project[p] EXCEPT !.exists = FALSE]
    BY <2>3 DEF Project
  <2>5. project' = [project EXCEPT ![p] = row]
    BY <2>2, <2>4
  <2>. QED
    BY <2>2, <2>3, <2>5, ReplacedStep
<1>. QED
  BY <1>1, <1>2

LEMMA WriteConversationStep ==
  ASSUME WorkspaceInv, NEW s \in Slots, WriteConversation(s)
  PROVE  WorkspaceInv'
<1>1. CASE Refused(s)
  BY <1>1, RefusedStep
<1>2. CASE ~Refused(s)
  <2>1. PICK p, made : p = req[s].item /\ made = (p = 0 /\ workspace = "live")
    OBVIOUS
  <2>2. /\ made \/ p \in Projects
        /\ project' = IF made THEN Append(project, Default) ELSE project
        /\ conversation' = Append(conversation, IF made THEN Len(project) + 1 ELSE p)
        /\ End(s) /\ UNCHANGED people
    BY <1>2, <2>1 DEF WriteConversation
  <2>3. Default \in Project /\ Default.exists
    BY DEF Default, Project
  <2>4. PICK q : q = IF made THEN Len(project) + 1 ELSE p
    OBVIOUS
  <2>5. /\ project' \in Seq(Project) /\ q \in Nat /\ q \in DOMAIN project' /\ project'[q].exists
        /\ \A o \in DOMAIN project : o \in DOMAIN project' /\ project'[o] = project[o]
        /\ workspace = "live"
    <3>1. CASE made
      <4>1. project \in Seq(Project) /\ project' = Append(project, Default) /\ workspace = "live"
        BY <2>1, <2>2, <3>1, ProjectFacts
      <4>2. /\ project' \in Seq(Project) /\ DOMAIN project' = 1 .. Len(project) + 1 /\ Len(project) \in Nat
            /\ \A o \in DOMAIN project : o \in DOMAIN project' /\ project'[o] = project[o]
            /\ project'[Len(project) + 1] = Default
        BY <2>3, <4>1, Appended
      <4>3. q = Len(project) + 1
        BY <2>4, <3>1
      <4>. QED
        BY <2>3, <4>1, <4>2, <4>3
    <3>2. CASE ~made
      <4>1. p \in DOMAIN project /\ project[p].exists /\ project' = project /\ q = p
        BY <2>2, <2>4, <3>2 DEF Projects
      <4>. QED
        BY <4>1, ProjectFacts
    <3>. QED
      BY <3>1, <3>2
  <2>6. /\ conversation' \in Seq(Nat)
        /\ \A c \in DOMAIN conversation : conversation'[c] = conversation[c]
        /\ \A c \in DOMAIN conversation' : c \in DOMAIN conversation \/ conversation'[c] = q
    BY <2>2, <2>4, <2>5, ProjectFacts, Appended
  <2>7. ConversationsHaveProject'
    BY <2>5, <2>6, ProjectFacts DEF ConversationsHaveProject, Projects
  <2>. QED
    BY <2>2, <2>5, <2>6, <2>7, ProjectsStep
<1>. QED
  BY <1>1, <1>2

-----------------------------------------------------------------------------
(* The invariant *)

LEMMA InitSound == Init => WorkspaceInv
<1>. SUFFICES ASSUME Init PROVE WorkspaceInv
  OBVIOUS
<1>1. TypeOK
  <2>1. req \in [Slots -> Request] /\ role \in [Users -> Roles \cup {"none"}]
    BY RequestTypes DEF Init
  <2>. QED
    BY <2>1 DEF Init, TypeOK
<1>2. MembersAreInvited /\ MembersAreWhole
  BY DEF Init, MembersAreInvited, Accepted, MembersAreWhole, Member
<1>3. ConversationsHaveProject /\ NothingLeft
  BY DEF Init, ConversationsHaveProject, NothingLeft
<1>4. RequestsKnow
  BY FreeKnows DEF Init, RequestsKnow
<1>. QED
  BY <1>1, <1>2, <1>3, <1>4 DEF WorkspaceInv

LEMMA BeginStep ==
  ASSUME WorkspaceInv, NEW s \in Slots, Begin(s)
  PROVE  WorkspaceInv'
<1>1. ASSUME NEW u \in Users, DeleteWorkspace(s, u) PROVE WorkspaceInv'
  <2>1. PICK n \in {0, 1} : Start(s, [Free EXCEPT !.op = "delete", !.user = u, !.item = n]) /\ UNCHANGED tables
    BY <1>1 DEF DeleteWorkspace
  <2>2. PICK r \in Request : r = [Free EXCEPT !.op = "delete", !.user = u, !.item = n]
    BY RequestTypes, OpsFacts
  <2>3. r.op = "delete"
    BY <2>2 DEF Free
  <2>4. RequestKnows(r)
    BY <2>3 DEF RequestKnows
  <2>. QED
    BY <2>1, <2>2, <2>4, StartStep
<1>2. ASSUME NEW u \in Users, NEW email \in Users, NEW as \in {"admin", "member"}, Invite(s, u, email, as)
      PROVE  WorkspaceInv'
  <2>1. PICK r \in Request : r = [Free EXCEPT !.op = "invite", !.user = email, !.role = as]
    BY RequestTypes, OpsFacts
  <2>2. r.op = "invite" /\ r.user = email
    BY <2>1 DEF Free
  <2>3. RequestKnows(r)
    BY <2>2 DEF RequestKnows
  <2>. QED
    BY <1>2, <2>1, <2>3, StartStep DEF Invite
<1>3. ASSUME NEW i \in DOMAIN invitation, Accept(s, i) PROVE WorkspaceInv'
  <2>1. invitation \in Seq(Invitation) /\ workspace = "live"
    BY DEF WorkspaceInv, TypeOK, NothingLeft
  <2>2. i \in Nat /\ invitation[i].email \in Users /\ invitation[i].role \in {"admin", "member"}
    <3>1. invitation[i] \in Invitation /\ i \in Nat
      BY <2>1
    <3>. QED
      BY <3>1 DEF Invitation
  <2>3. PICK r \in Request : r = [Free EXCEPT !.op = "accept", !.user = invitation[i].email,
                                              !.role = invitation[i].role, !.item = i]
    BY <2>2, RequestTypes, OpsFacts
  <2>4. r.op = "accept" /\ r.user = invitation[i].email /\ r.role = invitation[i].role /\ r.item = i
    BY <2>3 DEF Free
  <2>5. RequestKnows(r)
    BY <2>1, <2>2, <2>4 DEF RequestKnows
  <2>. QED
    BY <1>3, <2>3, <2>5, StartStep DEF Accept
<1>4. ASSUME NEW p \in DOMAIN project, DeleteProject(s, p) PROVE WorkspaceInv'
  <2>1. PICK n \in Nat : n = IF project[p].stocked THEN 0 ELSE p
    <3>1. p \in Nat
      BY ProjectFacts
    <3>. QED
      BY <3>1
  <2>2. PICK r \in Request : r = [Free EXCEPT !.op = "drop", !.item = n]
    BY RequestTypes, OpsFacts
  <2>3. r.op = "drop"
    BY <2>2 DEF Free
  <2>4. RequestKnows(r)
    BY <2>3 DEF RequestKnows
  <2>. QED
    BY <1>4, <2>1, <2>2, <2>4, StartStep DEF DeleteProject
<1>5. ASSUME NEW p \in {0} \cup DOMAIN project, CreateConversation(s, p) PROVE WorkspaceInv'
  <2>1. p \in Nat
    BY ProjectFacts
  <2>2. PICK r \in Request : r = [Free EXCEPT !.op = "converse", !.item = p]
    BY <2>1, RequestTypes, OpsFacts
  <2>3. r.op = "converse"
    BY <2>2 DEF Free
  <2>4. RequestKnows(r)
    BY <2>3 DEF RequestKnows
  <2>. QED
    BY <1>5, <2>2, <2>4, StartStep DEF CreateConversation
<1>. QED
  BY <1>1, <1>2, <1>3, <1>4, <1>5, CreateWorkspaceStep, CreateProjectStep, ChangeProjectStep DEF Begin

LEMMA Nothing ==
  ASSUME WorkspaceInv, UNCHANGED <<tables, req, issued>>
  PROVE  WorkspaceInv'
<1>1. UNCHANGED tables /\ UNCHANGED <<req, issued>>
  OBVIOUS
<1>2. CASE Slots # {}
  <2>1. PICK s \in Slots : TRUE
    BY <1>2
  <2>2. req' = [req EXCEPT ![s] = req[s]] /\ req[s] \in Request /\ RequestKnows(req[s]) /\ issued' \in Nat
    BY <1>1 DEF WorkspaceInv, TypeOK, RequestsKnow
  <2>. QED
    BY <1>1, <2>2, QuietStep
<1>3. CASE Slots = {}
  <2>1. TypeOK' /\ RequestsKnow'
    BY <1>1, <1>3 DEF WorkspaceInv, TypeOK, RequestsKnow, tables
  <2>2. MembersAreInvited' /\ MembersAreWhole' /\ NothingLeft' /\ ConversationsHaveProject'
    BY <1>1 DEF WorkspaceInv, MembersAreInvited, Accepted, MembersAreWhole, Member, NothingLeft,
                ConversationsHaveProject, Projects, tables
  <2>. QED
    BY <2>1, <2>2 DEF WorkspaceInv
<1>. QED
  BY <1>2, <1>3

\* WorkspaceInv holds: however invitations, acceptances and the deletion of the
\* workspace overlap, its members are its owner and those who accepted one
\* invitation each, whole with budget and preference; and no conversation is in
\* a project deleted meanwhile.
THEOREM WorkspaceHolds == Spec => []WorkspaceInv
<1>1. WorkspaceInv /\ [Next]_<<tables, req, issued>> => WorkspaceInv'
  <2>. SUFFICES ASSUME WorkspaceInv, [Next]_<<tables, req, issued>> PROVE WorkspaceInv'
    OBVIOUS
  <2>1. ASSUME NEW s \in Slots, Write(s) PROVE WorkspaceInv'
    BY <2>1, WriteDeleteStep, WriteInviteStep, WriteAcceptStep, WriteDropStep, WriteConversationStep
    DEF Write
  <2>. QED
    BY <2>1, BeginStep, ExpireStep, Nothing DEF Next
<1>. QED
  BY <1>1, InitSound, PTL DEF Spec
=============================================================================
