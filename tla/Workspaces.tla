----------------------------- MODULE Workspaces -----------------------------
(***************************************************************************)
(* One workspace: its members with their budgets and lending preferences,  *)
(* the invitations that bring members in, and its projects with the        *)
(* conversations and repositories in them.                                 *)
(*                                                                         *)
(* One HTTP request is one slot and one database transaction.  A request   *)
(* checks what it has read and writes later; what it wrote is refused as a *)
(* whole when a unique index or a foreign key does not hold any more.      *)
(***************************************************************************)
EXTENDS Integers, Sequences, FiniteSets

CONSTANTS
  Users,             \* users, each with one e-mail address
  None,              \* none of them
  Slots,             \* requests the server can be handling at the same time
  MaxInvitations,    \* bound: invitations ever made
  MaxProjects,       \* bound: no project is begun beyond it
  MaxConversations,  \* bound: no conversation is begun beyond it
  MaxRequests        \* bound: requests ever made

VARIABLES
  workspace,     \* "absent", "live" or "deleted"
  role,          \* role[u]: u's role in it, "none" without a membership
  budget,        \* the users with a budget in it
  preference,    \* the users with a lending preference in it
  invitation,    \* its invitations
  project,       \* its projects
  conversation,  \* the project of each conversation
  req,           \* the request in each slot
  issued         \* requests made

tables == <<workspace, role, budget, preference, invitation, project, conversation>>
people == <<workspace, role, budget, preference, invitation>>

Roles == {"owner", "admin", "member"}
Invitation == [email : Users, role : {"admin", "member"}, accepted : BOOLEAN, expired : BOOLEAN]
\* standard: it has the name of a default project; stocked: it has repositories.
Project == [exists : BOOLEAN, standard : BOOLEAN, archived : BOOLEAN, stocked : BOOLEAN]
Default == [exists |-> TRUE, standard |-> TRUE, archived |-> FALSE, stocked |-> FALSE]

Ops == {"none", "delete", "invite", "accept", "drop", "converse"}
\* item is the invitation or project the request is about; 0 is none.
Request == [op : Ops, user : Users \cup {None}, role : {"admin", "member"}, item : Nat]
Free == [op |-> "none", user |-> None, role |-> "member", item |-> 0]

Init ==
  /\ workspace = "absent"
  /\ role = [u \in Users |-> "none"]
  /\ budget = {} /\ preference = {}
  /\ invitation = <<>> /\ project = <<>> /\ conversation = <<>>
  /\ req = [s \in Slots |-> Free]
  /\ issued = 0

TypeOK ==
  /\ workspace \in {"absent", "live", "deleted"}
  /\ role \in [Users -> Roles \cup {"none"}]
  /\ budget \subseteq Users /\ preference \subseteq Users
  /\ invitation \in Seq(Invitation) /\ project \in Seq(Project)
  /\ conversation \in Seq(Nat)
  /\ req \in [Slots -> Request]
  /\ issued \in Nat

-----------------------------------------------------------------------------
\* The tables, as a query sees them, and requests.

Member(u) == role[u] # "none"
Manages(u) == role[u] \in {"owner", "admin"}
Pending(i) == ~invitation[i].accepted /\ ~invitation[i].expired
Projects == {p \in DOMAIN project : project[p].exists}
In(p) == {c \in DOMAIN conversation : conversation[c] = p}

Doing(s, op) == req[s].op = op
Start(s, r) ==
  /\ Doing(s, "none") /\ issued < MaxRequests
  /\ req' = [req EXCEPT ![s] = r]
  /\ issued' = issued + 1
Once(s) == Start(s, Free)
End(s) == req' = [req EXCEPT ![s] = Free] /\ UNCHANGED issued

\* Bound: n rows, and those the requests under way may add, stay below max.
Room(n, ops, max) == n + Cardinality({s \in Slots : req[s].op \in ops}) < max

\* The request fails: its transaction is rolled back.
Refused(s) == End(s) /\ UNCHANGED tables

-----------------------------------------------------------------------------
\* The workspace and its members.

\* Its creator becomes the owner; the default project, the budget and the
\* lending preference belong to the same transaction.
CreateWorkspace(s, u) ==
  /\ workspace = "absent"
  /\ Once(s)
  /\ workspace' = "live"
  /\ role' = [role EXCEPT ![u] = "owner"]
  /\ budget' = {u} /\ preference' = {u}
  /\ project' = <<Default>>
  /\ UNCHANGED <<invitation, conversation>>

\* The owner deletes it, with all that is in it.
DeleteWorkspace(s, u) ==
  /\ role[u] = "owner"
  /\ Start(s, [Free EXCEPT !.op = "delete", !.user = u,
                           !.item = IF \E p \in Projects : project[p].stocked THEN 1 ELSE 0])
  /\ UNCHANGED tables

\* The repositories of a project cannot lose it: a workspace with one stays.
\* It may stay because of its conversations, too.
WriteDelete(s) ==
  /\ Doing(s, "delete")
  /\ \/ /\ req[s].item = 0
        /\ workspace' = "deleted"
        /\ role' = [u \in Users |-> "none"]
        /\ budget' = {} /\ preference' = {}
        /\ invitation' = <<>> /\ project' = <<>> /\ conversation' = <<>>
        /\ End(s)
     \/ /\ req[s].item = 1 \/ conversation # <<>> \/ workspace = "deleted"
        /\ Refused(s)

Invite(s, u, email, as) ==
  /\ Manages(u) /\ ~Member(email)
  /\ Room(Len(invitation), {"invite"}, MaxInvitations)
  /\ ~\E i \in DOMAIN invitation : invitation[i].email = email /\ Pending(i)
  /\ Start(s, [Free EXCEPT !.op = "invite", !.user = email, !.role = as])
  /\ UNCHANGED tables

WriteInvite(s) ==
  /\ Doing(s, "invite")
  /\ \/ /\ workspace = "live"
        /\ invitation' = Append(invitation, [email |-> req[s].user, role |-> req[s].role,
                                             accepted |-> FALSE, expired |-> FALSE])
        /\ End(s)
        /\ UNCHANGED <<workspace, role, budget, preference, project, conversation>>
     \/ /\ workspace # "live"
        /\ Refused(s)

Expire(i) ==
  /\ Pending(i)
  /\ invitation' = [invitation EXCEPT ![i].expired = TRUE]
  /\ UNCHANGED <<workspace, role, budget, preference, project, conversation, req, issued>>

\* The invited user follows the link.
Accept(s, i) ==
  /\ Pending(i) /\ ~Member(invitation[i].email)
  /\ Start(s, [Free EXCEPT !.op = "accept", !.user = invitation[i].email,
                           !.role = invitation[i].role, !.item = i])
  /\ UNCHANGED tables

\* Membership, budget, preference and the mark on the invitation: all of it.
Joined(u, as, i) ==
  /\ role' = [role EXCEPT ![u] = as]
  /\ budget' = budget \cup {u} /\ preference' = preference \cup {u}
  /\ invitation' = [invitation EXCEPT ![i].accepted = TRUE]
  /\ UNCHANGED <<workspace, project, conversation>>

\* Mutant: a user can have two memberships in a workspace.
WriteAcceptTwice(s) ==
  /\ Doing(s, "accept") /\ workspace = "live"
  /\ Joined(req[s].user, req[s].role, req[s].item)
  /\ End(s)

WriteAccept(s) ==
  LET u == req[s].user IN
  /\ Doing(s, "accept")
  /\ \/ /\ workspace = "live" /\ ~Member(u)
        /\ Joined(u, req[s].role, req[s].item)
        /\ End(s)
     \/ /\ workspace # "live" \/ Member(u)
        /\ Refused(s)

-----------------------------------------------------------------------------
\* Projects, and the conversations and repositories in them.

CreateProject(s, standard) ==
  /\ workspace = "live" /\ Room(Len(project), {"converse"}, MaxProjects)
  /\ Once(s)
  /\ project' = Append(project, [Default EXCEPT !.standard = standard])
  /\ UNCHANGED <<people, conversation>>

\* Rename it, archive it or take it back, or put a repository in it.
ChangeProject(s, p) ==
  /\ p \in Projects
  /\ Once(s)
  /\ project' \in {[project EXCEPT ![p].standard = ~@], [project EXCEPT ![p].archived = ~@],
                   [project EXCEPT ![p].stocked = TRUE]}
  /\ UNCHANGED <<people, conversation>>

\* A project without conversations is deleted.
DeleteProject(s, p) ==
  /\ p \in Projects /\ In(p) = {}
  /\ Start(s, [Free EXCEPT !.op = "drop", !.item = IF project[p].stocked THEN 0 ELSE p])
  /\ UNCHANGED tables

\* Mutant: deleting a project is not refused for a conversation created since.
WriteDropOnly(s) ==
  /\ Doing(s, "drop")
  /\ project' = IF req[s].item \in Projects THEN [project EXCEPT ![req[s].item].exists = FALSE]
                ELSE project
  /\ End(s)
  /\ UNCHANGED <<people, conversation>>

\* It stays when a conversation has been created in it, or with a repository.
WriteDrop(s) ==
  LET p == req[s].item IN
  /\ Doing(s, "drop")
  /\ \/ /\ p \in Projects /\ In(p) = {}
        /\ project' = [project EXCEPT ![p].exists = FALSE]
        /\ End(s)
        /\ UNCHANGED <<people, conversation>>
     \/ /\ ~(p \in Projects /\ In(p) = {})
        /\ Refused(s)

\* A conversation for which no project is named goes to the default one: the
\* only project of that name that is not archived, else the only one there is.
\* With two, there is no telling, and the request fails.
Standard(archived) == {p \in Projects : project[p].standard /\ project[p].archived \in archived}
Candidates == IF Standard({FALSE}) # {} THEN Standard({FALSE}) ELSE Standard(BOOLEAN)

CreateConversation(s, p) ==
  /\ workspace = "live" /\ Room(Len(conversation), {"converse"}, MaxConversations)
  /\ \/ p \in Projects /\ ~project[p].archived
     \/ p \in Candidates /\ Cardinality(Candidates) = 1
     \/ p = 0 /\ Candidates = {} /\ Room(Len(project), {"converse"}, MaxProjects)
  /\ Start(s, [Free EXCEPT !.op = "converse", !.item = p])
  /\ UNCHANGED tables

\* Without a default project one is made in the same transaction.
WriteConversation(s) ==
  LET p == req[s].item
      made == p = 0 /\ workspace = "live"
  IN
  /\ Doing(s, "converse")
  /\ \/ /\ made \/ p \in Projects
        /\ project' = IF made THEN Append(project, Default) ELSE project
        /\ conversation' = Append(conversation, IF made THEN Len(project) + 1 ELSE p)
        /\ End(s)
        /\ UNCHANGED people
     \/ /\ ~(made \/ p \in Projects)
        /\ Refused(s)

-----------------------------------------------------------------------------
Begin(s) ==
  \/ \E u \in Users : CreateWorkspace(s, u)
  \/ \E u \in Users : DeleteWorkspace(s, u)
  \/ \E u, email \in Users, as \in {"admin", "member"} : Invite(s, u, email, as)
  \/ \E i \in DOMAIN invitation : Accept(s, i)
  \/ \E standard \in BOOLEAN : CreateProject(s, standard)
  \/ \E p \in DOMAIN project : ChangeProject(s, p)
  \/ \E p \in DOMAIN project : DeleteProject(s, p)
  \/ \E p \in {0} \cup DOMAIN project : CreateConversation(s, p)

Write(s) ==
  WriteDelete(s) \/ WriteInvite(s) \/ WriteAccept(s) \/ WriteDrop(s) \/ WriteConversation(s)

Next == \/ \E s \in Slots : Begin(s) \/ Write(s)
        \/ \E i \in DOMAIN invitation : Expire(i)

Spec == Init /\ [][Next]_<<tables, req, issued>>

-----------------------------------------------------------------------------
Accepted(u) == {i \in DOMAIN invitation : invitation[i].email = u /\ invitation[i].accepted}

\* A workspace has one owner; everybody else in it has come by exactly one
\* accepted invitation, with the role it offered, and no invitation has been
\* accepted without making a member: however many invitations, links and
\* acceptances of one person there are at the same time.
MembersAreInvited ==
  /\ workspace = "live" <=> \E u \in Users : role[u] = "owner"
  /\ \A u, v \in Users : role[u] = "owner" /\ role[v] = "owner" => u = v
  /\ \A u \in Users :
       IF role[u] \in {"none", "owner"} THEN Accepted(u) = {}
       ELSE \E i \in Accepted(u) : Accepted(u) = {i} /\ invitation[i].role = role[u]

\* Exactly the members have a budget and a lending preference: the gateway
\* charges and the borrow engine ranks nobody else (accept_invitation).
MembersAreWhole == budget = {u \in Users : Member(u)} /\ preference = budget

\* Every conversation is in a project that is there (delete_project counts the
\* conversations long before it deletes).
ConversationsHaveProject == \A c \in DOMAIN conversation : conversation[c] \in Projects

\* Nothing is left of a workspace that is not there.
NothingLeft ==
  workspace # "live" => invitation = <<>> /\ project = <<>> /\ conversation = <<>>

\* The invitation a request is about to accept is there, as it was read, unless
\* the workspace is gone.
RequestKnows(r) ==
  /\ r.op \in {"invite", "accept"} => r.user \in Users
  /\ r.op = "accept" =>
       /\ workspace # "absent"
       /\ workspace = "live" => /\ r.item \in DOMAIN invitation
                                /\ invitation[r.item].email = r.user
                                /\ invitation[r.item].role = r.role
RequestsKnow == \A r \in {req[s] : s \in Slots} : RequestKnows(r)

\* The inductive invariant.
WorkspaceInv ==
  /\ TypeOK /\ MembersAreInvited /\ MembersAreWhole /\ ConversationsHaveProject
  /\ NothingLeft /\ RequestsKnow
=============================================================================
