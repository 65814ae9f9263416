----------------------------- MODULE MCAccounts -----------------------------
(***************************************************************************)
(* Small instances of four components that share no table: AI accounts and *)
(* the routing of requests to them, a workspace with its members and       *)
(* projects, developer sessions, and logins.  A behaviour is one of them,  *)
(* chosen at the start; the others rest.                                   *)
(***************************************************************************)
EXTENDS Routing, TLC

CONSTANTS u1, u2, k1, k2, MaxInvitations, MaxProjects, MaxConversations,
          IdleAfter, GoneAfter, MaxTime, MaxSessions, MaxTokens, MaxRequests

VARIABLES part,
  workspace, role, budget, preference, invitation, project, conversation, wreq, wissued,
  session, now, archived, dreq, dissued,
  registered, token, lreq, lissued

Ranks == [p \in Providers |-> IF p = "ollama" THEN 0 ELSE 3]
Symmetry == Permutations(Slots)

W == INSTANCE Workspaces WITH req <- wreq, issued <- wissued
D == INSTANCE DeveloperSessions WITH Clients <- Users, req <- dreq, issued <- dissued
L == INSTANCE Logins WITH Emails <- Users, req <- lreq, issued <- lissued

workspaces == <<workspace, role, budget, preference, invitation, project, conversation,
                wreq, wissued>>
sessions == <<session, now, archived, dreq, dissued>>
logins == <<registered, token, lreq, lissued>>

MCInit ==
  /\ part \in {"routing", "workspace", "sessions", "logins"}
  /\ Init /\ W!Init /\ D!Init /\ L!Init

MCNext ==
  /\ UNCHANGED part
  /\ \/ part = "routing" /\ Next /\ UNCHANGED workspaces /\ UNCHANGED sessions /\ UNCHANGED logins
     \/ part = "workspace" /\ W!Next /\ UNCHANGED vars /\ UNCHANGED sessions /\ UNCHANGED logins
     \/ part = "sessions" /\ D!Next /\ UNCHANGED vars /\ UNCHANGED workspaces /\ UNCHANGED logins
     \/ part = "logins" /\ L!Next /\ UNCHANGED vars /\ UNCHANGED workspaces /\ UNCHANGED sessions

MCSpec == MCInit /\ [][MCNext]_<<part, vars, workspaces, sessions, logins>>

\* The invariants of the four: the types of all and what accounts show as
\* spent (gateway.generate), a workspace's members, invitations and projects
\* (accept_invitation, delete_project), developer sessions (close_session) and
\* the successors of refresh tokens (refresh).
AccountsInv ==
  /\ TypeOK /\ SpentIsCovered
  /\ W!WorkspaceInv /\ D!SessionsInv /\ L!LoginsInv

\* What no step may do: resume a session that was closed, or renew a token that
\* was revoked, before the request began (connect, heartbeat, mark_idle_sessions;
\* refresh).
AccountsSteps == D!ClosedStaysClosed /\ L!RevokedStaysRevoked
=============================================================================
