SPECIFICATION Spec
CONSTANTS
  u1 = u1
  u2 = u2
  w1 = w1
  w2 = w2
  k1 = k1
  Loop = Loop
  NoWorkspace = NoWorkspace
  Users <- TwoUsers
  Workspaces <- TwoWorkspaces
  Conversations <- OneConversation
  Connections <- TwoConnections
  Logins <- Assignments
  MaxMessages = 3
CHECK_DEADLOCK FALSE
INVARIANTS HubInv
PROPERTIES DeadConnectionsLeave TypingEnds
