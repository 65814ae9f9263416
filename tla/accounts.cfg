SPECIFICATION MCSpec
CONSTANTS
  u1 = u1
  u2 = u2
  k1 = k1
  k2 = k2
  None = None
  Users = {u1, u2}
  Slots = {k1, k2}
  Creator = u1
  Admins = {u1}
  Providers = {"ollama", "openai"}
  Keyless = {"ollama"}
  Local = "ollama"
  Rank <- Ranks
  DevKeys = {}
  Priorities = {0, 1}
  Costs = {0, 1}
  Cent = 2
  MaxAccounts = 2
  MaxEvents = 4
  MaxInvitations = 3
  MaxProjects = 2
  MaxConversations = 2
  IdleAfter = 1
  GoneAfter = 2
  MaxTime = 3
  MaxSessions = 2
  MaxTokens = 3
  MaxRequests = 7
CHECK_DEADLOCK FALSE
SYMMETRY Symmetry
INVARIANTS AccountsInv RunsOnOwner
PROPERTIES AccountsSteps RetiredStaysUnused
