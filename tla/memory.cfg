SPECIFICATION Spec
CONSTANTS
  r1 = r1
  r2 = r2
  c1 = c1
  c2 = c2
  k1 = k1
  k2 = k2
  main = main
  other = other
  None = None
  Repositories <- TwoRepositories
  Existing <- FirstRepository
  Conversations <- TwoConversations
  Founders <- FirstConversation
  Names <- TwoNames
  DefaultName = main
  Slots <- TwoSlots
  MaxBranches = 2
  MaxCommits = 2
  MaxRequests = 4
CHECK_DEADLOCK FALSE
SYMMETRY SlotSymmetry
INVARIANTS MemoryInv VersionsAgree DigestDescribesRecord ConflictHasCause
PROPERTIES KeepsDefault ImplementsHistory
