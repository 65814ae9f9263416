SPECIFICATION Spec
CONSTANTS
  u1 = u1
  u2 = u2
  k1 = k1
  k2 = k2
  Users <- TwoUsers
  Slots <- TwoSlots
  MaxConversations = 3
  MaxMessages = 3
  MaxCommits = 3
  MaxRequests = 5
CHECK_DEADLOCK FALSE
SYMMETRY Symmetry
INVARIANTS ConversationsInv OwnerParticipates PackagesComplete CommitGraphIsForest TotalsAgree BranchIsPrefix
