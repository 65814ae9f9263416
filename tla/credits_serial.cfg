SPECIFICATION Spec
CONSTANTS
    Users = {1, 2, 3}
    Requests = {q1, q2}
    Nobody = Nobody
    Authors = {2, 3}
    Owners = {1, 2}
    BorrowModes = {TRUE, FALSE}
    HardModes = {TRUE, FALSE}
    Estimates = {1, 2}
    Costs = {1, 3}
    UsedBefore = {0, 3}
    Faults = TRUE
    MaxActive = 1
    MaxMonth = 2
    Limit = 4
    Share <- ShareOfAll
    Floor <- FloorOf1
    Priority <- ByKey
SYMMETRY Symmetry
CHECK_DEADLOCK FALSE
INVARIANTS CacheCoversLedger LenderKeepsReserve AllocatedOnce
PROPERTY AccountSpendGrows
