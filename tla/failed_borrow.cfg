SPECIFICATION Spec
CONSTANTS
    Users = {1, 2}
    Requests = {q1}
    Nobody = Nobody
    Authors = {2}
    Owners = {1}
    BorrowModes = {TRUE}
    HardModes = {FALSE}
    Estimates = {2}
    Costs = {2}
    UsedBefore = {0, 3}
    Faults = FALSE
    MaxActive = 1
    MaxMonth = 0
    Limit = 3
    Share <- ShareOf1
    Floor <- NoFloor
    Priority <- ByKey

CHECK_DEADLOCK FALSE
INVARIANT CacheMatchesLedger
