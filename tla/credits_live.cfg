SPECIFICATION FairSpec
CONSTANTS
    Users = {1, 2}
    Requests = {q1, q2}
    Nobody = Nobody
    Authors = {1, 2}
    Owners = {1, 2}
    BorrowModes = {TRUE}
    HardModes = {TRUE, FALSE}
    Estimates = {2}
    Costs = {2}
    UsedBefore = {0, 3}
    Faults = FALSE
    MaxActive = 2
    MaxMonth = 1
    Limit = 3
    Share <- ShareOfAll
    Floor <- NoFloor
    Priority <- ByKey

CHECK_DEADLOCK FALSE
PROPERTY Answered
