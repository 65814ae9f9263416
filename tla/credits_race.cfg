SPECIFICATION Spec
CONSTANTS
    Users = {1, 2}
    Requests = {q1, q2}
    Nobody = Nobody
    Authors = {1, 2}
    Owners = {1, 2}
    BorrowModes = {TRUE, FALSE}
    HardModes = {TRUE, FALSE}
    Estimates = {2}
    Costs = {1, 2, 3}
    UsedBefore = {0, 3}
    Faults = TRUE
    MaxActive = 2
    MaxMonth = 1
    Limit = 4
    Share <- ShareOfAll
    Floor <- FloorOf1
    Priority <- ByKey

CHECK_DEADLOCK FALSE
INVARIANTS CreditInv WithinShare
PROPERTIES BookSpec LendsAboveFloor OverdrawnKnowingly
