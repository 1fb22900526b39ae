SPECIFICATION FairSpec
CONSTANTS
    r1 = r1
    r2 = r2
    Requests = {r1, r2}
    Throws = TRUE
    AbortsInSend = TRUE
    Timeouts = TRUE
    MaxAdded = 1
INVARIANTS
    ActiveCount
    FiringOnStack
PROPERTIES
    ImplementsAjaxCall
    SentEnds
CHECK_DEADLOCK FALSE
