SPECIFICATION FairSpec
CONSTANTS
    Ids = {i1, i2}
    i1 = i1
    i2 = i2
    MaxCalls = 3
    MaxResponse = 2
    Selectors = FALSE
    EarlyCalls = FALSE
    HandlersThrow = TRUE
    CallbackThrows = TRUE
    PostErrors = FALSE
    ListensFail = TRUE
    AppBatches = FALSE
INVARIANTS
    OnePostAtATime
    QuiescentSubscriptions
    NothingDropped
PROPERTIES
    QueuedIsSent
    KeepsPolling
CHECK_DEADLOCK FALSE
