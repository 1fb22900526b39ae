SPECIFICATION FairSpec
CONSTANTS
    Ids = {i1, i2}
    i1 = i1
    i2 = i2
    MaxCalls = 2
    MaxResponse = 1
    Selectors = FALSE
    EarlyCalls = FALSE
    HandlersThrow = FALSE
    CallbackThrows = FALSE
    PostErrors = TRUE
    ListensFail = FALSE
    AppBatches = FALSE
PROPERTIES
    QueuedIsSent
