SPECIFICATION Spec
CONSTANTS
    Ids = {i1, i2}
    i1 = i1
    i2 = i2
    MaxCalls = 3
    MaxResponse = 2
    Selectors = FALSE
    EarlyCalls = FALSE
    HandlersThrow = FALSE
    CallbackThrows = FALSE
    PostErrors = FALSE
    ListensFail = FALSE
    AppBatches = FALSE
INVARIANTS
    EveryMessageHandled
CHECK_DEADLOCK FALSE
