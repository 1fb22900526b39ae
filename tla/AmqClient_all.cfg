SPECIFICATION Spec
CONSTANTS
    Ids = {i1, i2}
    i1 = i1
    i2 = i2
    MaxCalls = 3
    MaxResponse = 1
    Selectors = TRUE
    EarlyCalls = TRUE
    HandlersThrow = TRUE
    CallbackThrows = TRUE
    PostErrors = TRUE
    ListensFail = FALSE
    AppBatches = TRUE
SYMMETRY IdSymmetry
INVARIANTS
    TypeOK
    OnePollChain
    HeadersAlone
    EachCommandOnce
    ClassOrder
PROPERTIES
    OldestGoes
CHECK_DEADLOCK FALSE
