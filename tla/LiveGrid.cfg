SPECIFICATION Spec
CONSTANTS
    PageSize = 1
    LargeBufferSize = 1
    LimitTolerance = 2
    Totals = {2, 4}
    MaxRequests = 3
    MaxVersion = 1
INVARIANTS
    RowsInPlace
    RequestsAccounted
    ViewSettles
CHECK_DEADLOCK FALSE
