SPECIFICATION DataSpec
CONSTANTS
    MaxQueue = 5
    Texts = {"plain", "escaped"}
    TypesAsked = {"*", "xml", "html", "json", "text", "script", "other"}
    MaxAsked = 3
INVARIANTS
    LoopComputesSplit
    DecodedAsSent
    AnswerIsAsAsked
CHECK_DEADLOCK FALSE
