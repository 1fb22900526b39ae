SPECIFICATION Spec
CONSTANTS
    Binds = {"fn", "once", "live"}
    Types = {"click", "focus", "focusin"}
    MaxCalls = 2
    MaxEvents = 2
INVARIANTS
    ListenersMatch
    DroppedOnlyInside
    RunsOnce
CHECK_DEADLOCK FALSE
