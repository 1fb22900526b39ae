SPECIFICATION FairSpec
CONSTANTS
    e1 = e1
    e2 = e2
    Elements = {e1, e2}
    Bystanders = {}
    Kinds = {"toggle", "show", "instant", "free", "empty", "delay", "fn"}
    Props = 2
    MaxCalls = 3
INVARIANTS
    OneAtATime
    TimersServed
    StylesRestored
PROPERTIES
    PromiseMeansIdle
    QueuesDrain
CHECK_DEADLOCK FALSE
