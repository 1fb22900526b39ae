SPECIFICATION FairSpec
CONSTANTS
    t1 = t1
    t2 = t2
    d1 = d1
    d2 = d2
    Requests = {t1, t2}
    NoRequest = NoRequest
    Pollers = {t1, t2}
    Dests = {d1, d2}
    Bodies <- ListenAllBodies
    maximumMessages = 1
    Poison = {}
    MaxConsumers = 2
    MaxMessages = 2
    MaxPosts = 1
PROPERTIES
    PollAnswered
    EventuallyDelivered
