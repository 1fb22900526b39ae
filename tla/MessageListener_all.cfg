SPECIFICATION Spec
CONSTANTS
    t1 = t1
    t2 = t2
    d1 = d1
    Requests = {t1, t2}
    NoRequest = NoRequest
    Pollers = {}
    Dests = {d1}
    Bodies <- AllBodies
    maximumMessages = 2
    Poison = {3}
    MaxConsumers = 2
    MaxMessages = 3
    MaxPosts = 2
INVARIANTS
    AtMostOnce
    ConsumersComplete
    NoneVanishes
