SPECIFICATION Spec
CONSTANTS
    Producers = {p1, p2}
    Consumers = {c1, c2}
    Items = {a, b, c}
    Capacity = 1
    MaxSpurious = 1
    None = None
INVARIANTS
    HolderHasMutex
    UndefinedOnlyDestroyed
    NoWakeUpLost
PROPERTIES
    IsFifo
    EveryItemTaken
    EveryPutReturns
CHECK_DEADLOCK FALSE
