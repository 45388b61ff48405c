SPECIFICATION Spec
CONSTANTS
    query = query
    job = job
    None = None
    Threads = {t1, t2}
    Calls = {r1, r2, r3, query, job}
    Kind <- MCKind
    MaxHandles = 1
    MaxFaults = 2
INVARIANTS
    StoreLimit
    LoginsBounded
    
PROPERTY UnusableForGood
CHECK_DEADLOCK FALSE
