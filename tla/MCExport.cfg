SPECIFICATION Spec
CONSTANTS
    NColumns = 2
    Orders <- MCOrders
    Garbage <- MCGarbage
    ShortMod = 3
    MaxRows = 3
    MaxErrors = 1
INVARIANTS
    LinesAreRows
    EachRowOnce
    CountedIsComplete
    HandlesFreed
CHECK_DEADLOCK FALSE
