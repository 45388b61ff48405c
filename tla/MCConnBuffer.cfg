SPECIFICATION Spec
CONSTANTS
    ByteMod = 2
    CheapPrepend = 1
    InitialSize = 2
    Chunks <- MCChunks
    Widths = {1, 2}
    Marks <- MCMarks
    MaxContent = 5
INVARIANTS
    AssertsHold
    GrowthBounded
PROPERTY IsByteQueue
CHECK_DEADLOCK FALSE
