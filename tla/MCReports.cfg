SPECIFICATION Spec
CONSTANTS
    Messages <- MCMessages
    ShortMod = 8
    IntMax = 9
INVARIANTS
    ColumnsHoldMembers
CHECK_DEADLOCK FALSE
