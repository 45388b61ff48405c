SPECIFICATION Spec
CONSTANTS
    NTables = 2
    NColumns = 3
    Foreign <- SomeForeign
    MaxFaults = 3
INVARIANTS
    TypeOK
    ReadyMeansTables
    ReadyMeansColumns
PROPERTY Recovers
CHECK_DEADLOCK FALSE
