SPECIFICATION Spec
CONSTANTS
    report = report
    mistyped = mistyped
    backup = backup
    unknown = unknown
    None = None
    Tasks = {report, mistyped, backup, unknown}
    Version <- MCVersion
    Contents <- MCContents
    IoThreads = {io1, io2}
    Workers = {w1, w2}
    Builds <- MCBuilds
INVARIANTS
    ExecutedOnce
    RowsAreReports
    GivenInOrder
PROPERTIES
    FatalEnds
    EveryTaskEnds
CHECK_DEADLOCK FALSE
