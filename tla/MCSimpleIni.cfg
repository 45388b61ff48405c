SPECIFICATION IniSpec
CONSTANTS
    Options <- MCOptions
    Files <- MCFiles
    SetCalls <- MCSetCalls
    LongCalls <- MCLongCalls
    DoubleCalls <- MCDoubleCalls
    BoolCalls <- MCBoolCalls
    DeleteCalls <- MCDeleteCalls
    LongMax = 127
    Places = 1
    TextSize = 6
    Sections = {"", "s"}
    Keys = {"k", "j"}
    Lower <- MCLower
    MaxLength = 40
    MaxOps = 2
    MaxLines = 3
INVARIANTS
    NoDangling
    
    RoundTrip
PROPERTIES
    TypedAsSet
CHECK_DEADLOCK FALSE
