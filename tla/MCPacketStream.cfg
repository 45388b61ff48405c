SPECIFICATION Spec
CONSTANTS
    Peers <- MCPeers
    SizeMod <- MCSizeMod
INVARIANTS
    TypeOK
    WholeFrames
    OnlySentStarts
    InOrderUnlessSplit
    DeliveredAsSent
PROPERTY FrontIsServed
CHECK_DEADLOCK FALSE
