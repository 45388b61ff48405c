SPECIFICATION Spec
CONSTANTS
    Peers <- MCPeers
    SizeMod <- MCSizeMod
INVARIANT NothingLost
CHECK_DEADLOCK FALSE
