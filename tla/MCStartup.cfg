SPECIFICATION Spec
CONSTANTS
    Inis <- MCInis
    FallOff <- AnyResult
    Garbage <- AnyShort
    NotNumber = NotNumber
    SizeMod = 1000
    MaxFaults = 3
INVARIANT ServesWithBackups
PROPERTY MountedIsOpened
CHECK_DEADLOCK FALSE
