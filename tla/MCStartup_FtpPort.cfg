SPECIFICATION Spec
CONSTANTS
    Inis <- MCInis
    FallOff <- AnyResult
    Garbage <- AnyShort
    NotNumber = NotNumber
    SizeMod = 1000
    MaxFaults = 0
INVARIANT FtpPortAsConfigured
CHECK_DEADLOCK FALSE
