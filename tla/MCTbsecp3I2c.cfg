SPECIFICATION Spec
CONSTANTS
    ReadMax = 1
    WriteMax = 2
    MaxLen = 3
    MaxMsgs = 2
    MaxCmds = 4
INVARIANTS
    OwnResult
    NoLostCompletion
    Framed
PROPERTIES
    XferEnds
CHECK_DEADLOCK FALSE
