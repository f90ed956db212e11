SPECIFICATION Spec
CONSTANTS
    Sizes <- MCSizes
    MaxSize = 4
    MaxPacket = 3
    MaxCount = 4
    MaxBytes = 6
INVARIANTS
    UnreadIntact
    ReadIsContiguous
PROPERTIES
    StreamSpec
    SleeperIsWoken
CHECK_DEADLOCK FALSE
