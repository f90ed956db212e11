SPECIFICATION Spec
CONSTANTS
    DVR_BUFFER_SIZE = 4
    InitialSize = 2
    Sizes = {3, 5}
    Blocks = {1, 2, 3}
    MaxPacket = 2
    MaxCount = 2
    MaxCalls = 3
INVARIANTS
    AccessesAreSound
    RingHasReader
CHECK_DEADLOCK FALSE
