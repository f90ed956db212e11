SPECIFICATION RxSpec
CONSTANTS
    Size = 20
    Wrap = 1
    LinkBufSize = 4
    Lens = {2, 4}
    Conns = {1, 2}
    Counts = {5}
    Payload = 255
    MaxPackets = 4
INVARIANTS
    PacketsIntact
    MessageWhole
PROPERTIES
    CopiesWhatWasSent
    ReadsAreMessages
    ReaderIsWoken
CHECK_DEADLOCK FALSE
