SPECIFICATION Spec
CONSTANTS
    PacketSize = 6
    Payload = 6
    Counts = {3, 4, 6}
    Lens = {3, 5, 8}
    MaxSection = 8
    MaxPackets = 4
    MaxErrors = 1
INVARIANTS
    NeverTorn
    Lossless
    OnceInOrder
CHECK_DEADLOCK FALSE
