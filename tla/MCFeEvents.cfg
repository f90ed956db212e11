SPECIFICATION EventsSpec
CONSTANTS
    MAX_EVENT = 3
    MaxStatus = 5
    MaxUserCalls = 4
INVARIANTS
    QueueInOrder
    SleepsOnEmpty
PROPERTIES
    StatusIsReported
CHECK_DEADLOCK FALSE
