SPECIFICATION Spec
CONSTANTS
    MaxRx = 1
    MaxEvents = 3
INVARIANTS
    FollowsCam
PROPERTIES
    Settles
CHECK_DEADLOCK FALSE
