SPECIFICATION Spec
CONSTANTS
    N = 4
    Pre = 2
    MaxItems = 9
INVARIANTS
    DeliversStream
PROPERTIES
    Drains
CHECK_DEADLOCK FALSE
