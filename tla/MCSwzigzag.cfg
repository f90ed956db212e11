SPECIFICATION Spec
CONSTANTS
    Frontends <- Kinds
    MaxCalls = 3
    MaxChanges = 2
    MaxErrors = 1
INVARIANTS
    FastScanIsOnce
PROPERTIES
    FastScanIsComplete
    FindsCarrier
