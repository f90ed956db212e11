SPECIFICATION ExitSpec
CONSTANTS
    DemuxFiles = {x1, x2, x3}
    DvrFiles = {v1}
INVARIANTS
    OpenKeepsDevice
PROPERTIES
    ReleaseReturns
CHECK_DEADLOCK FALSE
