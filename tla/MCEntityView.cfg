SPECIFICATION ViewSpec
CONSTANTS
    MaxId = 3
    MaxPos = 1
    SyncMax = 2
    LocalIds = 3
    Networks = {"perfect", "lossy"}
    MaxQueued = 2
    Absent = Absent
INVARIANTS
    ViewTypeOK
    DrainedIsExact
PROPERTIES
    Converges
CHECK_DEADLOCK FALSE
