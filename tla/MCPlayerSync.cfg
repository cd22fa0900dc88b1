SPECIFICATION SyncSpec
CONSTANTS
    StartTick = 1
    MaxTick = 3
    Networks = {"perfect", "lossy"}
    MaxInFlight = 2
    Unknown = Unknown
INVARIANTS
    SyncTypeOK
    PredictionIsExact
PROPERTIES
    Settles
CHECK_DEADLOCK FALSE
