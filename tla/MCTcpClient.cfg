SPECIFICATION Spec
CONSTANTS
    Clients = {1, 2}
    MaxRooms = 1
    MaxSent = 2
    Talkers = {1}
    MaxSaid = 2
    Fragile = {2}
    MaxFaults = 1
    MaxLoops = 2
INVARIANTS
    OnlyTwoMisreads
    OwedOnce
    RequestsFit
    ScreenMatchesSession
    ChatInOrder
CHECK_DEADLOCK FALSE
