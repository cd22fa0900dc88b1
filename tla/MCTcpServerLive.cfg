SPECIFICATION Spec
CONSTANTS
    Conns = {c1, c2}
    None = None
    MaxRooms = 1
    Commands = {"kick", "exit"}
    CloseWakesReader = TRUE
PROPERTIES
    StopCompletes
    KickTakesEffect
CHECK_DEADLOCK FALSE
