SPECIFICATION Spec
CONSTANTS
    Conns = {c1, c2}
    None = None
    MaxRooms = 2
    Commands = {"create", "delete", "kick", "exit"}
    CloseWakesReader = FALSE
SYMMETRY Symmetry
INVARIANTS
    NoGhostPlayers
    OneRoomPerPlayer
    ServedIsRegistered
    StaleEntriesAreInert
    StartIsReal
    StoppedIsQuiet
PROPERTIES
    ChatStaysInRoom
CHECK_DEADLOCK FALSE
