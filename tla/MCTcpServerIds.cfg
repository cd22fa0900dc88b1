SPECIFICATION Spec
CONSTANTS
    Conns = {c1, c2}
    None = None
    MaxRooms = 1
    Commands = {}
    CloseWakesReader = FALSE
SYMMETRY Symmetry
INVARIANT
    UniquePlayerIds
CHECK_DEADLOCK FALSE
