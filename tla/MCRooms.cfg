SPECIFICATION Spec
CONSTANTS
    PlayerIds = {1, 2, 3}
    MaxRooms = 2
    MaxJoins = 3
PROPERTIES
    HostIsStable
    StartedIsClosed
    RoomIdsNotReused
CHECK_DEADLOCK FALSE
