SPECIFICATION RosterSpec
CONSTANTS
    Me = Me
    Others = {Other}
    Networks = {"perfect", "lossy"}
    MaxUnread = 4
    MaxLossy = 3
INVARIANTS
    RosterTypeOK
    NoGhostShips
PROPERTIES
    ShipsVanishOnlyWhenGone
    DeathIsSeen
CHECK_DEADLOCK FALSE
