SPECIFICATION Spec
CONSTANTS
    BossHP1 = 2
    BossHP2 = 3
    ShotDamage = 1
    ChargedDamage = 2
    BossTime = 1
    HardTime = 2
    Interval1 = 1
    Interval3 = 0
    MaxUpdates = 4
    MaxId = 3
    MaxGames = 2
INVARIANTS
    BossMatchesLevel
PROPERTIES
    FightAdvances
    BossesCome
CHECK_DEADLOCK FALSE
