-------------------------------- MODULE Game --------------------------------
(***************************************************************************)
(* The entities and the boss fight of one room (Src/Server/Game.cpp).      *)
(*                                                                         *)
(* Game::update runs in the game loop of ServerManager, which holds        *)
(* ServerManager::_serverMutex throughout: a room is created, started or   *)
(* deleted between two updates.  Its phases each lock the entities and     *)
(* release them, so that a shot of a player, which the UDP thread handles, *)
(* comes between any two.                                                  *)
(*                                                                         *)
(* The boss's level and hit points are not in the Game but in static maps  *)
(* keyed by its address, which nobody erases.  The module follows a room   *)
(* that is deleted and made again: the new Game is built at another        *)
(* address, or at the old one and takes over the fight where it stood.     *)
(*                                                                         *)
(* Positions are left out: what has left the screen, and which of the      *)
(* possible collisions happened, is any choice.  _entities is a vector     *)
(* ordered by id, represented by the set of its elements.  Times are       *)
(* numbers of updates.                                                     *)
(***************************************************************************)
EXTENDS Integers, FiniteSets

CONSTANTS
    BossHP1, BossHP2,       \* hit points of the two bosses (1000, 2000)
    ShotDamage, ChargedDamage,          \* damage to a boss (10, 50)
    BossTime,               \* when the first boss comes (10 s)
    HardTime,               \* when the harder enemies come (30 s)
    Interval1, Interval3,   \* between shots of the bosses (1.5 s, 1 s)
    MaxUpdates,             \* bound: updates of a game
    MaxId,                  \* bound: after this id, no more shots or enemies
    MaxGames                \* bound: games built

ASSUME HPAssumption ==
    /\ BossHP1 \in Nat \ {0} /\ BossHP2 \in Nat \ {0}
    /\ ShotDamage \in Nat \ {0} /\ ChargedDamage \in Nat \ {0}
ASSUME TimeAssumption ==
    /\ BossTime \in Nat /\ HardTime \in Nat
    /\ Interval1 \in Nat /\ Interval3 \in Nat
    /\ MaxUpdates \in Nat /\ MaxId \in Nat /\ MaxGames \in Nat

VARIABLES
    games,          \* Games built so far
    status,         \* _status, or "NONE" while there is no Game
    entities,       \* _entities: id, type, is_collide
    nextEntityId,   \* _nextEntityId
    gameTime,       \* _gameTime
    phase,          \* where update is
    bossLevel, bossHP, lastBossShoot, bossDeath,    \* the static maps
    inherited       \* history: the level this Game found when it was built

gameVars == <<games, status, entities, nextEntityId, gameTime, phase>>
bossVars == <<bossLevel, bossHP, lastBossShoot, bossDeath>>
vars == <<gameVars, bossVars, inherited>>

Shots   == {"shot", "charged"}              \* types 1 and 4
Minions == {"enemy", "hardEnemy"}           \* types 2 and 3
Types   == Shots \cup Minions \cup {"boss", "bossShot"}     \* 10 and 11

TypeOK ==
    /\ games \in 0 .. MaxGames
    /\ status \in {"NONE", "LOBBY", "PLAYING"}
    /\ entities \in SUBSET [id : Nat \ {0}, type : Types, collided : BOOLEAN]
    /\ nextEntityId \in Nat \ {0}
    /\ gameTime \in 0 .. MaxUpdates
    /\ phase \in {"idle", "collide", "level", "spawn", "shoot", "enemy"}
    /\ bossLevel \in 0 .. 4
    /\ bossHP \in Int
    /\ lastBossShoot \in 0 .. MaxUpdates
    /\ bossDeath \in 0 .. MaxUpdates
    /\ inherited \in 0 .. 4

\* The entities of these types that have not collided yet.
Alive(types) == {e \in entities : e.type \in types /\ ~e.collided}

\* A new element of _entities.
Entity(i, type) == [id |-> i, type |-> type, collided |-> FALSE]

Init ==
    /\ games = 0
    /\ status = "NONE"
    /\ entities = {}
    /\ nextEntityId = 1
    /\ gameTime = 0
    /\ phase = "idle"
    /\ bossLevel = 0 /\ bossHP = 0 /\ lastBossShoot = 0 /\ bossDeath = 0
    /\ inherited = 0

-----------------------------------------------------------------------------
(* The room, between two updates.                                          *)

\* A new Game. At an address never used before, operator[] of the static
\* maps makes zeros; at the old one they are as they were left.
Construct ==
    /\ status = "NONE" /\ games < MaxGames
    /\ games' = games + 1
    /\ status' = "LOBBY"
    /\ entities' = {} /\ nextEntityId' = 1 /\ gameTime' = 0
    /\ \/ UNCHANGED bossVars
       \/ /\ bossLevel' = 0 /\ bossHP' = 0
          /\ lastBossShoot' = 0 /\ bossDeath' = 0
    /\ inherited' = bossLevel'
    /\ UNCHANGED phase

\* The host starts the game.
Start ==
    /\ status = "LOBBY"
    /\ status' = "PLAYING"
    /\ UNCHANGED <<games, inherited, entities, nextEntityId, gameTime, phase,
                   bossVars>>

\* The room is deleted, and with it the Game.
Delete ==
    /\ status /= "NONE" /\ phase = "idle"
    /\ status' = "NONE"
    /\ entities' = {}
    /\ UNCHANGED <<games, inherited, nextEntityId, gameTime, phase, bossVars>>

\* A PLAYER_INPUT with a shot, between any two phases of update.
CreatePlayerShot(type) ==
    /\ status = "PLAYING" /\ nextEntityId <= MaxId
    /\ entities' = entities \cup {Entity(nextEntityId, type)}
    /\ nextEntityId' = nextEntityId + 1
    /\ UNCHANGED <<games, inherited, status, gameTime, phase, bossVars>>

-----------------------------------------------------------------------------
(* Game::update, phase by phase.                                           *)

Goto(from, to) == phase = from /\ phase' = to

\* What has collided is erased, and what left the screen; the boss stays
\* between its borders.
UpdateEntities ==
    /\ status = "PLAYING" /\ gameTime < MaxUpdates
    /\ Goto("idle", "collide")
    /\ \E gone \in SUBSET {e \in entities : e.type /= "boss" /\ ~e.collided} :
          entities' = {e \in entities \ gone : ~e.collided}
    /\ UNCHANGED <<games, inherited, status, nextEntityId, gameTime, bossVars>>

Damage(hits) ==
    ShotDamage * Cardinality({e \in hits : e.type = "shot"})
        + ChargedDamage * Cardinality({e \in hits : e.type = "charged"})

Last(hits) == CHOOSE e \in hits : \A f \in hits : f.id <= e.id

\* These shots can all hit the boss: a dead one is hit no more.
CanHit(hits) ==
    hits /= {} => /\ Alive({"boss"}) /= {}
                  /\ bossHP - Damage(hits \ {Last(hits)}) > 0

Collided(some) == {[e EXCEPT !.collided = TRUE] : e \in some}

\* Mutant: killing the second boss sets the first one's level again.
NextLevelCycles(level) ==
    IF level = 1 THEN 2 ELSE IF level = 3 THEN 2 ELSE level

\* The level after the death of the boss.
NextLevel(level) == IF level = 1 THEN 2 ELSE IF level = 3 THEN 4 ELSE level

\* Each shot hits at most one thing: "hits" hit the boss, "spent" one minion
\* each. What touches a player collides last.
HandleCollision ==
    /\ Goto("collide", "level")
    /\ \E hits \in SUBSET Alive(Shots), minions \in SUBSET Alive(Minions) :
       \E spent \in SUBSET (Alive(Shots) \ hits),
          touched \in SUBSET (Alive(Minions \cup {"bossShot"}) \ minions) :
          LET dead == hits /= {} /\ bossHP - Damage(hits) <= 0
              victims == hits \cup spent \cup minions \cup touched
                            \cup (IF dead THEN Alive({"boss"}) ELSE {})
          IN  /\ CanHit(hits)
              /\ Cardinality(spent) = Cardinality(minions)
              /\ entities' = (entities \ victims) \cup Collided(victims)
              /\ bossHP' = bossHP - Damage(hits)
              /\ bossLevel' = IF dead THEN NextLevel(bossLevel) ELSE bossLevel
              /\ bossDeath' = IF dead /\ bossLevel = 1 THEN gameTime
                                                       ELSE bossDeath
    /\ UNCHANGED <<games, inherited, status, nextEntityId, gameTime,
                   lastBossShoot>>

\* _gameTime advances; the new velocities are left out.
UpdateGameLevel ==
    /\ Goto("level", "spawn")
    /\ gameTime' = gameTime + 1
    /\ UNCHANGED <<games, inherited, status, entities, nextEntityId, bossVars>>

\* Mutant: the level is not raised when the boss comes.
ComesAgain(level, hp) ==
    /\ bossHP' = hp
    /\ entities' = entities \cup {Entity(nextEntityId, "boss")}
    /\ nextEntityId' = nextEntityId + 1
    /\ UNCHANGED bossLevel

Comes(level, hp) ==
    /\ bossLevel' = level
    /\ bossHP' = hp
    /\ entities' = entities \cup {Entity(nextEntityId, "boss")}
    /\ nextEntityId' = nextEntityId + 1

\* Mutant: the times are compared the wrong way round.
Boss2ComesBefore == bossLevel = 2 /\ bossDeath + 0 > gameTime

\* When each boss comes. What is added to the second one's time is zero.
Boss1Comes == bossLevel = 0 /\ gameTime > BossTime
Boss2Comes == bossLevel = 2 /\ gameTime > bossDeath + 0

SpawnBoss ==
    /\ Goto("spawn", "shoot")
    /\ \/ Boss1Comes /\ Comes(1, BossHP1)
       \/ Boss2Comes /\ Comes(3, BossHP2)
       \/ /\ ~Boss1Comes /\ ~Boss2Comes
          /\ UNCHANGED <<bossLevel, bossHP, entities, nextEntityId>>
    /\ UNCHANGED <<games, inherited, status, gameTime, lastBossShoot,
                   bossDeath>>

\* Any boss entity will do, also one that has just been killed.
BossFires ==
    /\ bossLevel \in {1, 3}
    /\ \E e \in entities : e.type = "boss"
    /\ gameTime - lastBossShoot > (IF bossLevel = 3 THEN Interval3
                                                    ELSE Interval1)

\* The second boss fires three shots.
BossShoot ==
    /\ Goto("shoot", "enemy")
    /\ IF BossFires
       THEN LET new == nextEntityId ..
                          nextEntityId + (IF bossLevel = 3 THEN 2 ELSE 0)
            IN  /\ entities' = entities \cup {Entity(i, "bossShot") : i \in new}
                /\ nextEntityId' = nextEntityId + Cardinality(new)
                /\ lastBossShoot' = gameTime
       ELSE UNCHANGED <<entities, nextEntityId, lastBossShoot>>
    /\ UNCHANGED <<games, inherited, status, gameTime, bossLevel, bossHP,
                   bossDeath>>

\* Every two seconds of another clock an enemy comes. The global state sync
\* that follows sends what the entities are (EntityView.tla).
CreateEnemy ==
    /\ Goto("enemy", "idle")
    /\ \/ /\ nextEntityId <= MaxId
          /\ entities' = entities \cup
                {Entity(nextEntityId, IF gameTime > HardTime THEN "hardEnemy"
                                                             ELSE "enemy")}
          /\ nextEntityId' = nextEntityId + 1
       \/ UNCHANGED <<entities, nextEntityId>>
    /\ UNCHANGED <<games, inherited, status, gameTime, bossVars>>

Update ==
    \/ UpdateEntities \/ HandleCollision \/ UpdateGameLevel
    \/ SpawnBoss \/ BossShoot \/ CreateEnemy

Next ==
    \/ Construct \/ Start \/ Delete
    \/ \E type \in Shots : CreatePlayerShot(type)
    \/ Update

\* The game loop never stops updating.
Spec == Init /\ [][Next]_vars /\ WF_vars(Update)

-----------------------------------------------------------------------------
(* Properties.                                                             *)

MaxHP(level) == IF level = 3 THEN BossHP2 ELSE BossHP1

\* The level in the static maps is the truth about the entities: one living
\* boss while it says there is one, with hit points left, and none
\* otherwise. Levels and entities change in different phases, under
\* different locks, with shots coming in between. The exception is a level
\* inherited from a deleted Game: its boss is gone, and as nothing can be
\* hit, none ever comes.
BossMatchesLevel ==
    status /= "NONE" =>
        IF bossLevel \in {1, 3} \ {inherited}
        THEN /\ \E e \in entities : Alive({"boss"}) = {e}
             /\ bossHP \in 1 .. MaxHP(bossLevel)
        ELSE Alive({"boss"}) = {}

\* In the life of a Game the fight only advances, one level at a time: no
\* boss is skipped, none comes twice, and a victory is final.
FightAdvances ==
    [][status /= "NONE" /\ status' /= "NONE" =>
          bossLevel' \in {bossLevel, bossLevel + 1}]_vars

\* A game that inherited no fight from a deleted one meets its first boss
\* once it is started; and in any game the second boss comes once the first
\* is dead; unless the room is deleted. (A game that inherited level 1, 3 or
\* 4 has no first boss: BossMatchesLevel.)
BossesCome ==
    /\ (status = "PLAYING" /\ gameTime = 0 /\ inherited = 0)
          ~> status = "NONE" \/ \E e \in entities : e.type = "boss"
    /\ (status = "PLAYING" /\ bossLevel = 2)
          ~> status = "NONE" \/ bossLevel = 3
=============================================================================
