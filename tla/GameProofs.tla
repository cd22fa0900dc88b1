----------------------------- MODULE GameProofs -----------------------------
(***************************************************************************)
(* The boss fight of Game.tla for any hit points, damages, times, numbers  *)
(* of entities and of games: types, the order of the fight, and that the   *)
(* boss maps tell the truth about the entities, also of a Game that took   *)
(* them over from a deleted one.                                           *)
(***************************************************************************)
EXTENDS Game, FiniteSetTheorems, TLAPS

\* There are finitely many entities, and time is left for the update under
\* way. Between games no update is under way.
Finite ==
    /\ IsFiniteSet(entities)
    /\ phase \in {"collide", "level"} => gameTime < MaxUpdates
    /\ status = "NONE" => phase = "idle"

Typing == TypeOK /\ Finite

LEMMA DamageTyped ==
    ASSUME IsFiniteSet(entities), NEW hits \in SUBSET entities
    PROVE  Damage(hits) \in Nat
<1> DEFINE Of(type) == {e \in hits : e.type = type}
<1>1. \A type : IsFiniteSet(Of(type))
    BY FS_Subset
<1>2. Cardinality(Of("shot")) \in Nat /\ Cardinality(Of("charged")) \in Nat
    BY <1>1, FS_CardinalityType
<1>3. \A a, b, m, n \in Nat : a * m + b * n \in Nat
    OBVIOUS
<1>4. QED
    BY <1>2, <1>3, HPAssumption DEF Damage

LEMMA InitTyping == Init => Typing
BY FS_EmptySet, TimeAssumption DEF Init, Typing, TypeOK, Finite

\* What a collision step comes to: some victims collide, the boss among them
\* exactly if the hits kill it.
Collision(hits, victims) ==
    LET dead == hits /= {} /\ bossHP - Damage(hits) <= 0
    IN  /\ CanHit(hits)
        /\ IF dead THEN Alive({"boss"}) \subseteq victims
                   ELSE Alive({"boss"}) \cap victims = {}
        /\ entities' = (entities \ victims) \cup Collided(victims)
        /\ bossHP' = bossHP - Damage(hits)
        /\ bossLevel' = IF dead THEN NextLevel(bossLevel) ELSE bossLevel
        /\ bossDeath' \in {bossDeath, gameTime}

LEMMA CollisionShape ==
    ASSUME HandleCollision
    PROVE  \E hits, victims \in SUBSET entities : Collision(hits, victims)
<1>1. PICK hits \in SUBSET Alive(Shots), minions \in SUBSET Alive(Minions) :
          \E spent \in SUBSET (Alive(Shots) \ hits),
             touched \in SUBSET (Alive(Minions \cup {"bossShot"}) \ minions) :
             LET dead == hits /= {} /\ bossHP - Damage(hits) <= 0
                 victims == hits \cup spent \cup minions \cup touched
                               \cup (IF dead THEN Alive({"boss"}) ELSE {})
             IN  /\ CanHit(hits)
                 /\ entities' = (entities \ victims) \cup Collided(victims)
                 /\ bossHP' = bossHP - Damage(hits)
                 /\ bossLevel' = IF dead THEN NextLevel(bossLevel)
                                         ELSE bossLevel
                 /\ bossDeath' = IF dead /\ bossLevel = 1 THEN gameTime
                                                          ELSE bossDeath
    BY DEF HandleCollision
<1> DEFINE dead == hits /= {} /\ bossHP - Damage(hits) <= 0
<1>2. PICK spent \in SUBSET Alive(Shots),
           touched \in SUBSET Alive(Minions \cup {"bossShot"}) :
          LET victims == hits \cup spent \cup minions \cup touched
                            \cup (IF dead THEN Alive({"boss"}) ELSE {})
          IN  /\ CanHit(hits)
              /\ entities' = (entities \ victims) \cup Collided(victims)
              /\ bossHP' = bossHP - Damage(hits)
              /\ bossLevel' = IF dead THEN NextLevel(bossLevel) ELSE bossLevel
              /\ bossDeath' = IF dead /\ bossLevel = 1 THEN gameTime
                                                       ELSE bossDeath
    BY <1>1
<1> DEFINE victims == hits \cup spent \cup minions \cup touched
                         \cup (IF dead THEN Alive({"boss"}) ELSE {})
<1>3. victims \in SUBSET entities /\ hits \in SUBSET entities
    BY DEF Alive
<1>4. IF dead THEN Alive({"boss"}) \subseteq victims
              ELSE Alive({"boss"}) \cap victims = {}
    BY DEF Alive, Shots, Minions
<1>5. Collision(hits, victims)
    BY <1>2, <1>4 DEF Collision
<1>6. QED
    BY <1>3, <1>5

\* The mark that a collision leaves.
LEMMA CollidedTyped ==
    ASSUME Typing, NEW victims \in SUBSET entities
    PROVE  /\ IsFiniteSet(Collided(victims))
           /\ Collided(victims) \subseteq
                  [id : Nat \ {0}, type : Types, collided : {TRUE}]
<1> DEFINE Mark(e) == [e EXCEPT !.collided = TRUE]
           f == [e \in victims |-> Mark(e)]
<1>1. Collided(victims) = {Mark(e) : e \in victims}
    BY DEF Collided
<1>2. IsFiniteSet(victims)
    BY FS_Subset DEF Typing, Finite
<1>3. \A e \in victims :
          Mark(e) \in [id : Nat \ {0}, type : Types, collided : {TRUE}]
    <2>1. \A e \in [id : Nat \ {0}, type : Types, collided : BOOLEAN] :
              Mark(e) \in [id : Nat \ {0}, type : Types, collided : {TRUE}]
        OBVIOUS
    <2> HIDE DEF Mark
    <2>2. QED
        BY <2>1 DEF Typing, TypeOK
<1> HIDE DEF Mark
<1>4. f \in Surjection(victims, {Mark(e) : e \in victims})
    BY DEF Surjection
<1>5. QED
    BY <1>1, <1>2, <1>3, <1>4, FS_Surjection

LEMMA CollisionTyped ==
    ASSUME Typing, HandleCollision
    PROVE  Typing'
<1>1. PICK hits \in SUBSET entities, victims \in SUBSET entities :
          Collision(hits, victims)
    BY CollisionShape
<1>2. Damage(hits) \in Nat
    BY DamageTyped DEF Typing, Finite
<1>3. entities' = (entities \ victims) \cup Collided(victims)
    BY <1>1 DEF Collision
<1>4. IsFiniteSet(entities')
    BY <1>3, CollidedTyped, FS_Subset, FS_Union DEF Typing, Finite
<1>5. entities' \in SUBSET [id : Nat \ {0}, type : Types, collided : BOOLEAN]
    BY <1>3, CollidedTyped DEF Typing, TypeOK
<1>6. /\ bossHP' = bossHP - Damage(hits)
      /\ bossLevel' \in {bossLevel, NextLevel(bossLevel)}
      /\ bossDeath' \in {bossDeath, gameTime}
    BY <1>1 DEF Collision
<1>7. Finite'
    BY <1>4 DEF HandleCollision, Goto, Typing, Finite
<1>8. TypeOK'
    BY <1>2, <1>5, <1>6 DEF HandleCollision, Goto, Typing, TypeOK, NextLevel
<1>9. QED
    BY <1>7, <1>8 DEF Typing

\* A new entity.
LEMMA EntityTyped ==
    ASSUME NEW i \in Nat \ {0}, NEW type \in Types
    PROVE  Entity(i, type)
               \in [id : Nat \ {0}, type : Types, collided : BOOLEAN]
BY DEF Entity

LEMMA TypingStep == Typing /\ [Next]_vars => Typing'
<1> SUFFICES ASSUME Typing, [Next]_vars PROVE Typing'
    OBVIOUS
<1> USE TimeAssumption, HPAssumption
<1>1. CASE Construct
    BY <1>1, FS_EmptySet DEF Construct, bossVars, Typing, TypeOK, Finite
<1>2. CASE Start
    BY <1>2 DEF Start, bossVars, Typing, TypeOK, Finite
<1>3. CASE Delete
    BY <1>3, FS_EmptySet DEF Delete, bossVars, Typing, TypeOK, Finite
<1>4. ASSUME NEW type \in Shots, CreatePlayerShot(type)
      PROVE  Typing'
    <2>1. Entity(nextEntityId, type)
              \in [id : Nat \ {0}, type : Types, collided : BOOLEAN]
        BY EntityTyped DEF Typing, TypeOK, Types
    <2>2. IsFiniteSet(entities')
        BY <1>4, FS_AddElement DEF CreatePlayerShot, Typing, Finite
    <2>3. QED
        BY <1>4, <2>1, <2>2
           DEF CreatePlayerShot, bossVars, Typing, TypeOK, Finite
<1>5. CASE UpdateEntities
    <2>1. entities' \in SUBSET entities
        BY <1>5 DEF UpdateEntities
    <2>2. IsFiniteSet(entities')
        BY <2>1, FS_Subset DEF Typing, Finite
    <2>3. QED
        BY <1>5, <2>1, <2>2
           DEF UpdateEntities, Goto, bossVars, Typing, TypeOK, Finite
<1>6. CASE HandleCollision
    BY <1>6, CollisionTyped
<1>7. CASE UpdateGameLevel
    BY <1>7 DEF UpdateGameLevel, Goto, bossVars, Typing, TypeOK, Finite
<1>8. CASE SpawnBoss
    <2>1. Entity(nextEntityId, "boss")
              \in [id : Nat \ {0}, type : Types, collided : BOOLEAN]
        BY EntityTyped DEF Typing, TypeOK, Types
    <2>2. /\ entities' \in {entities,
                            entities \cup {Entity(nextEntityId, "boss")}}
          /\ nextEntityId' \in {nextEntityId, nextEntityId + 1}
          /\ bossLevel' \in {bossLevel, 1, 3}
          /\ bossHP' \in {bossHP, BossHP1, BossHP2}
        BY <1>8 DEF SpawnBoss, Comes
    <2>3. IsFiniteSet(entities')
        BY <2>2, FS_AddElement DEF Typing, Finite
    <2>4. QED
        BY <1>8, <2>1, <2>2, <2>3
           DEF SpawnBoss, Goto, Typing, TypeOK, Finite
<1>9. CASE BossShoot
    <2> DEFINE new == nextEntityId ..
                          nextEntityId + (IF bossLevel = 3 THEN 2 ELSE 0)
               shots == {Entity(i, "bossShot") : i \in new}
               f == [i \in new |-> Entity(i, "bossShot")]
    <2>1. IsFiniteSet(new) /\ Cardinality(new) \in Nat
          /\ new \subseteq Nat \ {0}
        BY FS_Interval, FS_CardinalityType DEF Typing, TypeOK
    <2>2. shots \subseteq [id : Nat \ {0}, type : Types, collided : BOOLEAN]
        BY <2>1, EntityTyped DEF Types
    <2>3. /\ entities' \in {entities, entities \cup shots}
          /\ nextEntityId' \in {nextEntityId, nextEntityId + Cardinality(new)}
          /\ lastBossShoot' \in {lastBossShoot, gameTime}
        BY <1>9 DEF BossShoot
    <2> HIDE DEF new
    <2>4. f \in Surjection(new, shots)
        BY DEF Surjection
    <2> HIDE DEF f, shots
    <2>5. IsFiniteSet(entities')
        <3>1. IsFiniteSet(shots)
            BY <2>1, <2>4, FS_Surjection
        <3>2. IsFiniteSet(entities) /\ IsFiniteSet(entities \cup shots)
            BY <3>1, FS_Union DEF Typing, Finite
        <3>3. QED
            BY <2>3, <3>2
    <2>6. QED
        BY <1>9, <2>1, <2>2, <2>3, <2>5
           DEF BossShoot, Goto, Typing, TypeOK, Finite
<1>10. CASE CreateEnemy
    <2>1. PICK type \in Minions :
              \/ /\ entities' = entities \cup {Entity(nextEntityId, type)}
                 /\ nextEntityId' = nextEntityId + 1
              \/ UNCHANGED <<entities, nextEntityId>>
        BY <1>10 DEF CreateEnemy, Minions
    <2>2. Entity(nextEntityId, type)
              \in [id : Nat \ {0}, type : Types, collided : BOOLEAN]
        BY EntityTyped DEF Typing, TypeOK, Types
    <2>3. IsFiniteSet(entities')
        BY <2>1, FS_AddElement DEF Typing, Finite
    <2>4. QED
        BY <1>10, <2>1, <2>2, <2>3
           DEF CreateEnemy, Goto, bossVars, Typing, TypeOK, Finite
<1>11. CASE UNCHANGED vars
    BY <1>11 DEF vars, gameVars, bossVars, Typing, TypeOK, Finite
<1>12. QED
    BY <1>1, <1>2, <1>3, <1>4, <1>5, <1>6, <1>7, <1>8, <1>9, <1>10, <1>11
       DEF Next, Update

LEMMA TypingInvariant == Spec => []Typing
BY InitTyping, TypingStep, PTL DEF Spec

\* Every variable keeps its type, in whatever order shots and phases come.
THEOREM TypeCorrect == Spec => []TypeOK
<1>1. Typing => TypeOK
    BY DEF Typing
<1>2. QED
    BY <1>1, TypingInvariant, PTL

-----------------------------------------------------------------------------
(* The fight.                                                              *)

\* The level goes up by one when a boss comes and when one is killed, and no
\* other step of a Game changes it.
LEMMA LevelStep ==
    ASSUME Typing, [Next]_vars, status /= "NONE", status' /= "NONE"
    PROVE  bossLevel' \in {bossLevel, bossLevel + 1}
<1>1. CASE HandleCollision
    <2>1. PICK hits \in SUBSET entities, victims \in SUBSET entities :
              Collision(hits, victims)
        BY <1>1, CollisionShape
    <2>2. bossLevel' \in {bossLevel, NextLevel(bossLevel)}
        BY <2>1 DEF Collision
    <2>3. QED
        BY <2>2 DEF NextLevel, Typing, TypeOK
<1>2. CASE SpawnBoss
    BY <1>2 DEF SpawnBoss, Boss1Comes, Boss2Comes, Comes
<1>3. CASE ~HandleCollision /\ ~SpawnBoss
    BY <1>3 DEF Next, Update, Construct, Start, Delete, CreatePlayerShot,
       UpdateEntities, UpdateGameLevel, BossShoot, CreateEnemy, bossVars, vars
<1>4. QED
    BY <1>1, <1>2, <1>3

\* In the life of a Game the fight only advances, one level at a time, also
\* for one that inherited its level.
THEOREM FightIsOrdered == Spec => FightAdvances
<1>1. Typing /\ [Next]_vars
        => [status /= "NONE" /\ status' /= "NONE" =>
              bossLevel' \in {bossLevel, bossLevel + 1}]_vars
    BY LevelStep
<1>2. QED
    BY <1>1, TypingInvariant, PTL DEF Spec, FightAdvances

\* A Game is never behind the level it found.
Ahead == status /= "NONE" => inherited <= bossLevel

LEMMA AheadStep ==
    ASSUME Typing, Ahead, [Next]_vars
    PROVE  Ahead'
<1>1. CASE Construct
    BY <1>1, TypingStep DEF Construct, Ahead, Typing, TypeOK
<1>2. CASE ~Construct /\ status /= "NONE" /\ status' /= "NONE"
    <2>1. inherited' = inherited
        BY <1>2 DEF Next, Update, Start, Delete, CreatePlayerShot,
           UpdateEntities, HandleCollision, UpdateGameLevel, SpawnBoss,
           BossShoot, CreateEnemy, vars
    <2>2. QED
        BY <1>2, <2>1, LevelStep DEF Ahead, Typing, TypeOK
<1>3. CASE ~Construct /\ status = "NONE"
    BY <1>3 DEF Next, Update, Start, Delete, CreatePlayerShot,
       UpdateEntities, HandleCollision, UpdateGameLevel, SpawnBoss,
       BossShoot, CreateEnemy, vars, gameVars, bossVars, Ahead, Goto,
       Typing, Finite
<1>4. QED
    BY <1>1, <1>2, <1>3 DEF Ahead

\* The living bosses are those there were, where nothing else happens to the
\* boss maps.
LEMMA SameBosses ==
    ASSUME BossMatchesLevel, status' = status,
           UNCHANGED <<bossLevel, bossHP, inherited>>, Alive({"boss"})' = Alive({"boss"})
    PROVE  BossMatchesLevel'
<1>1. Alive({"boss"})' \subseteq entities'
    BY DEF Alive
<1>2. QED
    BY <1>1 DEF BossMatchesLevel, MaxHP

\* Hits that do not kill leave the boss alive with fewer hit points; hits
\* that kill leave none alive. In both cases there was a boss to hit.
LEMMA CollisionKeepsMatch ==
    ASSUME Typing, BossMatchesLevel, HandleCollision
    PROVE  BossMatchesLevel'
<1>1. PICK hits \in SUBSET entities, victims \in SUBSET entities :
          Collision(hits, victims)
    BY CollisionShape
<1> DEFINE dead == hits /= {} /\ bossHP - Damage(hits) <= 0
<1>2. Damage(hits) \in Nat /\ bossHP \in Int
    BY DamageTyped DEF Typing, TypeOK, Finite
<1>3. status' = status /\ inherited' = inherited
    BY DEF HandleCollision
<1>4. Alive({"boss"})' = IF dead THEN {} ELSE Alive({"boss"})
    <2>1. \A e \in Collided(victims) : e.collided = TRUE
        BY CollidedTyped
    <2>2. Alive({"boss"})' = Alive({"boss"}) \ victims
        BY <1>1, <2>1 DEF Collision, Alive
    <2>3. QED
        BY <1>1, <2>2 DEF Collision
<1>5. hits = {} => Damage(hits) = 0
    BY FS_EmptySet, HPAssumption DEF Damage
<1>6. hits /= {} => Alive({"boss"}) /= {}
    BY <1>1 DEF Collision, CanHit
<1> SUFFICES ASSUME status /= "NONE"
             PROVE  BossMatchesLevel'
    BY <1>3 DEF BossMatchesLevel
<1>7. CASE dead
    <2>1. bossLevel \in {1, 3}
        BY <1>6, <1>7 DEF BossMatchesLevel
    <2>2. bossLevel' \in {2, 4}
        BY <1>1, <1>7, <2>1 DEF Collision, NextLevel
    <2>3. QED
        BY <1>4, <1>7, <2>2 DEF BossMatchesLevel
<1>8. CASE ~dead
    <2>1. bossLevel' = bossLevel /\ bossHP' = bossHP - Damage(hits)
        BY <1>1, <1>8 DEF Collision
    <2>2. Alive({"boss"})' = Alive({"boss"})
        BY <1>4, <1>8
    <2>3. CASE hits = {}
        <3>1. bossHP' = bossHP
            BY <1>2, <1>5, <2>1, <2>3
        <3>2. QED
            BY <1>3, <2>1, <2>2, <3>1, SameBosses
    <2>4. CASE hits /= {}
        <3>1. bossLevel \in {1, 3} /\ bossHP \in 1 .. MaxHP(bossLevel)
            BY <1>6, <2>4 DEF BossMatchesLevel
        <3>2. MaxHP(bossLevel) \in Nat /\ MaxHP(bossLevel)' = MaxHP(bossLevel)
            BY <2>1, HPAssumption DEF MaxHP
        <3>3. bossHP - Damage(hits) \in 1 .. MaxHP(bossLevel)
            BY <1>2, <1>8, <2>4, <3>1, <3>2
        <3>4. Alive({"boss"})' \subseteq entities'
            BY DEF Alive
        <3>5. QED
            BY <1>3, <2>1, <2>2, <3>1, <3>2, <3>3, <3>4 DEF BossMatchesLevel
    <2>5. QED
        BY <2>3, <2>4
<1>9. QED
    BY <1>7, <1>8

\* A boss comes only when none is alive, and with all its hit points.
LEMMA SpawnKeepsMatch ==
    ASSUME Typing, Ahead, BossMatchesLevel, SpawnBoss
    PROVE  BossMatchesLevel'
<1>1. status' = status /\ inherited' = inherited
    BY DEF SpawnBoss
<1> DEFINE new == Entity(nextEntityId, "boss")
<1>2. ASSUME status /= "NONE", bossLevel \in {0, 2},
             entities' = entities \cup {new}
      PROVE  Alive({"boss"})' = {new}
    <2>1. Alive({"boss"}) = {}
        BY <1>2 DEF BossMatchesLevel
    <2>2. QED
        BY <1>2, <2>1 DEF Alive, Entity
<1>3. CASE Boss1Comes /\ Comes(1, BossHP1)
    BY <1>1, <1>2, <1>3, HPAssumption
       DEF Boss1Comes, Comes, BossMatchesLevel, MaxHP, Ahead, Typing, TypeOK
<1>4. CASE Boss2Comes /\ Comes(3, BossHP2)
    BY <1>1, <1>2, <1>4, HPAssumption
       DEF Boss2Comes, Comes, BossMatchesLevel, MaxHP, Ahead, Typing, TypeOK
<1>5. CASE UNCHANGED <<bossLevel, bossHP, entities, nextEntityId>>
    BY <1>1, <1>5, SameBosses DEF Alive
<1>6. QED
    BY <1>3, <1>4, <1>5 DEF SpawnBoss

LEMMA MatchStep ==
    ASSUME Typing, Ahead, BossMatchesLevel, [Next]_vars
    PROVE  BossMatchesLevel'
<1>1. CASE Construct
    BY <1>1 DEF Construct, BossMatchesLevel, Alive
<1>2. CASE Start
    BY <1>2 DEF Start, bossVars, BossMatchesLevel, Alive, MaxHP
<1>3. CASE Delete
    BY <1>3 DEF Delete, BossMatchesLevel
<1>4. ASSUME NEW type \in Shots, CreatePlayerShot(type)
      PROVE  BossMatchesLevel'
    <2>1. Alive({"boss"})' = Alive({"boss"})
        BY <1>4 DEF CreatePlayerShot, Alive, Entity, Shots
    <2>2. QED
        BY <1>4, <2>1, SameBosses DEF CreatePlayerShot, bossVars
<1>5. CASE UpdateEntities
    <2>1. Alive({"boss"})' = Alive({"boss"})
        BY <1>5 DEF UpdateEntities, Alive
    <2>2. QED
        BY <1>5, <2>1, SameBosses DEF UpdateEntities, bossVars
<1>6. CASE HandleCollision
    BY <1>6, CollisionKeepsMatch
<1>7. CASE UpdateGameLevel
    BY <1>7, SameBosses DEF UpdateGameLevel, bossVars, Alive
<1>8. CASE SpawnBoss
    BY <1>8, SpawnKeepsMatch
<1>9. CASE BossShoot
    <2>1. Alive({"boss"})' = Alive({"boss"})
        BY <1>9 DEF BossShoot, Alive, Entity
    <2>2. QED
        BY <1>9, <2>1, SameBosses DEF BossShoot
<1>10. CASE CreateEnemy
    <2>1. Alive({"boss"})' = Alive({"boss"})
        BY <1>10 DEF CreateEnemy, Alive, Entity
    <2>2. QED
        BY <1>10, <2>1, SameBosses DEF CreateEnemy, bossVars
<1>11. CASE UNCHANGED vars
    BY <1>11, SameBosses DEF vars, gameVars, bossVars, Alive
<1>12. QED
    BY <1>1, <1>2, <1>3, <1>4, <1>5, <1>6, <1>7, <1>8, <1>9, <1>10, <1>11
       DEF Next, Update

\* The level tells the truth about the entities, for any hit points and
\* damages and any number of games, at whatever level each found the maps:
\* a boss that was inherited is not there and none ever comes.
THEOREM BossesMatch == Spec => []BossMatchesLevel
<1>1. Init => Ahead /\ BossMatchesLevel
    BY DEF Init, Ahead, BossMatchesLevel
<1>2. Typing /\ Ahead /\ BossMatchesLevel /\ [Next]_vars
        => Ahead' /\ BossMatchesLevel'
    BY AheadStep, MatchStep
<1>3. QED
    BY <1>1, <1>2, TypingInvariant, PTL DEF Spec
=============================================================================
