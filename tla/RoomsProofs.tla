----------------------------- MODULE RoomsProofs -----------------------------
(***************************************************************************)
(* The room table of Rooms.tla for any number of rooms, players and joins. *)
(* The first part finds the front of a player list, which is what makes    *)
(* getHostId a function of the list; the second proves the invariant; the  *)
(* third the action properties that rest on it.                            *)
(***************************************************************************)
EXTENDS Rooms, NaturalsInduction, WellFoundedInduction, TLAPS

\* A set of naturals that is not empty has a least element.
LEMMA LeastOf ==
    ASSUME NEW S \in SUBSET Nat, S /= {}
    PROVE  \E n \in S : \A m \in S : n <= m
<1> DEFINE R == {ss \in Nat \X Nat : ss[1] < ss[2]}
<1>1. IsWellFoundedOn(R, Nat)
    BY NatLessThanWellFounded DEF OpToRel
<1>2. PICK n \in S : \A m \in S : <<m, n>> \notin R
    BY <1>1, WFMin
<1>3. \A m \in S : ~(m < n)
    BY <1>2
<1>4. QED
    BY <1>3

\* Every list that is not empty has a front.
LEMMA FrontExists ==
    ASSUME NEW list \in SUBSET Entries, list /= {}
    PROVE  \E e \in list : IsFront(e, list)
<1> DEFINE S == {e.seat : e \in list}
<1>1. S \in SUBSET Nat /\ S /= {}
    BY DEF Entries
<1>2. PICK n \in S : \A m \in S : n <= m
    BY <1>1, LeastOf
<1>3. PICK e \in list : e.seat = n
    BY <1>2
<1>4. QED
    BY <1>2, <1>3 DEF IsFront

\* With distinct seats there is only one front, so that it is the host.
LEMMA HostIsFront ==
    ASSUME NEW list \in SUBSET Entries,
           \A e, f \in list : e.seat = f.seat => e = f,
           NEW e \in list, IsFront(e, list)
    PROVE  HostOf(list) = e.id
<1> DEFINE front == CHOOSE f \in list : IsFront(f, list)
<1>1. front \in list /\ IsFront(front, list)
    BY DEF IsFront
<1>2. e.seat \in Nat /\ front.seat \in Nat
    BY <1>1 DEF Entries
<1>3. e.seat = front.seat
    BY <1>1, <1>2 DEF IsFront
<1>4. front = e
    BY <1>1, <1>3
<1>5. QED
    BY <1>4 DEF HostOf

-----------------------------------------------------------------------------
\* A room that is not in the map has no players, and the ids that were not
\* given out are of no room. With the seats below joined this is inductive.
AbsentIsEmpty == \A r \in RoomIds : status[r] = "NONE" => players[r] = {}

FreshIsAbsent == \A r \in RoomIds : r >= nextRoom => status[r] = "NONE"

Inv == TypeOK /\ SeatsDistinct /\ AbsentIsEmpty /\ FreshIsAbsent

\* Taking entries off the lists keeps the invariant.
LEMMA ShrinkKeepsInv ==
    ASSUME Inv,
           players' \in [RoomIds -> SUBSET Entries],
           \A r \in RoomIds : players'[r] \subseteq players[r],
           UNCHANGED <<status, joined, nextRoom>>
    PROVE  Inv'
BY DEF Inv, TypeOK, SeatsDistinct, AbsentIsEmpty, FreshIsAbsent

\* Removing the entries of p from the list of room r.
LEMMA RemovalShrinks ==
    ASSUME TypeOK, NEW r \in RoomIds, NEW p,
           players' = [players EXCEPT ![r] = Without(@, p)]
    PROVE  /\ players' \in [RoomIds -> SUBSET Entries]
           /\ \A q \in RoomIds : players'[q] \subseteq players[q]
BY DEF TypeOK, Without

LEMMA InitInv == Init => Inv
BY MaxAssumption
   DEF Init, Inv, TypeOK, SeatsDistinct, AbsentIsEmpty, FreshIsAbsent

LEMMA CreateInv ==
    ASSUME Inv, OnCreateRoom
    PROVE  Inv'
<1>1. nextRoom \in RoomIds /\ status[nextRoom] = "NONE"
    BY MaxAssumption
       DEF Inv, TypeOK, FreshIsAbsent, OnCreateRoom, RoomIds
<1>2. TypeOK'
    BY <1>1 DEF Inv, TypeOK, OnCreateRoom
<1>3. SeatsDistinct' /\ AbsentIsEmpty'
    BY <1>1 DEF Inv, TypeOK, SeatsDistinct, AbsentIsEmpty, OnCreateRoom
<1>4. FreshIsAbsent'
    <2> SUFFICES ASSUME NEW r \in RoomIds, r >= nextRoom + 1
                 PROVE  status'[r] = "NONE"
        BY DEF FreshIsAbsent, OnCreateRoom
    <2>1. r /= nextRoom /\ r >= nextRoom
        BY DEF Inv, TypeOK, RoomIds
    <2>2. QED
        BY <2>1 DEF Inv, TypeOK, FreshIsAbsent, OnCreateRoom
<1>5. QED
    BY <1>2, <1>3, <1>4 DEF Inv

LEMMA JoinInv ==
    ASSUME Inv, NEW r \in RoomIds, NEW p \in PlayerIds, OnJoinRoom(r, p)
    PROVE  Inv'
<1> DEFINE new == [id |-> p, seat |-> joined[r]]
<1>1. /\ players' = [players EXCEPT ![r] = @ \cup {new}]
      /\ joined' = [joined EXCEPT ![r] = @ + 1]
      /\ UNCHANGED <<status, nextRoom>>
      /\ status[r] = "LOBBY"
    BY DEF OnJoinRoom, CanJoin
<1>2. joined[r] \in Nat /\ new \in Entries
    BY DEF Inv, TypeOK, Entries
<1>3. TypeOK'
    BY <1>1, <1>2 DEF Inv, TypeOK
<1>4. SeatsDistinct'
    <2> SUFFICES ASSUME NEW q \in RoomIds,
                        NEW e \in players'[q], NEW f \in players'[q]
                 PROVE  /\ e.seat < joined'[q]
                        /\ e.seat = f.seat => e = f
        BY DEF SeatsDistinct
    <2>1. CASE q /= r
        BY <1>1, <2>1 DEF Inv, TypeOK, SeatsDistinct
    <2>2. CASE q = r
        <3>1. /\ e \in players[r] \cup {new} /\ f \in players[r] \cup {new}
              /\ joined'[q] = joined[r] + 1
            BY <1>1, <2>2 DEF Inv, TypeOK
        <3>2. \A g \in players[r] : g.seat \in Nat /\ g.seat < joined[r]
            BY DEF Inv, TypeOK, SeatsDistinct, Entries
        <3>3. new.seat = joined[r]
            OBVIOUS
        <3>4. e.seat < joined'[q]
            BY <1>2, <3>1, <3>2, <3>3
        <3>5. ASSUME e.seat = f.seat PROVE e = f
            BY <1>2, <3>1, <3>2, <3>3, <3>5 DEF Inv, SeatsDistinct
        <3>6. QED
            BY <3>4, <3>5
    <2>3. QED
        BY <2>1, <2>2
<1>5. AbsentIsEmpty' /\ FreshIsAbsent'
    BY <1>1 DEF Inv, TypeOK, AbsentIsEmpty, FreshIsAbsent
<1>6. QED
    BY <1>3, <1>4, <1>5 DEF Inv

LEMMA StartInv ==
    ASSUME Inv, NEW r \in RoomIds, NEW p \in PlayerIds, OnStartGame(r, p)
    PROVE  Inv'
<1>1. UNCHANGED <<players, joined, nextRoom>>
    BY DEF OnStartGame
<1>2. \A q \in RoomIds : status'[q] = "NONE" <=> status[q] = "NONE"
    BY DEF OnStartGame, Inv, TypeOK
<1>3. status' \in [RoomIds -> {"NONE", "LOBBY", "PLAYING"}]
    BY DEF OnStartGame, Inv, TypeOK
<1>4. QED
    BY <1>1, <1>2, <1>3
       DEF Inv, TypeOK, SeatsDistinct, AbsentIsEmpty, FreshIsAbsent

LEMMA DeleteInv ==
    ASSUME Inv, NEW r \in RoomIds, DeleteRoom(r)
    PROVE  Inv'
<1>1. TypeOK'
    BY DEF Inv, TypeOK, DeleteRoom
<1>2. SeatsDistinct'
    BY DEF Inv, TypeOK, SeatsDistinct, DeleteRoom
<1>3. AbsentIsEmpty' /\ FreshIsAbsent'
    BY DEF Inv, TypeOK, AbsentIsEmpty, FreshIsAbsent, DeleteRoom
<1>4. QED
    BY <1>1, <1>2, <1>3 DEF Inv

LEMMA NextInv == Inv /\ [Next]_vars => Inv'
<1> SUFFICES ASSUME Inv, [Next]_vars PROVE Inv'
    OBVIOUS
<1>1. CASE OnCreateRoom
    BY <1>1, CreateInv
<1>2. ASSUME NEW r \in RoomIds, NEW p \in PlayerIds, OnJoinRoom(r, p)
      PROVE  Inv'
    BY <1>2, JoinInv
<1>3. ASSUME NEW r \in RoomIds, NEW p \in PlayerIds, OnPlayerDisconnect(p, r)
      PROVE  Inv'
    BY <1>3, RemovalShrinks, ShrinkKeepsInv DEF OnPlayerDisconnect, Inv
<1>4. ASSUME NEW r \in RoomIds, NEW p \in PlayerIds, OnStartGame(r, p)
      PROVE  Inv'
    BY <1>4, StartInv
<1>5. ASSUME NEW r \in RoomIds, DeleteRoom(r)
      PROVE  Inv'
    BY <1>5, DeleteInv
<1>6. ASSUME NEW p \in PlayerIds, RemoveFromFirst(p)
      PROVE  Inv'
    BY <1>6, RemovalShrinks, ShrinkKeepsInv DEF RemoveFromFirst, Inv
<1>7. CASE UNCHANGED vars
    BY <1>7
       DEF vars, Inv, TypeOK, SeatsDistinct, AbsentIsEmpty, FreshIsAbsent
<1>8. QED
    BY <1>1, <1>2, <1>3, <1>4, <1>5, <1>6, <1>7 DEF Next

LEMMA Invariance == Spec => []Inv
BY InitInv, NextInv, PTL DEF Spec

\* The room table stays well typed.
THEOREM TypeCorrect == Spec => []TypeOK
<1>1. Inv => TypeOK
    BY DEF Inv
<1>2. QED
    BY <1>1, Invariance, PTL

\* However players join and leave, no two entries of a list have the same
\* seat, so that the host of a room is one well defined player.
THEOREM SeatsCorrect == Spec => []SeatsDistinct
<1>1. Inv => SeatsDistinct
    BY DEF Inv
<1>2. QED
    BY <1>1, Invariance, PTL

-----------------------------------------------------------------------------
\* The lists and states of the rooms that a step may leave behind.
LEMMA StartedStep ==
    ASSUME Inv, [Next]_vars, NEW r \in RoomIds, status[r] = "PLAYING"
    PROVE  /\ status'[r] \in {"PLAYING", "NONE"}
           /\ players'[r] \subseteq players[r]
<1>1. CASE OnCreateRoom
    <2>1. nextRoom /= r
        BY DEF Inv, FreshIsAbsent, TypeOK, RoomIds
    <2>2. QED
        BY <1>1, <2>1 DEF OnCreateRoom, Inv, TypeOK
<1>2. ASSUME NEW q \in RoomIds, NEW p \in PlayerIds, OnJoinRoom(q, p)
      PROVE  status'[r] = status[r] /\ players'[r] = players[r]
    <2>1. q /= r
        BY <1>2 DEF OnJoinRoom, CanJoin
    <2>2. QED
        BY <1>2, <2>1 DEF OnJoinRoom, Inv, TypeOK
<1>3. ASSUME NEW q \in RoomIds, NEW p \in PlayerIds, OnPlayerDisconnect(p, q)
      PROVE  status'[r] = status[r] /\ players'[r] \subseteq players[r]
    BY <1>3, RemovalShrinks DEF OnPlayerDisconnect, Inv
<1>4. ASSUME NEW q \in RoomIds, NEW p \in PlayerIds, OnStartGame(q, p)
      PROVE  status'[r] = "PLAYING" /\ players'[r] = players[r]
    BY <1>4 DEF OnStartGame, Inv, TypeOK
<1>5. ASSUME NEW q \in RoomIds, DeleteRoom(q)
      PROVE  /\ status'[r] \in {status[r], "NONE"}
             /\ players'[r] \subseteq players[r]
    BY <1>5 DEF DeleteRoom, Inv, TypeOK
<1>6. ASSUME NEW p \in PlayerIds, RemoveFromFirst(p)
      PROVE  status'[r] = status[r] /\ players'[r] \subseteq players[r]
    BY <1>6, RemovalShrinks DEF RemoveFromFirst, Inv
<1>7. CASE UNCHANGED vars
    BY <1>7 DEF vars
<1>8. QED
    BY <1>1, <1>2, <1>3, <1>4, <1>5, <1>6, <1>7 DEF Next

\* A started room admits nobody and is never put back into its lobby.
THEOREM StartedIsFinal == Spec => StartedIsClosed
<1>1. Inv /\ [Next]_vars
        => [\A r \in RoomIds :
              status[r] = "PLAYING" =>
                  /\ status'[r] \in {"PLAYING", "NONE"}
                  /\ players'[r] \subseteq players[r]]_vars
    BY StartedStep
<1>2. QED
    BY <1>1, Invariance, PTL DEF Spec, StartedIsClosed

\* The id of a room outlives the room: what was deleted stays deleted.
THEOREM IdsAreFinal == Spec => RoomIdsNotReused
<1>1. ASSUME Inv, [Next]_vars,
             NEW r \in RoomIds, r < nextRoom, status[r] = "NONE"
      PROVE  status'[r] = "NONE" /\ players'[r] = players[r]
    <2> players[r] = {}
        BY <1>1 DEF Inv, AbsentIsEmpty
    <2>1. CASE OnCreateRoom
        <3>1. nextRoom /= r
            BY <1>1 DEF Inv, TypeOK, RoomIds
        <3>2. QED
            BY <1>1, <2>1, <3>1 DEF OnCreateRoom, Inv, TypeOK
    <2>2. ASSUME NEW q \in RoomIds, NEW p \in PlayerIds, OnJoinRoom(q, p)
          PROVE  status'[r] = status[r] /\ players'[r] = players[r]
        <3>1. q /= r
            BY <1>1, <2>2 DEF OnJoinRoom, CanJoin
        <3>2. QED
            BY <1>1, <2>2, <3>1 DEF OnJoinRoom, Inv, TypeOK
    <2>3. ASSUME NEW q \in RoomIds, NEW p \in PlayerIds,
                 OnPlayerDisconnect(p, q)
          PROVE  status'[r] = status[r] /\ players'[r] \subseteq players[r]
        BY <1>1, <2>3, RemovalShrinks DEF OnPlayerDisconnect, Inv
    <2>4. ASSUME NEW q \in RoomIds, NEW p \in PlayerIds, OnStartGame(q, p)
          PROVE  status'[r] = status[r] /\ players'[r] = players[r]
        BY <1>1, <2>4 DEF OnStartGame, Inv, TypeOK
    <2>5. ASSUME NEW q \in RoomIds, DeleteRoom(q)
          PROVE  /\ status'[r] = "NONE"
                 /\ players'[r] \subseteq players[r]
        BY <1>1, <2>5 DEF DeleteRoom, Inv, TypeOK
    <2>6. ASSUME NEW p \in PlayerIds, RemoveFromFirst(p)
          PROVE  status'[r] = status[r] /\ players'[r] \subseteq players[r]
        BY <1>1, <2>6, RemovalShrinks DEF RemoveFromFirst, Inv
    <2>7. CASE UNCHANGED vars
        BY <1>1, <2>7 DEF vars
    <2>8. QED
        BY <1>1, <2>1, <2>2, <2>3, <2>4, <2>5, <2>6, <2>7 DEF Next
<1>2. Inv /\ [Next]_vars
        => [\A r \in RoomIds :
              r < nextRoom /\ status[r] = "NONE" =>
                  status'[r] = "NONE" /\ players'[r] = players[r]]_vars
    BY <1>1
<1>3. QED
    BY <1>2, Invariance, PTL DEF Spec, RoomIdsNotReused

-----------------------------------------------------------------------------
\* If the front of a list is also the front of another list, the host of
\* both is the same.
LEMMA SameFrontSameHost ==
    ASSUME NEW list \in SUBSET Entries, NEW new \in SUBSET Entries,
           \A e, f \in list : e.seat = f.seat => e = f,
           \A e, f \in new : e.seat = f.seat => e = f,
           NEW e \in list, IsFront(e, list), IsFront(e, new)
    PROVE  HostOf(new) = HostOf(list)
<1>1. HostOf(list) = e.id
    BY HostIsFront
<1>2. e \in new
    BY DEF IsFront
<1>3. HostOf(new) = e.id
    BY <1>2, HostIsFront
<1>4. QED
    BY <1>1, <1>3

\* What a step may do to one list, as far as its host is concerned.
KeepsFront(list, new) ==
    \A e \in list : IsFront(e, list) =>
        IsFront(e, new) \/ \A f \in new : f.id /= e.id

LEMMA HostStep ==
    ASSUME Inv, Inv', NEW r \in RoomIds, KeepsFront(players[r], players'[r])
    PROVE  Host(r)' /= Host(r) =>
               Host(r) = 0 \/ Host(r) \notin Members(r)'
<1>1. /\ players[r] \in SUBSET Entries /\ players'[r] \in SUBSET Entries
      /\ \A e, f \in players[r] : e.seat = f.seat => e = f
      /\ \A e, f \in players'[r] : e.seat = f.seat => e = f
    BY DEF Inv, TypeOK, SeatsDistinct, Entries
<1>2. CASE players[r] = {}
    BY <1>2 DEF Host, HostOf
<1>3. CASE players[r] /= {}
    <2>1. PICK e \in players[r] : IsFront(e, players[r])
        BY <1>1, <1>3, FrontExists
    <2>2. Host(r) = e.id
        BY <1>1, <2>1, HostIsFront DEF Host
    <2>3. CASE IsFront(e, players'[r])
        BY <1>1, <2>1, <2>3, SameFrontSameHost DEF Host
    <2>4. CASE \A f \in players'[r] : f.id /= e.id
        BY <2>2, <2>4 DEF Members
    <2>5. QED
        BY <2>1, <2>3, <2>4 DEF KeepsFront
<1>4. QED
    BY <1>2, <1>3

\* Removing an id removes the front or leaves it the front.
LEMMA RemovalKeepsFront ==
    ASSUME NEW list, NEW p
    PROVE  KeepsFront(list, Without(list, p))
BY DEF KeepsFront, Without, IsFront

LEMMA RemovalKeepsFronts ==
    ASSUME TypeOK, NEW r \in RoomIds, NEW p,
           players' = [players EXCEPT ![r] = Without(@, p)],
           NEW q \in RoomIds
    PROVE  KeepsFront(players[q], players'[q])
<1>1. CASE q = r
    BY <1>1, RemovalKeepsFront DEF TypeOK
<1>2. CASE q /= r
    BY <1>2 DEF TypeOK, KeepsFront
<1>3. QED
    BY <1>1, <1>2

LEMMA StepKeepsFront ==
    ASSUME Inv, [Next]_vars, NEW q \in RoomIds
    PROVE  KeepsFront(players[q], players'[q])
<1>1. CASE OnCreateRoom \/ UNCHANGED vars
    BY <1>1 DEF OnCreateRoom, vars, KeepsFront
<1>2. ASSUME NEW r \in RoomIds, NEW p \in PlayerIds, OnJoinRoom(r, p)
      PROVE  KeepsFront(players[q], players'[q])
    <2> DEFINE new == [id |-> p, seat |-> joined[r]]
    <2>1. players' = [players EXCEPT ![r] = @ \cup {new}]
        BY <1>2 DEF OnJoinRoom
    <2>2. \/ players'[q] = players[q]
          \/ q = r /\ players'[q] = players[q] \cup {new}
        BY <2>1 DEF Inv, TypeOK
    <2>3. \A e \in players[r] :
              e.seat \in Nat /\ joined[r] \in Nat /\ e.seat < joined[r]
        BY DEF Inv, TypeOK, SeatsDistinct, Entries
    <2>4. QED
        BY <2>2, <2>3 DEF KeepsFront, IsFront
<1>3. ASSUME NEW r \in RoomIds, NEW p \in PlayerIds, OnPlayerDisconnect(p, r)
      PROVE  KeepsFront(players[q], players'[q])
    BY <1>3, RemovalKeepsFronts DEF OnPlayerDisconnect, Inv
<1>4. ASSUME NEW r \in RoomIds, NEW p \in PlayerIds, OnStartGame(r, p)
      PROVE  KeepsFront(players[q], players'[q])
    BY <1>4 DEF OnStartGame, KeepsFront
<1>5. ASSUME NEW r \in RoomIds, DeleteRoom(r)
      PROVE  KeepsFront(players[q], players'[q])
    <2>1. players'[q] \in {players[q], {}}
        BY <1>5 DEF DeleteRoom, Inv, TypeOK
    <2>2. QED
        BY <2>1 DEF KeepsFront
<1>6. ASSUME NEW p \in PlayerIds, RemoveFromFirst(p)
      PROVE  KeepsFront(players[q], players'[q])
    BY <1>6, RemovalKeepsFronts DEF RemoveFromFirst, Inv
<1>7. QED
    BY <1>1, <1>2, <1>3, <1>4, <1>5, <1>6 DEF Next

\* Only the host's own leaving, or the first player's coming, makes another
\* player the host.
THEOREM HostIsSenior == Spec => HostIsStable
<1>1. Inv /\ Inv' /\ [Next]_vars
        => [\A r \in RoomIds :
              Host(r)' /= Host(r) =>
                  Host(r) = 0 \/ Host(r) \notin Members(r)']_vars
    BY HostStep, StepKeepsFront
<1>2. QED
    BY <1>1, Invariance, PTL DEF Spec, HostIsStable
=============================================================================
