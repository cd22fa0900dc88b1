-------------------------------- MODULE Rooms --------------------------------
(***************************************************************************)
(* The room table of the server: ServerManager::_rooms with, for each      *)
(* room, the status and the player list of its Game.  The operations are   *)
(* the ITCPHandler callbacks, the shell commands and the UDP               *)
(* disconnection that change the table, each atomic because it holds       *)
(* ServerManager::_serverMutex or (UDP) the room's own player mutex.  Here *)
(* any caller may call them at any time; TcpServer.tla says who does.      *)
(*                                                                         *)
(* A player list is the set of its entries, each with the number of the    *)
(* push_back that made it: the entry with the least number is the front of *)
(* the vector.  Removing by id removes every entry with that id, as the    *)
(* remove_if of the code does.                                             *)
(***************************************************************************)
EXTENDS Naturals

CONSTANTS
    PlayerIds,      \* the ids players can have; 0 is nobody
    MaxRooms,       \* bound: rooms created in a behaviour
    MaxJoins        \* bound: players added to one room

ASSUME PlayerIdsAssumption == PlayerIds \subseteq Nat \ {0}
ASSUME MaxAssumption == MaxRooms \in Nat /\ MaxJoins \in Nat

VARIABLES
    status,         \* _rooms[r]->_status, or "NONE" when _rooms has no r
    players,        \* _rooms[r]->_players
    joined,         \* how many push_backs _players has seen
    nextRoom        \* _nextRoomId

vars == <<status, players, joined, nextRoom>>

RoomIds == 0 .. MaxRooms - 1

Entries == [id : PlayerIds, seat : Nat]

TypeOK ==
    /\ status \in [RoomIds -> {"NONE", "LOBBY", "PLAYING"}]
    /\ players \in [RoomIds -> SUBSET Entries]
    /\ joined \in [RoomIds -> Nat]
    /\ nextRoom \in Nat

\* The ids on the list of room r.
Members(r) == {e.id : e \in players[r]}

\* Mutant: the host is the last of the list.
IsBack(e, list) == e \in list /\ \A f \in list : e.seat >= f.seat

\* Is e the front of list?
IsFront(e, list) == e \in list /\ \A f \in list : e.seat <= f.seat

\* Game::getHostId: the front of the list, 0 when it is empty.
HostOf(list) ==
    IF list = {} THEN 0 ELSE (CHOOSE e \in list : IsFront(e, list)).id

Host(r) == HostOf(players[r])

Without(list, p) == {e \in list : e.id /= p}

Init ==
    /\ status = [r \in RoomIds |-> "NONE"]
    /\ players = [r \in RoomIds |-> {}]
    /\ joined = [r \in RoomIds |-> 0]
    /\ nextRoom = 0

-----------------------------------------------------------------------------
\* Mutant: a new room takes the least id that no room has.
CreateInFreeId ==
    \E r \in RoomIds :
        /\ status[r] = "NONE"
        /\ \A q \in RoomIds : q < r => status[q] /= "NONE"
        /\ status' = [status EXCEPT ![r] = "LOBBY"]
        /\ nextRoom' = IF r < nextRoom THEN nextRoom ELSE r + 1
        /\ UNCHANGED <<players, joined>>

\* Client request or shell command "create".
OnCreateRoom ==
    /\ nextRoom < MaxRooms
    /\ status' = [status EXCEPT ![nextRoom] = "LOBBY"]
    /\ nextRoom' = nextRoom + 1
    /\ UNCHANGED <<players, joined>>

\* Mutant: any room that exists can be joined.
CanJoinExisting(r) == r \in RoomIds /\ status[r] /= "NONE"

\* Only a room in its lobby takes players, any number of them.
CanJoin(r) == r \in RoomIds /\ status[r] = "LOBBY"

OnJoinRoom(r, p) ==
    /\ CanJoin(r)
    /\ joined[r] < MaxJoins
    /\ players' = [players EXCEPT ![r] = @ \cup {[id |-> p, seat |-> joined[r]]}]
    /\ joined' = [joined EXCEPT ![r] = @ + 1]
    /\ UNCHANGED <<status, nextRoom>>

\* The TCP connection of a player in room r is gone.
OnPlayerDisconnect(p, r) ==
    /\ players' = [players EXCEPT ![r] = Without(@, p)]
    /\ UNCHANGED <<status, joined, nextRoom>>

\* Requests of anyone but the host are ignored. The host may ask again.
OnStartGame(r, p) ==
    /\ status' = [status EXCEPT ![r] = IF @ /= "NONE" /\ p = Host(r)
                                       THEN "PLAYING" ELSE @]
    /\ UNCHANGED <<players, joined, nextRoom>>

\* Shell command "delete".
DeleteRoom(r) ==
    /\ status[r] /= "NONE"
    /\ status' = [status EXCEPT ![r] = "NONE"]
    /\ players' = [players EXCEPT ![r] = {}]
    /\ UNCHANGED <<joined, nextRoom>>

\* The room whose Game::getPlayer first finds p, in the order of the map.
FirstRoomWith(p, r) ==
    /\ p \in Members(r)
    /\ \A q \in RoomIds : q < r => p \notin Members(q)

\* Shell command "kick", the part under _serverMutex, and a UDP
\* PLAYER_DISCONNECT: both remove the player from the first room that has
\* it, and do nothing when none has.
RemoveFromFirst(p) ==
    \E r \in RoomIds :
        /\ FirstRoomWith(p, r)
        /\ players' = [players EXCEPT ![r] = Without(@, p)]
        /\ UNCHANGED <<status, joined, nextRoom>>

Next ==
    \/ OnCreateRoom
    \/ \E r \in RoomIds, p \in PlayerIds :
            OnJoinRoom(r, p) \/ OnPlayerDisconnect(p, r) \/ OnStartGame(r, p)
    \/ \E r \in RoomIds : DeleteRoom(r)
    \/ \E p \in PlayerIds : RemoveFromFirst(p)

Spec == Init /\ [][Next]_vars

-----------------------------------------------------------------------------
(* Properties.                                                             *)

\* Every entry of a list has a seat of its own, below the next one to be
\* given out: the front of the list, and so the host, is unique.
SeatsDistinct ==
    \A r \in RoomIds : \A e, f \in players[r] :
        /\ e.seat < joined[r]
        /\ e.seat = f.seat => e = f

\* The host of a room is its senior player: it changes only when the host
\* leaves or when an empty room gets its first player, never because of
\* somebody else's joining, leaving or being kicked.
HostIsStable ==
    [][\A r \in RoomIds :
          Host(r)' /= Host(r) =>
              Host(r) = 0 \/ Host(r) \notin Members(r)']_vars

\* Once started, a room stays started until it is deleted, and nobody enters
\* it any more: its list only shrinks.
StartedIsClosed ==
    [][\A r \in RoomIds :
          status[r] = "PLAYING" =>
              /\ status'[r] \in {"PLAYING", "NONE"}
              /\ players'[r] \subseteq players[r]]_vars

\* A room id never comes back: what was deleted stays deleted, so that a
\* client still holding the id of a deleted room cannot act on another one.
RoomIdsNotReused ==
    [][\A r \in RoomIds :
          r < nextRoom /\ status[r] = "NONE" =>
              status'[r] = "NONE" /\ players'[r] = players[r]]_vars
=============================================================================
