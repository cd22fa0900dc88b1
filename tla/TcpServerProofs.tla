--------------------------- MODULE TcpServerProofs ---------------------------
(***************************************************************************)
(* The TCP side of the server for any number of connections and rooms.     *)
(* First the types, then the refinement of the room table, then what is    *)
(* built on both: no ghosts, the maps, the chat, the announced starts, and *)
(* the quiet after the stop.                                               *)
(***************************************************************************)
EXTENDS TcpServer, FiniteSetTheorems, TLAPS

RoomTable == INSTANCE RoomsProofs WITH MaxJoins <- Cardinality(Conns)

-----------------------------------------------------------------------------
(* Types. The counter needs more than its type: it stays below the number  *)
(* of connections because no thread increments it twice.                   *)

Stored == {c \in Conns : id[c] /= 0}

\* The counter, and every copy of it that a thread holds, is at most one
\* above the number of connections that have an id.
Counting ==
    /\ nextPlayerId >= 1 /\ nextPlayerId <= Cardinality(Stored) + 1
    /\ \A c \in Conns :
          pc[c] = "store" =>
              idRead[c] >= 1 /\ idRead[c] <= Cardinality(Stored) + 1

\* What a thread has where: an id once it has stored one, a room from its
\* join on.
Sessions ==
    \A c \in Conns :
        /\ pc[c] \in {"none", "hello", "load", "store"} => id[c] = 0
        /\ pc[c] \in {"register"} \cup Registered => id[c] /= 0
        /\ pc[c] \in {"none", "hello", "load", "store", "register", "greet",
                      "lobby", "lobbyRead"} => room[c] = None
        /\ pc[c] \in InRoom \cup {"leaving"} => room[c] \in RoomIds

Typing == TypeOK /\ Counting /\ Sessions

LEMMA ConnsCount ==
    /\ Cardinality(Conns) \in Nat
    /\ PlayerIds \subseteq Nat \ {0}
BY ConnsAssumption, FS_CardinalityType DEF PlayerIds

LEMMA StoredCount ==
    /\ IsFiniteSet(Stored)
    /\ Cardinality(Stored) \in Nat
    /\ Cardinality(Stored) <= Cardinality(Conns)
BY ConnsAssumption, FS_Subset, FS_CardinalityType DEF Stored

\* As long as a connection has no id, fewer than all have one.
LEMMA StoredBelow ==
    ASSUME NEW c \in Conns, id[c] = 0
    PROVE  Cardinality(Stored) < Cardinality(Conns)
<1>1. Stored \in SUBSET Conns /\ Stored /= Conns
    BY DEF Stored
<1>2. QED
    BY <1>1, ConnsAssumption, FS_Subset, FS_CardinalityType

LEMMA InitTyping == Init => Typing
<1> SUFFICES ASSUME Init PROVE Typing
    OBVIOUS
<1>1. Cardinality(Conns) \in Nat /\ RoomIds \subseteq Nat
    BY ConnsCount DEF RoomIds, Table!RoomIds
<1>2. TypeOK
    BY <1>1, MaxRoomsAssumption
       DEF Init, TypeOK, Table!Init, Table!TypeOK, PCs, Replies, Sent
<1>3. Counting
    BY StoredCount DEF Init, Counting
<1>4. Sessions
    BY DEF Init, Sessions, Registered, InRoom
<1>5. QED
    BY <1>2, <1>3, <1>4 DEF Typing

-----------------------------------------------------------------------------
(* Every step of the server is a step of the room table or leaves it alone. *)

\* The session that calls the table is typed as the table wants it.
LEMMA CallerTyped ==
    ASSUME Typing, NEW c \in Conns
    PROVE  /\ pc[c] \in Registered => id[c] \in PlayerIds
           /\ pc[c] \in InRoom => room[c] \in RoomIds
<1>1. id[c] \in 0 .. Cardinality(Conns)
    BY DEF Typing, TypeOK
<1>2. pc[c] \in Registered => id[c] /= 0
    BY DEF Typing, Sessions
<1>3. pc[c] \in InRoom => room[c] \in RoomIds
    BY DEF Typing, Sessions
<1>4. QED
    BY <1>1, <1>2, <1>3, ConnsCount DEF PlayerIds

\* What the threads do without asking the table leaves it alone.
LEMMA QuietThreads ==
    ASSUME NEW c \in Conns, ThreadStep(c), ~RoomReadFails(c)
    PROVE  UNCHANGED roomVars
BY DEF ThreadStep, StartThread, HelloFails, LoadNextId, StoreNextId, Register,
       Greet, LobbyCheck, LobbyReadFails, EnterRoom, RoomCheck,
       AnswerLobbyState, LeaveRoom, CloseClient

LEMMA TableStep ==
    ASSUME Typing, [Next]_vars
    PROVE  [Table!Next]_(Table!vars)
<1>1. UNCHANGED roomVars => UNCHANGED Table!vars
    BY DEF roomVars, Table!vars
<1>2. ASSUME NEW c \in Conns, NEW r \in RoomIds, pc[c] \in Registered,
             \/ Table!OnJoinRoom(r, id[c])
             \/ Table!OnPlayerDisconnect(id[c], r)
             \/ Table!OnStartGame(r, id[c])
             \/ Table!RemoveFromFirst(id[c])
      PROVE  Table!Next
    BY <1>2, CallerTyped DEF Table!Next, RoomIds
<1>3. ASSUME NEW c \in Conns, ThreadStep(c)
      PROVE  [Table!Next]_(Table!vars)
    <2>1. CASE RoomReadFails(c)
        BY <2>1, <1>2, CallerTyped
           DEF RoomReadFails, Goto, Registered, InRoom
    <2>2. QED
        BY <1>1, <1>3, <2>1, QuietThreads
<1>4. ASSUME NEW c \in Conns, Client(c)
      PROVE  [Table!Next]_(Table!vars)
    <2>1. CASE Accept(c) \/ PeerCloses(c)
        BY <2>1, <1>1 DEF Accept, PeerCloses
    <2>2. CASE HelloReceived(c) \/ ListRooms(c) \/ GetLobbyState(c) \/ Chat(c)
        BY <2>2, <1>1 DEF HelloReceived, ListRooms, GetLobbyState, Chat
    <2>3. CASE CreateRoom(c)
        BY <2>3 DEF CreateRoom, Table!Next
    <2>4. CASE \E r \in RoomIds : JoinRoom(c, r)
        BY <2>4, <1>1, <1>2 DEF JoinRoom, Goto, Registered
    <2>5. CASE StartGame(c)
        BY <2>5, <1>2, CallerTyped DEF StartGame, Goto, Registered, InRoom
    <2>6. CASE UdpDisconnect(c)
        BY <2>6, <1>2, CallerTyped DEF UdpDisconnect, Registered
    <2>7. QED
        BY <1>4, <2>1, <2>2, <2>3, <2>4, <2>5, <2>6 DEF Client, ClientRequest
<1>5. CASE Shell
    <2>1. CASE ShellCreate
        BY <2>1 DEF ShellCreate, Table!Next
    <2>2. CASE \E r \in RoomIds : ShellDelete(r)
        BY <2>2 DEF ShellDelete, Table!Next, RoomIds
    <2>3. CASE \E p \in PlayerIds : ShellKick(p)
        BY <2>3, <1>1 DEF ShellKick, Table!Next
    <2>4. CASE Exit
        BY <2>4, <1>1 DEF Exit
    <2>5. QED
        BY <1>5, <2>1, <2>2, <2>3, <2>4 DEF Shell
<1>6. CASE KickPlayer \/ Stop
    BY <1>6, <1>1 DEF KickPlayer, Stop, StopBegins, JoinAccept, CloseClients,
                      JoinClients
<1>7. CASE UNCHANGED vars
    BY <1>7, <1>1 DEF vars
<1>8. QED
    BY <1>3, <1>4, <1>5, <1>6, <1>7 DEF Next

\* The table stays typed, by the theorem about its own steps.
LEMMA TableTyping ==
    ASSUME Table!TypeOK, [Table!Next]_(Table!vars)
    PROVE  Table!TypeOK'
<1> USE ConnsCount, MaxRoomsAssumption
<1>1. CASE Table!OnCreateRoom
    BY <1>1 DEF Table!OnCreateRoom, Table!TypeOK, Table!RoomIds
<1>2. ASSUME NEW r \in Table!RoomIds, NEW p \in PlayerIds,
             Table!OnJoinRoom(r, p)
      PROVE  Table!TypeOK'
    <2>1. [id |-> p, seat |-> joined[r]] \in Table!Entries
        BY DEF Table!TypeOK, Table!Entries
    <2>2. QED
        BY <1>2, <2>1 DEF Table!OnJoinRoom, Table!TypeOK
<1>3. ASSUME NEW r \in Table!RoomIds, NEW p \in PlayerIds,
             Table!OnPlayerDisconnect(p, r)
      PROVE  Table!TypeOK'
    BY <1>3 DEF Table!OnPlayerDisconnect, Table!TypeOK, Table!Without
<1>4. ASSUME NEW r \in Table!RoomIds, NEW p \in PlayerIds,
             Table!OnStartGame(r, p)
      PROVE  Table!TypeOK'
    BY <1>4 DEF Table!OnStartGame, Table!TypeOK
<1>5. ASSUME NEW r \in Table!RoomIds, Table!DeleteRoom(r)
      PROVE  Table!TypeOK'
    BY <1>5 DEF Table!DeleteRoom, Table!TypeOK
<1>6. ASSUME NEW p \in PlayerIds, Table!RemoveFromFirst(p)
      PROVE  Table!TypeOK'
    BY <1>6 DEF Table!RemoveFromFirst, Table!TypeOK, Table!Without
<1>7. CASE UNCHANGED Table!vars
    BY <1>7 DEF Table!vars, Table!TypeOK
<1>8. QED
    BY <1>1, <1>2, <1>3, <1>4, <1>5, <1>6, <1>7 DEF Table!Next

-----------------------------------------------------------------------------
\* The counter: only a load and a store touch it, and a store is by a
\* connection that had no id before.
LEMMA CountingStep ==
    ASSUME Typing, [Next]_vars
    PROVE  Counting'
<1>1. ASSUME UNCHANGED <<idVars, id>>,
             \A c \in Conns : pc'[c] = "store" => pc[c] = "store"
      PROVE  Counting'
    BY <1>1 DEF Typing, Counting, Stored, idVars
<1>2. ASSUME NEW c \in Conns, LoadNextId(c)
      PROVE  Counting'
    <2>1. /\ UNCHANGED <<nextPlayerId, id>>
          /\ pc' = [pc EXCEPT ![c] = "store"]
          /\ idRead' = [idRead EXCEPT ![c] = nextPlayerId]
        BY <1>2 DEF LoadNextId, Goto
    <2>2. QED
        BY <2>1 DEF Typing, TypeOK, Counting, Stored
<1>3. ASSUME NEW c \in Conns, StoreNextId(c)
      PROVE  Counting'
    <2>1. /\ pc[c] = "store" /\ id[c] = 0 /\ idRead[c] >= 1
          /\ idRead[c] <= Cardinality(Stored) + 1
          /\ idRead[c] \in Nat
        BY <1>3 DEF StoreNextId, Goto, Typing, TypeOK, Counting, Sessions
    <2>2. /\ pc' = [pc EXCEPT ![c] = "register"]
          /\ id' = [id EXCEPT ![c] = idRead[c]]
          /\ nextPlayerId' = idRead[c] + 1
          /\ UNCHANGED idRead
        BY <1>3 DEF StoreNextId, Goto
    <2>3. c \notin Stored /\ Stored' = Stored \cup {c}
        BY <2>1, <2>2 DEF Typing, TypeOK, Stored
    <2>4. Cardinality(Stored)' = Cardinality(Stored) + 1
        BY <2>3, StoredCount, FS_AddElement
    <2>5. \A d \in Conns : pc'[d] = "store" => pc[d] = "store"
        BY <2>2 DEF Typing, TypeOK
    <2>6. \A d \in Conns : idRead[d] \in Nat
        BY DEF Typing, TypeOK
    <2>7. QED
        BY <2>1, <2>2, <2>4, <2>5, <2>6, StoredCount DEF Typing, Counting
<1>4. ASSUME NEW c \in Conns, ThreadStep(c), ~LoadNextId(c), ~StoreNextId(c)
      PROVE  /\ UNCHANGED <<idVars, id>>
             /\ \A d \in Conns : pc'[d] = "store" => pc[d] = "store"
    BY <1>4 DEF ThreadStep, StartThread, HelloFails, Register, Greet,
       LobbyCheck, LobbyReadFails, EnterRoom, RoomCheck, RoomReadFails,
       AnswerLobbyState, LeaveRoom, CloseClient, Goto, Typing, TypeOK
<1>5. ASSUME NEW c \in Conns, Client(c)
      PROVE  /\ UNCHANGED <<idVars, id>>
             /\ \A d \in Conns : pc'[d] = "store" => pc[d] = "store"
    BY <1>5 DEF Client, ClientRequest, Accept, PeerCloses, UdpDisconnect,
       HelloReceived, ListRooms, CreateRoom, JoinRoom, StartGame,
       GetLobbyState, Chat, Goto, Typing, TypeOK, threadVars
<1>6. ASSUME Shell \/ KickPlayer \/ Stop \/ UNCHANGED vars
      PROVE  UNCHANGED <<idVars, id, pc>>
    BY <1>6 DEF Shell, ShellCreate, ShellDelete, ShellKick, Exit, KickPlayer,
       Stop, StopBegins, JoinAccept, CloseClients, JoinClients, vars,
       threadVars
<1>7. QED
    BY <1>1, <1>2, <1>3, <1>4, <1>5, <1>6 DEF Next

\* A step types what the table does not keep.
LEMMA OwnTyping ==
    ASSUME Typing, [Next]_vars, Table!TypeOK'
    PROVE  TypeOK'
<1> USE DEF roomVars, mapVars, idVars, threadVars, ownerVars, Goto, PCs,
            Registered, InRoom
<1>1. /\ TypeOK /\ Cardinality(Conns) \in Nat
      /\ \A c \in Conns : pc[c] \in Registered => id[c] \in PlayerIds
      /\ \A c \in Conns : pc[c] \in InRoom => room[c] \in RoomIds
    BY CallerTyped, ConnsCount DEF Typing
<1>2. \A c \in Conns, m \in Replies :
          Write(c, m) => reply' \in [Conns -> Replies]
    BY <1>1 DEF Write, TypeOK
<1>3. /\ \A n \in {0, 1} :
             [type |-> "JOIN_ROOM_RESPONSE", status |-> n] \in Replies
      /\ Sent("GAME_STARTING_NOTIFICATION") \in Replies
      /\ \A c \in Conns : [type |-> "CHAT_MESSAGE", from |-> c] \in Replies
    BY DEF Replies, Sent
<1>4. \A c \in Conns : CloseByOther(c) \in {"orphan", "closed"}
    BY DEF CloseByOther
<1>5. ASSUME NEW c \in Conns, LoadNextId(c)
      PROVE  TypeOK'
    <2>1. id[c] = 0 /\ nextPlayerId <= Cardinality(Stored) + 1
        BY <1>5 DEF LoadNextId, Typing, Sessions, Counting
    <2>2. nextPlayerId \in 1 .. Cardinality(Conns)
        BY <1>1, <2>1, StoredBelow, StoredCount DEF TypeOK
    <2>3. QED
        BY <1>1, <1>5, <2>2 DEF LoadNextId, TypeOK
<1>6. ASSUME NEW c \in Conns, StoreNextId(c)
      PROVE  TypeOK'
    BY <1>1, <1>6 DEF StoreNextId, TypeOK
<1>7. ASSUME NEW c \in Conns, Register(c)
      PROVE  TypeOK'
    <2>1. id[c] \in PlayerIds
        BY <1>1, <1>7 DEF Register, Typing, TypeOK, Sessions, PlayerIds
    <2>2. QED
        BY <1>1, <1>7, <2>1 DEF Register, TypeOK
<1>8. ASSUME NEW c \in Conns,
             StartThread(c) \/ HelloFails(c) \/ Greet(c) \/ LobbyCheck(c)
      PROVE  TypeOK'
    BY <1>1, <1>8 DEF StartThread, HelloFails, Greet, LobbyCheck, TypeOK
<1>9. ASSUME NEW c \in Conns,
             \/ LobbyReadFails(c) \/ EnterRoom(c) \/ RoomCheck(c)
             \/ RoomReadFails(c)
      PROVE  TypeOK'
    BY <1>1, <1>9
       DEF LobbyReadFails, EnterRoom, RoomCheck, RoomReadFails, TypeOK
<1>10. ASSUME NEW c \in Conns,
              AnswerLobbyState(c) \/ LeaveRoom(c) \/ CloseClient(c)
       PROVE  TypeOK'
    BY <1>1, <1>10 DEF AnswerLobbyState, LeaveRoom, CloseClient, TypeOK
<1>11. ASSUME NEW c \in Conns, Accept(c) \/ PeerCloses(c) \/ UdpDisconnect(c)
       PROVE  TypeOK'
    BY <1>1, <1>11 DEF Accept, PeerCloses, UdpDisconnect, TypeOK
<1>12. ASSUME NEW c \in Conns,
              HelloReceived(c) \/ ListRooms(c) \/ CreateRoom(c) \/ StartGame(c)
       PROVE  TypeOK'
    BY <1>1, <1>12
       DEF HelloReceived, ListRooms, CreateRoom, StartGame, Receives, TypeOK
<1>13. ASSUME NEW c \in Conns, NEW r \in RoomIds, JoinRoom(c, r)
       PROVE  TypeOK'
    BY <1>1, <1>2, <1>3, <1>13 DEF JoinRoom, Receives, TypeOK
<1>14. ASSUME NEW c \in Conns, GetLobbyState(c)
       PROVE  TypeOK'
    BY <1>1, <1>2, <1>3, <1>14 DEF GetLobbyState, Receives, TypeOK
<1>15. ASSUME NEW c \in Conns, Chat(c)
       PROVE  TypeOK'
    BY <1>1, <1>3, <1>15 DEF Chat, Receives, TypeOK
<1>16. ASSUME Shell
       PROVE  TypeOK'
    BY <1>1, <1>16, Table!TypeOK'
       DEF Shell, ShellCreate, ShellDelete, ShellKick, Exit, TypeOK, PlayerIds
<1>17. ASSUME KickPlayer \/ CloseClients
       PROVE  TypeOK'
    <2>1. sock' \in [Conns -> {"none", "open", "reset", "orphan", "closed"}]
        BY <1>1, <1>4, <1>17 DEF KickPlayer, CloseClients, TypeOK
    <2>2. UNCHANGED <<mapVars, idVars, pc, id, room, reply, running, acceptor>>
        BY <1>17 DEF KickPlayer, CloseClients
    <2>3. /\ main' \in {"joinClients", main}
          /\ shell' \in {0, shell}
        BY <1>17 DEF KickPlayer, CloseClients
    <2>4. QED
        BY <1>1, <2>1, <2>2, <2>3, Table!TypeOK' DEF TypeOK
<1>18. ASSUME StopBegins \/ JoinAccept \/ JoinClients \/ UNCHANGED vars
       PROVE  TypeOK'
    BY <1>1, <1>18, Table!TypeOK'
       DEF StopBegins, JoinAccept, JoinClients, TypeOK, vars
<1>19. QED
    BY <1>5, <1>6, <1>7, <1>8, <1>9, <1>10, <1>11, <1>12, <1>13, <1>14, <1>15,
       <1>16, <1>17, <1>18 DEF Next, ThreadStep, Client, ClientRequest, Stop

\* A thread has an id and a room exactly where Sessions says.
LEMMA SessionsStep ==
    ASSUME Typing, [Next]_vars
    PROVE  Sessions'
<1> USE DEF Goto, Registered, InRoom
<1>1. ASSUME UNCHANGED <<pc, id, room>>
      PROVE  Sessions'
    BY <1>1 DEF Typing, Sessions, RoomIds, Table!RoomIds
<1>2. ASSUME NEW c \in Conns, LoadNextId(c) \/ StoreNextId(c) \/ Register(c)
      PROVE  Sessions'
    BY <1>2 DEF LoadNextId, StoreNextId, Register, Typing, TypeOK, Counting,
                Sessions
<1>3. ASSUME NEW c \in Conns,
             \/ StartThread(c) \/ HelloReceived(c) \/ HelloFails(c)
             \/ Greet(c) \/ LobbyCheck(c)
      PROVE  Sessions'
    BY <1>3 DEF StartThread, HelloReceived, HelloFails, Greet, LobbyCheck,
                Typing, TypeOK, Sessions
<1>4. ASSUME NEW c \in Conns,
             LobbyReadFails(c) \/ ListRooms(c) \/ CreateRoom(c)
      PROVE  Sessions'
    BY <1>4 DEF LobbyReadFails, ListRooms, CreateRoom, Typing, TypeOK, Sessions
<1>5. ASSUME NEW c \in Conns, NEW r \in RoomIds, JoinRoom(c, r)
      PROVE  Sessions'
    BY <1>5 DEF JoinRoom, Typing, TypeOK, Sessions
<1>6. ASSUME NEW c \in Conns,
             \/ EnterRoom(c) \/ RoomCheck(c) \/ RoomReadFails(c)
             \/ StartGame(c) \/ GetLobbyState(c)
      PROVE  Sessions'
    BY <1>6 DEF EnterRoom, RoomCheck, RoomReadFails, StartGame, GetLobbyState,
                Typing, TypeOK, Sessions
<1>7. ASSUME NEW c \in Conns,
             AnswerLobbyState(c) \/ Chat(c) \/ LeaveRoom(c) \/ CloseClient(c)
      PROVE  Sessions'
    BY <1>7 DEF AnswerLobbyState, Chat, LeaveRoom, CloseClient,
                Typing, TypeOK, Sessions
<1>8. ASSUME NEW c \in Conns, Accept(c) \/ PeerCloses(c) \/ UdpDisconnect(c)
      PROVE  UNCHANGED <<pc, id, room>>
    BY <1>8 DEF Accept, PeerCloses, UdpDisconnect, threadVars
<1>9. ASSUME Shell \/ KickPlayer \/ Stop \/ UNCHANGED vars
      PROVE  UNCHANGED <<pc, id, room>>
    BY <1>9 DEF Shell, ShellCreate, ShellDelete, ShellKick, Exit, KickPlayer,
       Stop, StopBegins, JoinAccept, CloseClients, JoinClients, vars,
       threadVars
<1>10. QED
    BY <1>1, <1>2, <1>3, <1>4, <1>5, <1>6, <1>7, <1>8, <1>9
       DEF Next, ThreadStep, Client, ClientRequest

LEMMA TypingStep == Typing /\ [Next]_vars => Typing'
<1> SUFFICES ASSUME Typing, [Next]_vars PROVE Typing'
    OBVIOUS
<1>1. Table!TypeOK'
    BY TableStep, TableTyping DEF Typing, TypeOK
<1>2. QED
    BY <1>1, OwnTyping, CountingStep, SessionsStep DEF Typing

LEMMA TypingInvariant == Spec => []Typing
BY InitTyping, TypingStep, PTL DEF Spec

\* Every variable keeps its type; for the id counter that means that it
\* never passes the number of connections, however its increments interleave.
THEOREM TypeCorrect == Spec => []TypeOK
<1>1. Typing => TypeOK
    BY DEF Typing
<1>2. QED
    BY <1>1, TypingInvariant, PTL

\* The table changes by the operators of Rooms.tla alone, which is how the
\* actions are written; it lets the theorems about Rooms be used here.
LEMMA TableIsRooms == Spec => Table!Spec
<1>1. Init => Table!Init
    BY DEF Init
<1>2. Typing /\ [Next]_vars => [Table!Next]_(Table!vars)
    BY TableStep
<1>3. QED
    BY <1>1, <1>2, TypingInvariant, PTL DEF Spec, Table!Spec

\* So what RoomsProofs proves of the room table holds of it in the server:
\* the host of a room is its senior player, a started room is closed, and the
\* id of a deleted room is not given out again.
THEOREM RoomsGuarantees ==
    Spec => /\ RoomTable!HostIsStable
            /\ RoomTable!StartedIsClosed
            /\ RoomTable!RoomIdsNotReused
<1>1. Table!Init => RoomTable!Init
    BY DEF Table!Init, RoomTable!Init, Table!RoomIds, RoomTable!RoomIds
<1>2. [Table!Next]_(Table!vars) => [RoomTable!Next]_(RoomTable!vars)
    <2>1. /\ Table!RoomIds = RoomTable!RoomIds
          /\ Table!OnCreateRoom <=> RoomTable!OnCreateRoom
        BY DEF Table!RoomIds, RoomTable!RoomIds,
           Table!OnCreateRoom, RoomTable!OnCreateRoom
    <2>2. ASSUME NEW r, NEW p
          PROVE  /\ Table!OnJoinRoom(r, p) <=> RoomTable!OnJoinRoom(r, p)
                 /\ Table!OnPlayerDisconnect(p, r)
                        <=> RoomTable!OnPlayerDisconnect(p, r)
        BY <2>1 DEF Table!OnJoinRoom, RoomTable!OnJoinRoom, Table!CanJoin,
           RoomTable!CanJoin, Table!OnPlayerDisconnect,
           RoomTable!OnPlayerDisconnect, Table!Without, RoomTable!Without
    <2>3. ASSUME NEW r, NEW p
          PROVE  Table!OnStartGame(r, p) <=> RoomTable!OnStartGame(r, p)
        BY DEF Table!OnStartGame, RoomTable!OnStartGame, Table!Host,
           RoomTable!Host, Table!HostOf, RoomTable!HostOf, Table!IsFront,
           RoomTable!IsFront
    <2>4. ASSUME NEW r
          PROVE  Table!DeleteRoom(r) <=> RoomTable!DeleteRoom(r)
        BY DEF Table!DeleteRoom, RoomTable!DeleteRoom
    <2>5. ASSUME NEW p
          PROVE  Table!RemoveFromFirst(p) <=> RoomTable!RemoveFromFirst(p)
        BY <2>1 DEF Table!RemoveFromFirst, RoomTable!RemoveFromFirst,
           Table!FirstRoomWith, RoomTable!FirstRoomWith, Table!Members,
           RoomTable!Members, Table!Without, RoomTable!Without
    <2>6. QED
        BY <2>1, <2>2, <2>3, <2>4, <2>5
           DEF Table!Next, RoomTable!Next, Table!vars, RoomTable!vars
<1>3. RoomTable!Spec => /\ RoomTable!HostIsStable
                        /\ RoomTable!StartedIsClosed
                        /\ RoomTable!RoomIdsNotReused
    BY ConnsCount, MaxRoomsAssumption, RoomTable!HostIsSenior,
       RoomTable!StartedIsFinal, RoomTable!IdsAreFinal
<1>4. Table!Spec => RoomTable!Spec
    BY <1>1, <1>2, PTL DEF Table!Spec, RoomTable!Spec
<1>5. QED
    BY <1>3, <1>4, TableIsRooms, PTL

-----------------------------------------------------------------------------
(* What a step keeps, as the invariants below need it.                     *)

\* A connection that has an id keeps it, and one that is in a room stays in
\* that room.
LEMMA IdentityKept ==
    ASSUME Typing, [Next]_vars, NEW d \in Conns
    PROVE  /\ id[d] /= 0 => id'[d] = id[d]
           /\ room[d] /= None => room'[d] = room[d]
<1> USE DEF Goto, Typing, TypeOK, Sessions
<1>1. ASSUME NEW c \in Conns, ThreadStep(c)
      PROVE  /\ id[d] /= 0 => id'[d] = id[d]
             /\ UNCHANGED room
    BY <1>1 DEF ThreadStep, StartThread, HelloFails, LoadNextId, StoreNextId,
       Register, Greet, LobbyCheck, LobbyReadFails, EnterRoom, RoomCheck,
       RoomReadFails, AnswerLobbyState, LeaveRoom, CloseClient
<1>2. ASSUME NEW c \in Conns, Client(c)
      PROVE  /\ UNCHANGED id
             /\ room[d] /= None => room'[d] = room[d]
    BY <1>2 DEF Client, ClientRequest, Accept, PeerCloses, UdpDisconnect,
       HelloReceived, ListRooms, CreateRoom, JoinRoom, StartGame,
       GetLobbyState, Chat, threadVars
<1>3. ASSUME Shell \/ KickPlayer \/ Stop \/ UNCHANGED vars
      PROVE  UNCHANGED <<id, room>>
    BY <1>3 DEF Shell, ShellCreate, ShellDelete, ShellKick, Exit, KickPlayer,
       Stop, StopBegins, JoinAccept, CloseClients, JoinClients, vars,
       threadVars
<1>4. QED
    BY <1>1, <1>2, <1>3 DEF Next

\* While the server runs, only a lost connection ends a session in a room.
LEMMA SessionKept ==
    ASSUME Typing, [Next]_vars, running,
           NEW d \in Conns, pc[d] \in InRoom, ~RoomReadFails(d)
    PROVE  pc'[d] \in InRoom
<1> USE DEF Goto, Typing, TypeOK, InRoom
<1>1. ASSUME NEW c \in Conns, ThreadStep(c)
      PROVE  pc'[d] \in InRoom
    BY <1>1 DEF ThreadStep, StartThread, HelloFails, LoadNextId, StoreNextId,
       Register, Greet, LobbyCheck, LobbyReadFails, EnterRoom, RoomCheck,
       RoomReadFails, AnswerLobbyState, LeaveRoom, CloseClient
<1>2. ASSUME NEW c \in Conns, Client(c)
      PROVE  pc'[d] \in InRoom
    BY <1>2 DEF Client, ClientRequest, Accept, PeerCloses, UdpDisconnect,
       HelloReceived, ListRooms, CreateRoom, JoinRoom, StartGame,
       GetLobbyState, Chat, threadVars
<1>3. ASSUME Shell \/ KickPlayer \/ Stop \/ UNCHANGED vars
      PROVE  UNCHANGED pc
    BY <1>3 DEF Shell, ShellCreate, ShellDelete, ShellKick, Exit, KickPlayer,
       Stop, StopBegins, JoinAccept, CloseClients, JoinClients, vars,
       threadVars
<1>4. QED
    BY <1>1, <1>2, <1>3 DEF Next

\* The player that a join adds to a list: of the session, which was in no
\* room and now is in that one.
Joins(c, r) ==
    /\ pc[c] = "lobbyRead" /\ pc'[c] = "joining"
    /\ room[c] = None /\ room'[c] = r
    /\ players'[r] = players[r] \cup {[id |-> id[c], seat |-> joined[r]]}
    /\ \A q \in RoomIds : q /= r => players'[q] = players[q]

\* A step either joins or adds nobody to any list.
LEMMA ListStep ==
    ASSUME Typing, [Next]_vars
    PROVE  \/ \E c \in Conns, r \in RoomIds : Joins(c, r)
           \/ \A r \in RoomIds : players'[r] \subseteq players[r]
<1> DEFINE Shrinks == \A r \in RoomIds : players'[r] \subseteq players[r]
<1>1. /\ players \in [RoomIds -> SUBSET Table!Entries]
      /\ joined \in [RoomIds -> Nat]
    BY DEF Typing, TypeOK, Table!TypeOK, RoomIds
<1>2. UNCHANGED players => Shrinks
    OBVIOUS
<1>3. ASSUME NEW p, NEW r \in RoomIds, Table!OnPlayerDisconnect(p, r)
      PROVE  Shrinks
    BY <1>1, <1>3 DEF Table!OnPlayerDisconnect, Table!Without
<1>4. ASSUME NEW p, Table!RemoveFromFirst(p)
      PROVE  Shrinks
    BY <1>1, <1>4 DEF Table!RemoveFromFirst, Table!Without, RoomIds
<1>5. ASSUME NEW c \in Conns, ThreadStep(c)
      PROVE  Shrinks
    <2>1. CASE RoomReadFails(c)
        BY <2>1, <1>3, CallerTyped DEF RoomReadFails, Goto, InRoom
    <2>2. QED
        BY <1>2, <1>5, <2>1, QuietThreads DEF roomVars
<1>6. ASSUME NEW c \in Conns, NEW r \in RoomIds, JoinRoom(c, r)
      PROVE  \/ Joins(c, r)
             \/ Shrinks
    <2>1. CASE UNCHANGED roomVars
        BY <2>1, <1>2 DEF roomVars
    <2>2. CASE Table!OnJoinRoom(r, id[c]) /\ Goto(c, "lobbyRead", "joining")
                   /\ room' = [room EXCEPT ![c] = r]
        BY <1>1, <2>2
           DEF Table!OnJoinRoom, Goto, Joins, Typing, TypeOK, Sessions
    <2>3. QED
        BY <1>6, <2>1, <2>2 DEF JoinRoom
<1>7. ASSUME NEW c \in Conns, Client(c), \A r \in RoomIds : ~JoinRoom(c, r)
      PROVE  Shrinks
    BY <1>2, <1>4, <1>7
       DEF Client, ClientRequest, Accept, PeerCloses, UdpDisconnect,
       HelloReceived, ListRooms, CreateRoom, StartGame, GetLobbyState, Chat,
       Table!OnCreateRoom, Table!OnStartGame, roomVars
<1>8. ASSUME NEW r \in RoomIds, ShellDelete(r)
      PROVE  Shrinks
    BY <1>1, <1>8 DEF ShellDelete, Table!DeleteRoom
<1>9. ASSUME Shell, \A r \in RoomIds : ~ShellDelete(r)
      PROVE  Shrinks
    BY <1>2, <1>4, <1>9
       DEF Shell, ShellCreate, ShellKick, Exit, Table!OnCreateRoom, roomVars
<1>10. ASSUME KickPlayer \/ Stop \/ UNCHANGED vars
       PROVE  Shrinks
    BY <1>2, <1>10 DEF KickPlayer, Stop, StopBegins, JoinAccept, CloseClients,
       JoinClients, vars, roomVars
<1>11. QED
    BY <1>5, <1>6, <1>7, <1>8, <1>9, <1>10 DEF Next

-----------------------------------------------------------------------------
(* The lists and the sessions.                                             *)

\* Being served in a room outlives every step but the loss of the connection,
\* which takes all the entries of the session off that room's list.
LEMMA GhostStep == Typing /\ NoGhostPlayers /\ [Next]_vars => NoGhostPlayers'
<1> SUFFICES ASSUME Typing, NoGhostPlayers, [Next]_vars, running',
                    NEW r \in RoomIds, NEW e \in players'[r]
             PROVE  \E c \in Conns : /\ id'[c] = e.id /\ room'[c] = r
                                     /\ pc'[c] \in InRoom
    BY DEF NoGhostPlayers, RoomIds, Table!RoomIds
<1>1. running
    <2>1. running' = running \/ running' = FALSE
        BY DEF Next, ThreadStep, StartThread, HelloFails, LoadNextId,
           StoreNextId, Register, Greet, LobbyCheck, LobbyReadFails, EnterRoom,
           RoomCheck, RoomReadFails, AnswerLobbyState, LeaveRoom, CloseClient,
           Client, ClientRequest, Accept, PeerCloses, UdpDisconnect,
           HelloReceived, ListRooms, CreateRoom, JoinRoom, StartGame,
           GetLobbyState, Chat, Shell, ShellCreate, ShellDelete, ShellKick,
           Exit, KickPlayer, Stop, StopBegins, JoinAccept, CloseClients,
           JoinClients, vars, ownerVars
    <2>2. QED
        BY <2>1
<1>2. CASE e \in players[r]
    <2>1. PICK c \in Conns : id[c] = e.id /\ room[c] = r /\ pc[c] \in InRoom
        BY <1>1, <1>2 DEF NoGhostPlayers
    <2>2. r /= None /\ id[c] /= 0
        BY <2>1, NoneAssumption, MaxRoomsAssumption
           DEF Typing, Sessions, Registered, RoomIds, Table!RoomIds
    <2>3. id'[c] = e.id /\ room'[c] = r
        BY <2>1, <2>2, IdentityKept
    <2>4. ~RoomReadFails(c)
        <3> SUFFICES ASSUME RoomReadFails(c) PROVE FALSE
            OBVIOUS
        <3>1. players'[r] = Table!Without(players[r], id[c])
            BY <2>1 DEF RoomReadFails, Table!OnPlayerDisconnect, Typing,
                        TypeOK, Table!TypeOK, RoomIds
        <3>2. QED
            BY <2>1, <3>1 DEF Table!Without
    <2>5. QED
        BY <1>1, <2>1, <2>3, <2>4, SessionKept
<1>3. CASE e \notin players[r]
    <2>1. PICK c \in Conns, q \in RoomIds : Joins(c, q)
        BY <1>3, ListStep
    <2>2. q = r /\ e = [id |-> id[c], seat |-> joined[r]]
        BY <1>3, <2>1 DEF Joins
    <2>3. id[c] /= 0
        BY <2>1 DEF Joins, Typing, Sessions, Registered
    <2>4. QED
        BY <2>1, <2>2, <2>3, IdentityKept DEF Joins, InRoom
<1>4. QED
    BY <1>2, <1>3

\* While the server runs, whoever is on a list has a session in that room,
\* for any number of connections and rooms, and with ids that collide.
THEOREM NoGhosts == Spec => []NoGhostPlayers
<1>1. Init => NoGhostPlayers
    BY DEF Init, Table!Init, NoGhostPlayers, RoomIds
<1>2. QED
    BY <1>1, GhostStep, TypingInvariant, PTL DEF Spec

\* An entry of a list, whether the server runs or not, is of a connection
\* that joined that room.
EntriesTraced ==
    \A r \in RoomIds : \A e \in players[r] :
        \E c \in Conns : id[c] = e.id /\ id[c] /= 0 /\ room[c] = r

\* Where the ids are distinct, so are those of the entries of a list.
EntriesDistinct ==
    UniquePlayerIds =>
        \A r \in RoomIds : \A e, f \in players[r] : e.id = f.id => e = f

Lists == EntriesTraced /\ EntriesDistinct

\* Ids are given once, so that two that collide now will collide later.
LEMMA UniqueBefore ==
    ASSUME Typing, [Next]_vars, UniquePlayerIds'
    PROVE  UniquePlayerIds
BY IdentityKept DEF UniquePlayerIds

LEMMA ListsStep == Typing /\ Lists /\ [Next]_vars => Lists'
<1> SUFFICES ASSUME Typing, Lists, [Next]_vars PROVE Lists'
    OBVIOUS
<1>1. RoomIds' = RoomIds /\ None \notin RoomIds
    BY NoneAssumption, MaxRoomsAssumption DEF RoomIds, Table!RoomIds
<1>2. ASSUME NEW r \in RoomIds, NEW e \in players[r]
      PROVE  \E c \in Conns : id'[c] = e.id /\ id'[c] /= 0 /\ room'[c] = r
    BY <1>1, IdentityKept DEF Lists, EntriesTraced
<1>3. CASE \A r \in RoomIds : players'[r] \subseteq players[r]
    BY <1>1, <1>2, <1>3, UniqueBefore
       DEF Lists, EntriesTraced, EntriesDistinct
<1>4. ASSUME NEW c \in Conns, NEW r \in RoomIds, Joins(c, r)
      PROVE  Lists'
    <2> DEFINE new == [id |-> id[c], seat |-> joined[r]]
    <2>1. /\ players'[r] = players[r] \cup {new}
          /\ \A q \in RoomIds : q /= r => players'[q] = players[q]
        BY <1>4 DEF Joins
    <2>2. id[c] /= 0 /\ id'[c] = id[c] /\ room[c] = None /\ room'[c] = r
        BY <1>4, IdentityKept DEF Joins, Typing, Sessions, Registered
    <2>3. EntriesTraced'
        BY <1>1, <1>2, <2>1, <2>2 DEF EntriesTraced
    <2>4. ASSUME UniquePlayerIds, NEW e \in players[r], e.id = new.id
          PROVE  FALSE
        <3>1. PICK d \in Conns : id[d] = e.id /\ id[d] /= 0 /\ room[d] = r
            BY DEF Lists, EntriesTraced
        <3>2. d = c
            BY <2>2, <2>4, <3>1 DEF UniquePlayerIds
        <3>3. QED
            BY <1>1, <2>2, <3>1, <3>2
    <2>5. EntriesDistinct'
        <3> SUFFICES ASSUME UniquePlayerIds', NEW q \in RoomIds,
                            NEW e \in players'[q], NEW f \in players'[q],
                            e.id = f.id
                     PROVE  e = f
            BY <1>1 DEF EntriesDistinct
        <3>1. UniquePlayerIds
            BY UniqueBefore
        <3>2. CASE q = r
            BY <2>1, <2>4, <3>1, <3>2 DEF Lists, EntriesDistinct
        <3>3. CASE q /= r
            BY <2>1, <3>1, <3>3 DEF Lists, EntriesDistinct
        <3>4. QED
            BY <3>2, <3>3
    <2>6. QED
        BY <2>3, <2>5 DEF Lists
<1>5. QED
    BY <1>3, <1>4, ListStep

LEMMA ListsInvariant == Spec => []Lists
<1>1. Init => Lists
    BY DEF Init, Table!Init, Lists, EntriesTraced, EntriesDistinct, RoomIds
<1>2. QED
    BY <1>1, ListsStep, TypingInvariant, PTL DEF Spec

\* Where the ids are distinct, a player is on one list at most and once.
THEOREM OneRoom == Spec => []OneRoomPerPlayer
<1>1. Lists => OneRoomPerPlayer
    BY DEF Lists, EntriesTraced, EntriesDistinct, OneRoomPerPlayer,
           UniquePlayerIds
<1>2. QED
    BY <1>1, ListsInvariant, PTL

-----------------------------------------------------------------------------
(* The maps of sockets and of rooms.                                       *)

\* What is in the maps was put there by a thread: the socket under the id of
\* its own connection, the room while its client is in it.
MapsTraced ==
    /\ \A p \in PlayerIds :
          playerSockets[p] /= None => id[playerSockets[p]] = p
    /\ \A p \in PlayerIds :
          playerRoomMap[p] /= None =>
              \E d \in Conns : /\ id[d] = p
                               /\ room[d] = playerRoomMap[p]
                               /\ pc[d] \in InRoom \cup {"leaving"}

\* Whose socket is in the map is registered, or could not be greeted.
Owned(d) ==
    \/ pc[d] \in Registered
    \/ pc[d] = "done" /\ room[d] = None

SocketsOwned ==
    \A p \in PlayerIds :
        playerSockets[p] /= None => Owned(playerSockets[p])

Maps == MapsTraced /\ SocketsOwned /\ ServedIsRegistered

MapsWritten(c) == Register(c) \/ EnterRoom(c) \/ LeaveRoom(c) \/ CloseClient(c)

\* Besides those four, no step writes the maps or moves a thread across the
\* boundaries at which they are written.
LEMMA MapsKept ==
    ASSUME Typing, [Next]_vars, \A c \in Conns : ~MapsWritten(c)
    PROVE  /\ UNCHANGED mapVars
           /\ \A d \in Conns :
                 /\ pc'[d] \in Registered => pc[d] \in Registered
                 /\ pc'[d] \in InRoom \ {"joining"} =>
                        pc[d] \in InRoom \ {"joining"}
                 /\ pc[d] \in InRoom \cup {"leaving"} =>
                        pc'[d] \in InRoom \cup {"leaving"}
<1> USE DEF Goto, Typing, TypeOK, InRoom, Registered
<1> DEFINE Kept ==
        /\ UNCHANGED mapVars
        /\ \A d \in Conns :
              /\ pc'[d] \in Registered => pc[d] \in Registered
              /\ pc'[d] \in InRoom \ {"joining"} =>
                     pc[d] \in InRoom \ {"joining"}
              /\ pc[d] \in InRoom \cup {"leaving"} =>
                     pc'[d] \in InRoom \cup {"leaving"}
<1>1. ASSUME NEW c \in Conns, ThreadStep(c)
      PROVE  Kept
    BY <1>1 DEF MapsWritten, ThreadStep, StartThread, HelloFails, LoadNextId,
       StoreNextId, Greet, LobbyCheck, LobbyReadFails, RoomCheck,
       RoomReadFails, AnswerLobbyState
<1>2. ASSUME NEW c \in Conns, Client(c)
      PROVE  Kept
    BY <1>2 DEF Client, ClientRequest, Accept, PeerCloses, UdpDisconnect,
       HelloReceived, ListRooms, CreateRoom, JoinRoom, StartGame,
       GetLobbyState, Chat, threadVars
<1>3. ASSUME Shell \/ KickPlayer \/ Stop \/ UNCHANGED vars
      PROVE  UNCHANGED <<mapVars, pc>>
    BY <1>3 DEF Shell, ShellCreate, ShellDelete, ShellKick, Exit, KickPlayer,
       Stop, StopBegins, JoinAccept, CloseClients, JoinClients, vars,
       threadVars
<1>4. QED
    BY <1>1, <1>2, <1>3 DEF Next

LEMMA MapsTracedStep ==
    ASSUME Typing, MapsTraced, [Next]_vars
    PROVE  MapsTraced'
<1> USE DEF Goto
<1>1. /\ playerSockets \in [PlayerIds -> Conns \cup {None}]
      /\ playerRoomMap \in [PlayerIds -> RoomIds \cup {None}]
      /\ pc \in [Conns -> PCs]
      /\ PlayerIds \subseteq Nat \ {0} /\ PlayerIds' = PlayerIds
      /\ None \notin RoomIds
    BY ConnsCount, NoneAssumption, MaxRoomsAssumption
       DEF Typing, TypeOK, PlayerIds, RoomIds, Table!RoomIds
<1>2. ASSUME NEW c \in Conns, Register(c)
      PROVE  MapsTraced'
    BY <1>1, <1>2, NoneAssumption
       DEF Register, MapsTraced, PCs, InRoom, Registered
<1>3. ASSUME NEW c \in Conns, EnterRoom(c)
      PROVE  MapsTraced'
    BY <1>1, <1>3 DEF EnterRoom, MapsTraced, InRoom
<1>4. ASSUME NEW c \in Conns, LeaveRoom(c)
      PROVE  MapsTraced'
    BY <1>1, <1>4 DEF LeaveRoom, MapsTraced, InRoom
<1>5. ASSUME NEW c \in Conns, CloseClient(c)
      PROVE  MapsTraced'
    BY <1>1, <1>5 DEF CloseClient, MapsTraced, InRoom
<1>6. CASE \A c \in Conns : ~MapsWritten(c)
    <2>1. ASSUME NEW p \in PlayerIds, playerSockets'[p] /= None
          PROVE  id'[playerSockets'[p]] = p
        <3>1. playerSockets'[p] \in Conns /\ playerSockets' = playerSockets
            BY <1>1, <1>6, <2>1, MapsKept DEF mapVars
        <3>2. QED
            BY <1>1, <2>1, <3>1, IdentityKept DEF MapsTraced
    <2>2. ASSUME NEW p \in PlayerIds, playerRoomMap'[p] /= None
          PROVE  \E d \in Conns : /\ id'[d] = p
                                  /\ room'[d] = playerRoomMap'[p]
                                  /\ pc'[d] \in InRoom \cup {"leaving"}
        <3>1. PICK d \in Conns : /\ id[d] = p
                                 /\ room[d] = playerRoomMap[p]
                                 /\ pc[d] \in InRoom \cup {"leaving"}
            BY <1>6, <2>2, MapsKept DEF mapVars, MapsTraced
        <3>2. playerRoomMap' = playerRoomMap
            BY <1>6, <3>1, MapsKept DEF mapVars
        <3>3. QED
            BY <1>1, <1>6, <2>2, <3>1, <3>2, MapsKept, IdentityKept
    <2>3. QED
        BY <1>1, <2>1, <2>2 DEF MapsTraced
<1>7. QED
    BY <1>2, <1>3, <1>4, <1>5, <1>6 DEF MapsWritten

\* A socket in the map stops being owned only as its session removes it.
LEMMA OwnedKept ==
    ASSUME Typing, [Next]_vars, NEW d \in Conns, Owned(d), ~CloseClient(d)
    PROVE  Owned(d)'
<1> USE DEF Goto, Typing, TypeOK, Sessions, Owned, InRoom, Registered
<1>1. ASSUME NEW c \in Conns, ThreadStep(c)
      PROVE  Owned(d)'
    BY <1>1 DEF ThreadStep, StartThread, HelloFails, LoadNextId, StoreNextId,
       Register, Greet, LobbyCheck, LobbyReadFails, EnterRoom, RoomCheck,
       RoomReadFails, AnswerLobbyState, LeaveRoom, CloseClient
<1>2. ASSUME NEW c \in Conns, Client(c)
      PROVE  Owned(d)'
    BY <1>2 DEF Client, ClientRequest, Accept, PeerCloses, UdpDisconnect,
       HelloReceived, ListRooms, CreateRoom, JoinRoom, StartGame,
       GetLobbyState, Chat, threadVars
<1>3. ASSUME Shell \/ KickPlayer \/ Stop \/ UNCHANGED vars
      PROVE  UNCHANGED <<pc, room>>
    BY <1>3 DEF Shell, ShellCreate, ShellDelete, ShellKick, Exit, KickPlayer,
       Stop, StopBegins, JoinAccept, CloseClients, JoinClients, vars,
       threadVars
<1>4. QED
    BY <1>1, <1>2, <1>3 DEF Next

LEMMA SocketsOwnedStep ==
    ASSUME Typing, MapsTraced, SocketsOwned, [Next]_vars
    PROVE  SocketsOwned'
<1>1. /\ playerSockets \in [PlayerIds -> Conns \cup {None}]
      /\ PlayerIds' = PlayerIds
      /\ \A c \in Conns : pc[c] \in Registered => id[c] \in PlayerIds
    BY CallerTyped DEF Typing, TypeOK, PlayerIds
<1> SUFFICES ASSUME NEW p \in PlayerIds, NEW d \in Conns,
                    playerSockets'[p] = d, d /= None
             PROVE  Owned(d)'
    <2>1. playerSockets' \in [PlayerIds -> Conns \cup {None}]
        BY TypingStep, <1>1 DEF Typing, TypeOK
    <2>2. QED
        BY <1>1, <2>1 DEF SocketsOwned
<1>2. ASSUME NEW c \in Conns, Register(c), playerSockets'[p] /= playerSockets[p]
      PROVE  Owned(d)'
    <2>1. d = c
        BY <1>1, <1>2 DEF Register
    <2>2. pc'[c] = "greet"
        BY <1>2 DEF Register, Goto, Typing, TypeOK
    <2>3. QED
        BY <2>1, <2>2 DEF Owned, Registered
<1>3. CASE playerSockets'[p] = playerSockets[p]
    <2>1. id[d] = p /\ Owned(d)
        BY <1>3 DEF MapsTraced, SocketsOwned
    <2>2. ~CloseClient(d)
        BY <1>1, <2>1 DEF CloseClient
    <2>3. QED
        BY <2>1, <2>2, OwnedKept
<1>4. ASSUME NEW c \in Conns, CloseClient(c)
      PROVE  playerSockets'[p] = playerSockets[p]
    BY <1>1, <1>4 DEF CloseClient
<1>5. ASSUME NEW c \in Conns, EnterRoom(c) \/ LeaveRoom(c)
      PROVE  playerSockets'[p] = playerSockets[p]
    BY <1>5 DEF EnterRoom, LeaveRoom
<1>6. CASE \A c \in Conns : ~MapsWritten(c)
    BY <1>3, <1>6, MapsKept DEF mapVars
<1>7. QED
    BY <1>2, <1>3, <1>4, <1>5, <1>6 DEF MapsWritten

\* Where the ids are distinct nobody overwrites or removes what another
\* thread put into the maps.
LEMMA ServedStep ==
    ASSUME Typing, ServedIsRegistered, [Next]_vars
    PROVE  ServedIsRegistered'
<1> USE DEF Goto
<1> SUFFICES ASSUME UniquePlayerIds',
                    NEW d \in Conns
             PROVE  /\ pc'[d] \in Registered => playerSockets'[id'[d]] = d
                    /\ pc'[d] \in InRoom \ {"joining"} =>
                           playerRoomMap'[id'[d]] = room'[d]
    BY DEF ServedIsRegistered
<1>1. /\ playerSockets \in [PlayerIds -> Conns \cup {None}]
      /\ playerRoomMap \in [PlayerIds -> RoomIds \cup {None}]
      /\ pc \in [Conns -> PCs]
      /\ \A c \in Conns :
            pc[c] \in Registered \cup {"register"} => id[c] \in PlayerIds
    BY DEF Typing, TypeOK, Sessions, PlayerIds
<1>2. /\ UniquePlayerIds
      /\ pc[d] \in Registered => playerSockets[id[d]] = d
      /\ pc[d] \in InRoom \ {"joining"} => playerRoomMap[id[d]] = room[d]
    BY UniqueBefore DEF ServedIsRegistered
<1>3. \A c \in Conns : id[c] \in PlayerIds /\ id[c] = id[d] => c = d
    BY <1>2, ConnsCount DEF UniquePlayerIds
<1>4. ASSUME NEW c \in Conns, Register(c)
      PROVE  /\ pc'[d] \in Registered => playerSockets'[id'[d]] = d
             /\ pc'[d] \in InRoom \ {"joining"} =>
                    playerRoomMap'[id'[d]] = room'[d]
    BY <1>1, <1>2, <1>3, <1>4 DEF Register, Registered, InRoom
<1>5. ASSUME NEW c \in Conns, EnterRoom(c)
      PROVE  /\ pc'[d] \in Registered => playerSockets'[id'[d]] = d
             /\ pc'[d] \in InRoom \ {"joining"} =>
                    playerRoomMap'[id'[d]] = room'[d]
    BY <1>1, <1>2, <1>3, <1>5 DEF EnterRoom, Registered, InRoom
<1>6. ASSUME NEW c \in Conns, LeaveRoom(c)
      PROVE  /\ pc'[d] \in Registered => playerSockets'[id'[d]] = d
             /\ pc'[d] \in InRoom \ {"joining"} =>
                    playerRoomMap'[id'[d]] = room'[d]
    BY <1>1, <1>2, <1>3, <1>6 DEF LeaveRoom, Registered, InRoom
<1>7. ASSUME NEW c \in Conns, CloseClient(c)
      PROVE  /\ pc'[d] \in Registered => playerSockets'[id'[d]] = d
             /\ pc'[d] \in InRoom \ {"joining"} =>
                    playerRoomMap'[id'[d]] = room'[d]
    BY <1>1, <1>2, <1>3, <1>7 DEF CloseClient, Registered, InRoom
<1>8. CASE \A c \in Conns : ~MapsWritten(c)
    <2>1. /\ UNCHANGED mapVars
          /\ pc'[d] \in Registered => pc[d] \in Registered
          /\ pc'[d] \in InRoom \ {"joining"} => pc[d] \in InRoom \ {"joining"}
        BY <1>8, MapsKept
    <2>2. pc[d] \in Registered => id'[d] = id[d]
        BY IdentityKept DEF Typing, Sessions
    <2>3. pc[d] \in InRoom => room'[d] = room[d] /\ pc[d] \in Registered
        BY IdentityKept, NoneAssumption, MaxRoomsAssumption
           DEF Typing, Sessions, Registered, RoomIds, Table!RoomIds
    <2>4. QED
        BY <1>2, <2>1, <2>2, <2>3 DEF mapVars
<1>9. QED
    BY <1>4, <1>5, <1>6, <1>7, <1>8 DEF MapsWritten

LEMMA MapsInvariant == Spec => []Maps
<1>1. Init => Maps
    BY DEF Init, Maps, MapsTraced, SocketsOwned, ServedIsRegistered,
       Registered, InRoom
<1>2. Typing /\ Maps /\ [Next]_vars => Maps'
    BY MapsTracedStep, SocketsOwnedStep, ServedStep DEF Maps
<1>3. QED
    BY <1>1, <1>2, TypingInvariant, PTL DEF Spec

\* Where the ids are distinct, stop and kick find the socket of every client
\* that is served, and chat finds its room.
THEOREM Registration == Spec => []ServedIsRegistered
<1>1. Maps => ServedIsRegistered
    BY DEF Maps
<1>2. QED
    BY <1>1, MapsInvariant, PTL

\* Whatever ids collide, what is left in the maps by sessions that ended are
\* sockets of clients that could not be greeted and never were in a room.
THEOREM StaleIsInert == Spec => []StaleEntriesAreInert
<1>1. Typing /\ Maps => StaleEntriesAreInert
    BY DEF Maps, MapsTraced, SocketsOwned, Owned, StaleEntriesAreInert
<1>2. QED
    BY <1>1, TypingInvariant, MapsInvariant, PTL

\* Chat messages are written by Chat alone.
LEMMA ChatWrites ==
    ASSUME Typing, [Next]_vars, NEW c \in Conns, NEW d \in Conns,
           reply'[d] = [type |-> "CHAT_MESSAGE", from |-> c],
           reply'[d] /= reply[d]
    PROVE  Chat(c) /\ d \in Recipients(c)
<1>1. reply \in [Conns -> Replies]
    BY DEF Typing, TypeOK
<1>2. ASSUME NEW b \in Conns, NEW m, Write(b, m), m.type /= "CHAT_MESSAGE"
      PROVE  FALSE
    BY <1>1, <1>2 DEF Write
<1>3. ASSUME NEW b \in Conns, Chat(b)
      PROVE  b = c /\ d \in Recipients(b)
    BY <1>1, <1>3 DEF Chat
<1>4. ASSUME NEW b \in Conns,
             GetLobbyState(b) \/ \E r \in RoomIds : JoinRoom(b, r)
      PROVE  FALSE
    BY <1>2, <1>4 DEF JoinRoom, GetLobbyState, Sent
<1>5. ASSUME NEW b \in Conns, ThreadStep(b)
      PROVE  FALSE
    BY <1>5 DEF ThreadStep, StartThread, HelloFails, LoadNextId, StoreNextId,
       Register, Greet, LobbyCheck, LobbyReadFails, EnterRoom, RoomCheck,
       RoomReadFails, AnswerLobbyState, LeaveRoom, CloseClient
<1>6. ASSUME NEW b \in Conns,
             \/ Accept(b) \/ PeerCloses(b) \/ UdpDisconnect(b)
             \/ HelloReceived(b) \/ ListRooms(b) \/ CreateRoom(b)
             \/ StartGame(b)
      PROVE  FALSE
    BY <1>6 DEF Accept, PeerCloses, UdpDisconnect, HelloReceived, ListRooms,
       CreateRoom, StartGame, threadVars
<1>7. ASSUME Shell \/ KickPlayer \/ Stop \/ UNCHANGED vars
      PROVE  FALSE
    BY <1>7 DEF Shell, ShellCreate, ShellDelete, ShellKick, Exit, KickPlayer,
       Stop, StopBegins, JoinAccept, CloseClients, JoinClients, vars,
       threadVars
<1>8. QED
    BY <1>3, <1>4, <1>5, <1>6, <1>7 DEF Next, Client, ClientRequest

\* Where the ids are distinct, the socket under an id and the room under the
\* same id are of one connection, so that the recipients are in the room.
LEMMA ChatStep ==
    ASSUME Typing, Maps, [Next]_vars, UniquePlayerIds,
           NEW c \in Conns, NEW d \in Conns, Chat(c), d \in Recipients(c)
    PROVE  d /= c /\ room[d] = room[c] /\ pc[d] \in InRoom \cup {"leaving"}
<1>1. PICK p \in PlayerIds : /\ p /= id[c] /\ playerSockets[p] = d
                             /\ playerSockets[p] /= None
                             /\ playerRoomMap[p] = room[c]
    BY DEF Recipients
<1>2. id[d] = p
    BY <1>1 DEF Maps, MapsTraced
<1>3. room[c] /= None
    BY NoneAssumption, MaxRoomsAssumption
       DEF Chat, Goto, Typing, Sessions, InRoom, RoomIds, Table!RoomIds
<1>4. PICK e \in Conns : /\ id[e] = p /\ room[e] = room[c]
                         /\ pc[e] \in InRoom \cup {"leaving"}
    BY <1>1, <1>3 DEF Maps, MapsTraced
<1>5. e = d
    BY <1>1, <1>2, <1>4, ConnsCount DEF UniquePlayerIds
<1>6. QED
    BY <1>1, <1>2, <1>4, <1>5

\* Where the ids are distinct, chat stays in the room of its author.
THEOREM ChatIsPrivate == Spec => ChatStaysInRoom
<1>1. Typing /\ Maps /\ [Next]_vars
        => [UniquePlayerIds =>
              \A c, d \in Conns :
                  /\ reply'[d] = [type |-> "CHAT_MESSAGE", from |-> c]
                  /\ reply'[d] /= reply[d]
                  => d /= c /\ room[d] = room[c]
                     /\ pc[d] \in InRoom \cup {"leaving"}]_vars
    BY ChatWrites, ChatStep
<1>2. QED
    BY <1>1, TypingInvariant, MapsInvariant, PTL DEF Spec, ChatStaysInRoom

-----------------------------------------------------------------------------
(* The announced starts.                                                   *)

\* A room of a session has been created, one with an id not given out has
\* not: a room that is created is never the room of a session.
RoomsKnown ==
    /\ \A c \in Conns : room[c] /= None => room[c] < nextRoom
    /\ \A r \in RoomIds : r >= nextRoom => status[r] = "NONE"

Starts == RoomsKnown /\ StartIsReal

\* What a step of the table can do to the ids and the states of the rooms.
LEMMA StatusStep ==
    ASSUME Typing, [Next]_vars
    PROVE  /\ nextRoom' \in {nextRoom, nextRoom + 1}
           /\ \A r \in RoomIds :
                 \/ status'[r] = status[r]
                 \/ status[r] /= "NONE" /\ status'[r] \in {"PLAYING", "NONE"}
                 \/ r = nextRoom /\ nextRoom' = nextRoom + 1
<1> USE DEF Typing, TypeOK, Table!TypeOK, RoomIds
<1>1. CASE Table!OnCreateRoom
    BY <1>1 DEF Table!OnCreateRoom
<1>2. ASSUME NEW q \in RoomIds, NEW p \in PlayerIds,
             \/ Table!OnJoinRoom(q, p) \/ Table!OnPlayerDisconnect(p, q)
             \/ Table!OnStartGame(q, p) \/ Table!DeleteRoom(q)
             \/ Table!RemoveFromFirst(p)
      PROVE  /\ nextRoom' = nextRoom
             /\ \A r \in RoomIds :
                   \/ status'[r] = status[r]
                   \/ status[r] /= "NONE" /\ status'[r] \in {"PLAYING", "NONE"}
    BY <1>2 DEF Table!OnJoinRoom, Table!OnPlayerDisconnect, Table!OnStartGame,
       Table!DeleteRoom, Table!RemoveFromFirst
<1>3. ASSUME NEW q \in RoomIds, Table!DeleteRoom(q)
      PROVE  /\ nextRoom' = nextRoom
             /\ \A r \in RoomIds :
                   \/ status'[r] = status[r]
                   \/ status[r] /= "NONE" /\ status'[r] \in {"PLAYING", "NONE"}
    BY <1>3 DEF Table!DeleteRoom
<1>4. ASSUME NEW p, Table!RemoveFromFirst(p)
      PROVE  UNCHANGED <<nextRoom, status>>
    BY <1>4 DEF Table!RemoveFromFirst
<1>5. CASE UNCHANGED Table!vars
    BY <1>5 DEF Table!vars
<1>6. QED
    BY <1>1, <1>2, <1>3, <1>4, <1>5, TableStep DEF Table!Next

\* A notification comes only from GetLobbyState, and a room only from a join.
LEMMA StartWrites ==
    ASSUME Typing, [Next]_vars, NEW c \in Conns
    PROVE  /\ reply'[c].type = "GAME_STARTING_NOTIFICATION" =>
                 \/ reply'[c] = reply[c]
                 \/ GetLobbyState(c) /\ status[room[c]] = "PLAYING"
           /\ room'[c] /= room[c] =>
                  status[room'[c]] = "LOBBY" /\ UNCHANGED nextRoom
<1> DEFINE Goal ==
        /\ reply'[c].type = "GAME_STARTING_NOTIFICATION" =>
              \/ reply'[c] = reply[c]
              \/ GetLobbyState(c) /\ status[room[c]] = "PLAYING"
        /\ room'[c] /= room[c] =>
               status[room'[c]] = "LOBBY" /\ UNCHANGED nextRoom
<1>1. reply \in [Conns -> Replies] /\ room \in [Conns -> RoomIds \cup {None}]
    BY DEF Typing, TypeOK
<1>2. ASSUME NEW b \in Conns, NEW r \in RoomIds, JoinRoom(b, r)
      PROVE  Goal
    BY <1>1, <1>2 DEF JoinRoom, Write, Table!OnJoinRoom, Table!CanJoin
<1>3. ASSUME NEW b \in Conns, GetLobbyState(b)
      PROVE  Goal
    BY <1>1, <1>3 DEF GetLobbyState, Write
<1>4. ASSUME NEW b \in Conns, Chat(b)
      PROVE  Goal
    BY <1>1, <1>4 DEF Chat
<1>5. ASSUME NEW b \in Conns, ThreadStep(b)
      PROVE  UNCHANGED <<reply, room>>
    BY <1>5 DEF ThreadStep, StartThread, HelloFails, LoadNextId, StoreNextId,
       Register, Greet, LobbyCheck, LobbyReadFails, EnterRoom, RoomCheck,
       RoomReadFails, AnswerLobbyState, LeaveRoom, CloseClient
<1>6. ASSUME NEW b \in Conns,
             \/ Accept(b) \/ PeerCloses(b) \/ UdpDisconnect(b)
             \/ HelloReceived(b) \/ ListRooms(b) \/ CreateRoom(b)
             \/ StartGame(b)
      PROVE  UNCHANGED <<reply, room>>
    BY <1>6 DEF Accept, PeerCloses, UdpDisconnect, HelloReceived, ListRooms,
       CreateRoom, StartGame, threadVars
<1>7. ASSUME Shell \/ KickPlayer \/ Stop \/ UNCHANGED vars
      PROVE  UNCHANGED <<reply, room>>
    BY <1>7 DEF Shell, ShellCreate, ShellDelete, ShellKick, Exit, KickPlayer,
       Stop, StopBegins, JoinAccept, CloseClients, JoinClients, vars,
       threadVars
<1>8. QED
    BY <1>2, <1>3, <1>4, <1>5, <1>6, <1>7 DEF Next, Client, ClientRequest

LEMMA StartsStep == Typing /\ Starts /\ [Next]_vars => Starts'
<1> SUFFICES ASSUME Typing, Starts, [Next]_vars PROVE Starts'
    OBVIOUS
<1>1. /\ nextRoom \in Nat /\ RoomIds \subseteq Nat /\ RoomIds' = RoomIds
      /\ None \notin Nat
      /\ room \in [Conns -> RoomIds \cup {None}]
      /\ room' \in [Conns -> RoomIds \cup {None}]
    BY NoneAssumption, MaxRoomsAssumption, TypingStep
       DEF Typing, TypeOK, Table!TypeOK, RoomIds, Table!RoomIds
<1>2. nextRoom' \in {nextRoom, nextRoom + 1}
    BY StatusStep
<1>3. ASSUME NEW c \in Conns, room'[c] /= None
      PROVE  room'[c] < nextRoom'
    <2>1. room'[c] \in RoomIds /\ room'[c] \in Nat
        BY <1>1, <1>3
    <2>2. CASE room'[c] = room[c]
        <3>1. room'[c] < nextRoom
            BY <1>3, <2>2 DEF Starts, RoomsKnown
        <3>2. QED
            BY <1>1, <1>2, <2>1, <3>1
    <2>3. CASE room'[c] /= room[c]
        <3>1. status[room'[c]] = "LOBBY" /\ nextRoom' = nextRoom
            BY <2>3, StartWrites
        <3>2. ~(room'[c] >= nextRoom)
            BY <2>1, <3>1 DEF Starts, RoomsKnown
        <3>3. QED
            BY <1>1, <2>1, <3>1, <3>2
    <2>4. QED
        BY <2>2, <2>3
<1>4. ASSUME NEW r \in RoomIds, r >= nextRoom'
      PROVE  status'[r] = "NONE"
    BY <1>1, <1>2, <1>4, StatusStep DEF Starts, RoomsKnown
<1>5. ASSUME NEW c \in Conns,
             reply'[c].type = "GAME_STARTING_NOTIFICATION"
      PROVE  room'[c] /= None /\ status'[room'[c]] /= "LOBBY"
    <2>1. room[c] /= None /\ status[room[c]] /= "LOBBY"
        <3>1. CASE reply'[c] = reply[c]
            BY <1>5, <3>1 DEF Starts, StartIsReal
        <3>2. CASE GetLobbyState(c) /\ status[room[c]] = "PLAYING"
            BY <1>1, <3>2 DEF GetLobbyState, Goto, Typing, Sessions, InRoom
        <3>3. QED
            BY <1>5, <3>1, <3>2, StartWrites
    <2>2. room'[c] = room[c] /\ room[c] \in RoomIds /\ room[c] < nextRoom
        BY <1>1, <2>1, IdentityKept DEF Starts, RoomsKnown
    <2>3. room[c] \in Nat /\ room[c] /= nextRoom /\ status[room[c]] /= "LOBBY"
        <3>1. room[c] \in Nat /\ nextRoom \in Nat /\ room[c] < nextRoom
            BY <1>1, <2>2
        <3>2. room[c] /= nextRoom
            BY <3>1
        <3>3. QED
            BY <2>1, <3>1, <3>2
    <2>4. status'[room[c]] /= "LOBBY"
        BY <2>2, <2>3, StatusStep
    <2>5. QED
        BY <2>1, <2>2, <2>4
<1>6. QED
    BY <1>1, <1>3, <1>4, <1>5 DEF Starts, RoomsKnown, StartIsReal

\* A client told that its game is starting is in a room that has started, or
\* was deleted since.
THEOREM StartsAreReal == Spec => []StartIsReal
<1>1. Init => Starts
    BY DEF Init, Table!Init, Starts, RoomsKnown, StartIsReal, Sent, RoomIds
<1>2. Starts => StartIsReal
    BY DEF Starts
<1>3. QED
    BY <1>1, <1>2, StartsStep, TypingInvariant, PTL DEF Spec

-----------------------------------------------------------------------------
(* The stop.                                                               *)

\* Once acceptLoop has been joined no connection is accepted or waits for its
\* thread, and once all threads have been joined there is none.
Stopping ==
    /\ main \notin {"running", "exiting"} => ~running
    /\ main \in {"closeClients", "joinClients", "stopped"} => acceptor = None
    /\ StoppedIsQuiet

LEMMA StoppingStep == Typing /\ Stopping /\ [Next]_vars => Stopping'
<1> SUFFICES ASSUME Typing, Stopping, [Next]_vars PROVE Stopping'
    OBVIOUS
<1> USE DEF Stopping, StoppedIsQuiet, Goto, Typing, TypeOK
<1>1. None \notin Conns
    BY NoneAssumption
<1>2. ASSUME NEW c \in Conns, ThreadStep(c)
      PROVE  Stopping'
    BY <1>1, <1>2 DEF ThreadStep, StartThread, HelloFails, LoadNextId,
       StoreNextId, Register, Greet, LobbyCheck, LobbyReadFails, EnterRoom,
       RoomCheck, RoomReadFails, AnswerLobbyState, LeaveRoom, CloseClient,
       ownerVars
<1>3. ASSUME NEW c \in Conns, Client(c)
      PROVE  Stopping'
    BY <1>3 DEF Client, ClientRequest, Accept, PeerCloses, UdpDisconnect,
       HelloReceived, ListRooms, CreateRoom, JoinRoom, StartGame,
       GetLobbyState, Chat, threadVars, ownerVars
<1>4. ASSUME Shell \/ KickPlayer \/ Stop \/ UNCHANGED vars
      PROVE  Stopping'
    BY <1>4 DEF Shell, ShellCreate, ShellDelete, ShellKick, Exit, Prompt,
       KickPlayer, Stop, StopBegins, JoinAccept, CloseClients, JoinClients,
       vars, threadVars, ownerVars
<1>5. QED
    BY <1>2, <1>3, <1>4 DEF Next

\* When stop() has returned no connection has a thread left.
THEOREM StopIsQuiet == Spec => []StoppedIsQuiet
<1>1. Init => Stopping
    BY DEF Init, Stopping, StoppedIsQuiet
<1>2. Stopping => StoppedIsQuiet
    BY DEF Stopping
<1>3. QED
    BY <1>1, <1>2, StoppingStep, TypingInvariant, PTL DEF Spec
=============================================================================
