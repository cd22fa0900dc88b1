------------------------------ MODULE TcpServer ------------------------------
(***************************************************************************)
(* The TCP side of the server (Src/Network/TCPServer.cpp) with what calls  *)
(* the room table besides it: the shell and the UDP packets that remove a  *)
(* player (Src/Server/ServerManager.cpp).  Every accepted connection has a *)
(* thread of its own, which runs handleClient and, once its client has     *)
(* joined a room, handleInRoomClient.  The threads share the player id     *)
(* counter (unprotected), the maps of sockets and of rooms (under          *)
(* TCPServer::_serverMutex) and, through the handler's callbacks, the room *)
(* table of Rooms.tla (under ServerManager::_serverMutex).                 *)
(*                                                                         *)
(* A client is any program that follows the message grammar: each read of  *)
(* its thread may return any message that is legal there.  Of what it is   *)
(* sent, "reply" keeps the last join response, start notification or chat  *)
(* message; greetings, lists and lobby states are not recorded.            *)
(***************************************************************************)
EXTENDS Naturals, FiniteSets

CONSTANTS
    Conns,              \* the connections clients open, each used once
    None,               \* no connection, no room
    MaxRooms,           \* bound: rooms created in a behaviour
    Commands,           \* bound: the shell commands that are used
    CloseWakesReader    \* does closing a socket end a read blocked on it?

ASSUME ConnsAssumption == IsFiniteSet(Conns)
ASSUME NoneAssumption == None \notin Conns \cup Nat
ASSUME MaxRoomsAssumption == MaxRooms \in Nat
ASSUME WakesAssumption == CloseWakesReader \in BOOLEAN

VARIABLES
    status, players, joined, nextRoom,      \* the room table
    running,        \* TCPServer::_running
    nextPlayerId,   \* _nextPlayerId
    idRead,         \* a thread's copy of it, while it increments it
    playerSockets,  \* _playerSockets: the connection registered for an id
    playerRoomMap,  \* _playerRoomMap: the room an id is in
    sock,           \* the socket of each connection, seen from the server
    pc,             \* where each connection's thread is
    id,             \* its playerId, 0 until it has one
    room,           \* its roomId, None until it joined one
    reply,          \* the last such message its client was sent
    acceptor,       \* the connection acceptLoop is about to start a thread for
    main,           \* the thread that owns the server
    shell           \* the id a "kick" is half done for, or 0

roomVars   == <<status, players, joined, nextRoom>>
mapVars    == <<playerSockets, playerRoomMap>>
idVars     == <<nextPlayerId, idRead>>
threadVars == <<sock, pc, id, room, reply>>
ownerVars  == <<running, acceptor, main, shell>>
vars == <<roomVars, mapVars, idVars, threadVars, ownerVars>>

PlayerIds == 1 .. Cardinality(Conns)

Table == INSTANCE Rooms WITH MaxJoins <- Cardinality(Conns)

RoomIds == Table!RoomIds

\* Where a thread is blocked in asio::read.
Reading == {"hello", "lobbyRead", "roomRead"}

\* Where a thread is while its client is on its room's list.
InRoom == {"joining", "room", "roomRead", "poll"}

\* Where a thread is while its client is registered in the maps.
Registered == {"greet", "lobby", "lobbyRead", "leaving", "closing"} \cup InRoom

PCs == {"none", "hello", "load", "store", "register", "done"} \cup Registered

Sent(type) == [type |-> type]

Replies ==
    [type : {"NOTHING", "GAME_STARTING_NOTIFICATION"}]
        \cup [type : {"JOIN_ROOM_RESPONSE"}, status : {0, 1}]
        \cup [type : {"CHAT_MESSAGE"}, from : Conns]

TypeOK ==
    /\ Table!TypeOK
    /\ running \in BOOLEAN
    /\ nextPlayerId \in 1 .. Cardinality(Conns) + 1
    /\ idRead \in [Conns -> 0 .. Cardinality(Conns)]
    /\ playerSockets \in [PlayerIds -> Conns \cup {None}]
    /\ playerRoomMap \in [PlayerIds -> RoomIds \cup {None}]
    /\ sock \in [Conns -> {"none", "open", "reset", "orphan", "closed"}]
    /\ pc \in [Conns -> PCs]
    /\ id \in [Conns -> 0 .. Cardinality(Conns)]
    /\ room \in [Conns -> RoomIds \cup {None}]
    /\ reply \in [Conns -> Replies]
    /\ acceptor \in Conns \cup {None}
    /\ main \in {"running", "exiting", "joinAccept", "closeClients",
                 "joinClients", "stopped"}
    /\ shell \in 0 .. Cardinality(Conns)

Init ==
    /\ Table!Init
    /\ running = TRUE
    /\ nextPlayerId = 1
    /\ idRead = [c \in Conns |-> 0]
    /\ playerSockets = [p \in PlayerIds |-> None]
    /\ playerRoomMap = [p \in PlayerIds |-> None]
    /\ sock = [c \in Conns |-> "none"]
    /\ pc = [c \in Conns |-> "none"]
    /\ id = [c \in Conns |-> 0]
    /\ room = [c \in Conns |-> None]
    /\ reply = [c \in Conns |-> Sent("NOTHING")]
    /\ acceptor = None
    /\ main = "running"
    /\ shell = 0

-----------------------------------------------------------------------------
(* Sockets. "open" and "reset" (the peer is gone) are open descriptors;    *)
(* "orphan" is a closed descriptor on which a read is still blocked in the *)
(* kernel: what the peer sends next is still delivered to that read.       *)

Goto(c, from, to) == pc[c] = from /\ pc' = [pc EXCEPT ![c] = to]

\* close() by another thread, while c's thread may be blocked in a read. A
\* socket that is closed already is left as it is.
CloseByOther(c) ==
    IF sock[c] = "orphan"
       \/ (pc[c] \in Reading /\ sock[c] = "open" /\ ~CloseWakesReader)
    THEN "orphan" ELSE "closed"

\* A blocked read returns a message of the peer.
Receives(c) ==
    /\ sock[c] \in {"open", "orphan"}
    /\ sock' = [sock EXCEPT ![c] = IF @ = "orphan" THEN "closed" ELSE @]

\* A read fails: nobody is at the other end, or the descriptor is closed.
ReadFails(c) == sock[c] \in {"reset", "closed"}

\* asio::write with its error code ignored: nothing is sent on a closed
\* descriptor.
Write(c, message) ==
    reply' = IF sock[c] \in {"open", "reset"} THEN [reply EXCEPT ![c] = message]
                                              ELSE reply

\* The peer closes its end, or its program dies.
PeerCloses(c) ==
    /\ sock[c] \in {"open", "orphan"}
    /\ sock' = [sock EXCEPT ![c] = IF @ = "open" THEN "reset" ELSE "closed"]
    /\ UNCHANGED <<roomVars, mapVars, idVars, pc, id, room, reply, ownerVars>>

-----------------------------------------------------------------------------
(* acceptLoop and the part of handleClient before its loop.                *)

\* accept returned a connection and _running was still set ...
Accept(c) ==
    /\ running /\ acceptor = None
    /\ sock[c] = "none"
    /\ sock' = [sock EXCEPT ![c] = "open"]
    /\ acceptor' = c
    /\ UNCHANGED <<roomVars, mapVars, idVars, pc, id, room, reply, running,
                   main, shell>>

\* ... so it gets a thread, even if _running was cleared since.
StartThread(c) ==
    /\ acceptor = c
    /\ Goto(c, "none", "hello")
    /\ acceptor' = None
    /\ UNCHANGED <<roomVars, mapVars, idVars, sock, id, room, reply, running,
                   main, shell>>

HelloReceived(c) ==
    /\ Receives(c)
    /\ Goto(c, "hello", "load")
    /\ UNCHANGED <<roomVars, mapVars, idVars, id, room, reply, ownerVars>>

\* Only an end of file is an error: a reset leaves in the request the
\* default type CONNECT, and passes for a greeting.
HelloFails(c) ==
    /\ ReadFails(c)
    /\ \/ Goto(c, "hello", "load") /\ UNCHANGED sock
       \/ Goto(c, "hello", "done") /\ sock' = [sock EXCEPT ![c] = "closed"]
    /\ UNCHANGED <<roomVars, mapVars, idVars, id, room, reply, ownerVars>>

\* _nextPlayerId++ on a plain uint32_t that all threads share: a load ...
LoadNextId(c) ==
    /\ Goto(c, "load", "store")
    /\ idRead' = [idRead EXCEPT ![c] = nextPlayerId]
    /\ UNCHANGED <<roomVars, mapVars, nextPlayerId, sock, id, room, reply,
                   ownerVars>>

\* ... and a store, between which another thread may do either.
StoreNextId(c) ==
    /\ Goto(c, "store", "register")
    /\ nextPlayerId' = idRead[c] + 1
    /\ id' = [id EXCEPT ![c] = idRead[c]]
    /\ UNCHANGED <<roomVars, mapVars, idRead, sock, room, reply, ownerVars>>

\* Mutant: the socket is not entered into the map.
RegisterNothing(c) ==
    /\ Goto(c, "register", "greet")
    /\ UNCHANGED <<roomVars, mapVars, idVars, sock, id, room, reply,
                   ownerVars>>

Register(c) ==
    /\ Goto(c, "register", "greet")
    /\ playerSockets' = [playerSockets EXCEPT ![id[c]] = c]
    /\ UNCHANGED <<roomVars, playerRoomMap, idVars, sock, id, room, reply,
                   ownerVars>>

\* CONNECT_OK. If it cannot be written the thread returns at once, and
\* leaves its client in the maps.
Greet(c) ==
    /\ \/ sock[c] /= "closed" /\ Goto(c, "greet", "lobby")
       \/ sock[c] /= "open" /\ Goto(c, "greet", "done")
    /\ UNCHANGED <<roomVars, mapVars, idVars, sock, id, room, reply,
                   ownerVars>>

-----------------------------------------------------------------------------
(* The loop of handleClient.                                               *)

LobbyCheck(c) ==
    /\ Goto(c, "lobby", IF running THEN "lobbyRead" ELSE "closing")
    /\ UNCHANGED <<roomVars, mapVars, idVars, sock, id, room, reply,
                   ownerVars>>

LobbyReadFails(c) ==
    /\ ReadFails(c)
    /\ Goto(c, "lobbyRead", "closing")
    /\ UNCHANGED <<roomVars, mapVars, idVars, sock, id, room, reply,
                   ownerVars>>

\* Listing the rooms changes nothing.
ListRooms(c) ==
    /\ Receives(c)
    /\ Goto(c, "lobbyRead", "lobby")
    /\ UNCHANGED <<roomVars, mapVars, idVars, id, room, reply, ownerVars>>

CreateRoom(c) ==
    /\ Receives(c)
    /\ Goto(c, "lobbyRead", "lobby")
    /\ Table!OnCreateRoom
    /\ UNCHANGED <<mapVars, idVars, id, room, reply, ownerVars>>

\* The room may be any the client has heard of, or none that exists.
JoinRoom(c, r) ==
    /\ Receives(c)
    /\ \/ /\ Goto(c, "lobbyRead", "joining")
          /\ Table!OnJoinRoom(r, id[c])
          /\ room' = [room EXCEPT ![c] = r]
          /\ Write(c, [type |-> "JOIN_ROOM_RESPONSE", status |-> 1])
       \/ /\ ~Table!CanJoin(r)
          /\ Goto(c, "lobbyRead", "lobby")
          /\ Write(c, [type |-> "JOIN_ROOM_RESPONSE", status |-> 0])
          /\ UNCHANGED <<roomVars, room>>
    /\ UNCHANGED <<mapVars, idVars, id, ownerVars>>

\* Mutant: after a join the loop of handleClient goes on.
EnterAndStayInLobby(c) ==
    /\ Goto(c, "joining", "lobby")
    /\ playerRoomMap' = [playerRoomMap EXCEPT ![id[c]] = room[c]]
    /\ UNCHANGED <<roomVars, playerSockets, idVars, sock, id, room, reply,
                   ownerVars>>

EnterRoom(c) ==
    /\ Goto(c, "joining", "room")
    /\ playerRoomMap' = [playerRoomMap EXCEPT ![id[c]] = room[c]]
    /\ UNCHANGED <<roomVars, playerSockets, idVars, sock, id, room, reply,
                   ownerVars>>

-----------------------------------------------------------------------------
(* The loop of handleInRoomClient.                                         *)

\* When the server stops, the loop ends without a disconnection.
RoomCheck(c) ==
    /\ Goto(c, "room", IF running THEN "roomRead" ELSE "leaving")
    /\ UNCHANGED <<roomVars, mapVars, idVars, sock, id, room, reply,
                   ownerVars>>

\* Mutant: a lost connection is not reported to the room table.
RoomReadFailsSilently(c) ==
    /\ ReadFails(c)
    /\ Goto(c, "roomRead", "leaving")
    /\ UNCHANGED <<roomVars, mapVars, idVars, sock, id, room, reply,
                   ownerVars>>

RoomReadFails(c) ==
    /\ ReadFails(c)
    /\ Goto(c, "roomRead", "leaving")
    /\ Table!OnPlayerDisconnect(id[c], room[c])
    /\ UNCHANGED <<mapVars, idVars, sock, id, room, reply, ownerVars>>

StartGame(c) ==
    /\ Receives(c)
    /\ Goto(c, "roomRead", "room")
    /\ Table!OnStartGame(room[c], id[c])
    /\ UNCHANGED <<mapVars, idVars, id, room, reply, ownerVars>>

\* Mutant: every existing room is said to be starting.
GetLobbyStateHasty(c) ==
    /\ Receives(c)
    /\ Goto(c, "roomRead", "room")
    /\ status[room[c]] /= "NONE"
    /\ Write(c, Sent("GAME_STARTING_NOTIFICATION"))
    /\ UNCHANGED <<roomVars, mapVars, idVars, id, room, ownerVars>>

\* GET_LOBBY_STATE: isGameStarting takes the lock and releases it ...
GetLobbyState(c) ==
    /\ Receives(c)
    /\ \/ /\ Goto(c, "roomRead", "room")
          /\ status[room[c]] = "PLAYING"
          /\ Write(c, Sent("GAME_STARTING_NOTIFICATION"))
       \/ /\ Goto(c, "roomRead", "poll")
          /\ status[room[c]] /= "PLAYING"
          /\ UNCHANGED reply
    /\ UNCHANGED <<roomVars, mapVars, idVars, id, room, ownerVars>>

\* ... before onGetLobbyState takes it again.
AnswerLobbyState(c) ==
    /\ Goto(c, "poll", "room")
    /\ UNCHANGED <<roomVars, mapVars, idVars, sock, id, room, reply,
                   ownerVars>>

\* Mutant: the room of a recipient is not looked at.
RecipientsAnywhere(c) ==
    {playerSockets[p] : p \in {q \in PlayerIds :
        q /= id[c] /\ playerSockets[q] /= None}}

Recipients(c) ==
    {playerSockets[p] : p \in {q \in PlayerIds :
        q /= id[c] /\ playerSockets[q] /= None /\ playerRoomMap[q] = room[c]}}

\* The message goes to the other sockets of the room, all under one lock.
Chat(c) ==
    /\ Receives(c)
    /\ Goto(c, "roomRead", "room")
    /\ reply' = [d \in Conns |->
                    IF d \in Recipients(c) /\ sock[d] \in {"open", "reset"}
                    THEN [type |-> "CHAT_MESSAGE", from |-> c] ELSE reply[d]]
    /\ UNCHANGED <<roomVars, mapVars, idVars, id, room, ownerVars>>

\* Mutant: the room of a session that ended is not forgotten.
LeaveRoomRemembered(c) ==
    /\ Goto(c, "leaving", "closing")
    /\ UNCHANGED <<roomVars, mapVars, idVars, sock, id, room, reply,
                   ownerVars>>

LeaveRoom(c) ==
    /\ Goto(c, "leaving", "closing")
    /\ playerRoomMap' = [playerRoomMap EXCEPT ![id[c]] = None]
    /\ UNCHANGED <<roomVars, playerSockets, idVars, sock, id, room, reply,
                   ownerVars>>

CloseClient(c) ==
    /\ Goto(c, "closing", "done")
    /\ playerSockets' = [playerSockets EXCEPT ![id[c]] = None]
    /\ sock' = [sock EXCEPT ![c] = "closed"]
    /\ UNCHANGED <<roomVars, playerRoomMap, idVars, id, room, reply,
                   ownerVars>>

-----------------------------------------------------------------------------
(* The shell, one command after the other, and the UDP disconnection.      *)

Prompt(command) == main = "running" /\ shell = 0 /\ command \in Commands

ShellCreate ==
    /\ Prompt("create")
    /\ Table!OnCreateRoom
    /\ UNCHANGED <<mapVars, idVars, threadVars, ownerVars>>

\* The room is erased from the map and nothing else happens.
ShellDelete(r) ==
    /\ Prompt("delete")
    /\ Table!DeleteRoom(r)
    /\ UNCHANGED <<mapVars, idVars, threadVars, ownerVars>>

\* "kick": the player leaves its room, under ServerManager::_serverMutex ...
ShellKick(p) ==
    /\ Prompt("kick")
    /\ shell' = p
    /\ \/ Table!RemoveFromFirst(p)
       \/ /\ \A r \in RoomIds : p \notin Table!Members(r)
          /\ UNCHANGED roomVars
    /\ UNCHANGED <<mapVars, idVars, threadVars, running, acceptor, main>>

\* Mutant: the socket is left open.
KickPlayerKeepsSocket ==
    /\ shell /= 0
    /\ shell' = 0
    /\ UNCHANGED <<roomVars, mapVars, idVars, threadVars, running, acceptor,
                   main>>

\* ... and then its socket is closed, under TCPServer::_serverMutex.
KickPlayer ==
    /\ shell /= 0
    /\ shell' = 0
    /\ sock' = [c \in Conns |-> IF c = playerSockets[shell] THEN CloseByOther(c)
                                                            ELSE sock[c]]
    /\ UNCHANGED <<roomVars, mapVars, idVars, pc, id, room, reply, running,
                   acceptor, main>>

\* A client whose ship was destroyed says so by UDP.
UdpDisconnect(c) ==
    /\ pc[c] \in InRoom
    /\ status[room[c]] = "PLAYING"
    /\ Table!RemoveFromFirst(id[c])
    /\ UNCHANGED <<mapVars, idVars, threadVars, ownerVars>>

-----------------------------------------------------------------------------
(* The end of the server: "exit", then ~ServerManager, which calls stop.   *)

Exit ==
    /\ Prompt("exit")
    /\ main' = "exiting"
    /\ UNCHANGED <<roomVars, mapVars, idVars, threadVars, running, acceptor,
                   shell>>

StopBegins ==
    /\ main = "exiting"
    /\ main' = "joinAccept"
    /\ running' = FALSE
    /\ UNCHANGED <<roomVars, mapVars, idVars, threadVars, acceptor, shell>>

\* Closing the acceptor and connecting to it ends acceptLoop.
JoinAccept ==
    /\ main = "joinAccept" /\ acceptor = None
    /\ main' = "closeClients"
    /\ UNCHANGED <<roomVars, mapVars, idVars, threadVars, running, acceptor,
                   shell>>

\* Mutant: the sockets of the players that are in a room stay open.
CloseClientsOfLobby ==
    /\ main = "closeClients"
    /\ main' = "joinClients"
    /\ sock' = [c \in Conns |->
                   IF \E p \in PlayerIds :
                        playerSockets[p] = c /\ playerRoomMap[p] = None
                   THEN CloseByOther(c) ELSE sock[c]]
    /\ UNCHANGED <<roomVars, mapVars, idVars, pc, id, room, reply, running,
                   acceptor, shell>>

CloseClients ==
    /\ main = "closeClients"
    /\ main' = "joinClients"
    /\ sock' = [c \in Conns |->
                   IF \E p \in PlayerIds : playerSockets[p] = c
                   THEN CloseByOther(c) ELSE sock[c]]
    /\ UNCHANGED <<roomVars, mapVars, idVars, pc, id, room, reply, running,
                   acceptor, shell>>

\* Mutant: only the threads that already ended are joined.
JoinClientsNot ==
    /\ main = "joinClients"
    /\ main' = "stopped"
    /\ UNCHANGED <<roomVars, mapVars, idVars, threadVars, running, acceptor,
                   shell>>

JoinClients ==
    /\ main = "joinClients"
    /\ \A c \in Conns : pc[c] \in {"none", "done"}
    /\ main' = "stopped"
    /\ UNCHANGED <<roomVars, mapVars, idVars, threadVars, running, acceptor,
                   shell>>

Stop == StopBegins \/ JoinAccept \/ CloseClients \/ JoinClients

-----------------------------------------------------------------------------
\* What a thread does without waiting for its client.
ThreadStep(c) ==
    \/ StartThread(c) \/ HelloFails(c)
    \/ LoadNextId(c) \/ StoreNextId(c) \/ Register(c) \/ Greet(c)
    \/ LobbyCheck(c) \/ LobbyReadFails(c) \/ EnterRoom(c)
    \/ RoomCheck(c) \/ RoomReadFails(c) \/ AnswerLobbyState(c)
    \/ LeaveRoom(c) \/ CloseClient(c)

\* What it does with a message of its client.
ClientRequest(c) ==
    \/ HelloReceived(c)
    \/ ListRooms(c) \/ CreateRoom(c) \/ \E r \in RoomIds : JoinRoom(c, r)
    \/ StartGame(c) \/ GetLobbyState(c) \/ Chat(c)

Client(c) == Accept(c) \/ ClientRequest(c) \/ PeerCloses(c) \/ UdpDisconnect(c)

Shell ==
    \/ ShellCreate
    \/ \E r \in RoomIds : ShellDelete(r)
    \/ \E p \in PlayerIds : ShellKick(p)
    \/ Exit

Next ==
    \/ \E c \in Conns : ThreadStep(c) \/ Client(c)
    \/ Shell
    \/ KickPlayer
    \/ Stop

\* Threads that can run do. Clients and the operator owe nothing.
Fairness ==
    /\ \A c \in Conns : WF_vars(ThreadStep(c))
    /\ WF_vars(KickPlayer)
    /\ WF_vars(Stop)

Spec == Init /\ [][Next]_vars /\ Fairness

-----------------------------------------------------------------------------
(* Properties.                                                             *)

\* No two connections have the same player id.
UniquePlayerIds ==
    \A c, d \in Conns : id[c] = id[d] /\ id[c] /= 0 => c = d

\* While the server runs, whoever is on a room's list has a thread serving
\* it in that room: however a session ends (lost connection, kick, deleted
\* room, UDP disconnection), no ghost is left to be listed, hold the host's
\* place or be broadcast to. Removal and the end of the session are separate
\* steps of separate threads.
NoGhostPlayers ==
    running =>
        \A r \in RoomIds : \A e \in players[r] :
            \E c \in Conns : id[c] = e.id /\ room[c] = r /\ pc[c] \in InRoom

\* If the ids are distinct, a player is on one list at most, and once: the
\* calls that search the rooms and stop at the first hit (ServerManager.cpp:
\* 69-75, 81-86, 248-254) reach all there is of the player.
OneRoomPerPlayer ==
    UniquePlayerIds =>
        \A q, r \in RoomIds : \A e \in players[q], f \in players[r] :
            e.id = f.id => q = r /\ e = f

\* If the ids are distinct, a client being served is registered, so that
\* kick and stop reach its socket and chat its room.
ServedIsRegistered ==
    UniquePlayerIds =>
        \A c \in Conns :
            /\ pc[c] \in Registered => playerSockets[id[c]] = c
            /\ pc[c] \in InRoom \ {"joining"} => playerRoomMap[id[c]] = room[c]

\* Whatever ids collide, no entry of the maps outlives its session but one:
\* the socket of a client whose greeting could not be written
\* (TCPServer.cpp:140-143). That client was never in a room, so that chat,
\* which looks for the sockets of a room, finds the dead one only if another
\* client has its id.
StaleEntriesAreInert ==
    /\ \A p \in PlayerIds :
          playerSockets[p] /= None =>
              /\ id[playerSockets[p]] = p
              /\ \/ pc[playerSockets[p]] \in Registered
                 \/ /\ pc[playerSockets[p]] = "done"
                    /\ room[playerSockets[p]] = None
    /\ \A p \in PlayerIds :
          playerRoomMap[p] /= None =>
              \E c \in Conns : /\ id[c] = p
                               /\ room[c] = playerRoomMap[p]
                               /\ pc[c] \in InRoom \cup {"leaving"}

\* A client told that its game is starting is in a started room (or in one
\* that was deleted since): no interleaving announces a start that is not.
StartIsReal ==
    \A c \in Conns :
        reply[c].type = "GAME_STARTING_NOTIFICATION" =>
            room[c] /= None /\ status[room[c]] /= "LOBBY"

\* If the ids are distinct, a chat message reaches only clients being served
\* in the room of its author.
ChatStaysInRoom ==
    [][UniquePlayerIds =>
          \A c, d \in Conns :
              /\ reply'[d] = [type |-> "CHAT_MESSAGE", from |-> c]
              /\ reply'[d] /= reply[d]
              => d /= c /\ room[d] = room[c]
                 /\ pc[d] \in InRoom \cup {"leaving"}]_vars

\* When stop() has returned no connection has a thread left.
StoppedIsQuiet ==
    main = "stopped" => \A c \in Conns : pc[c] \in {"none", "done"}

\* stop() returns if no connection is still silent, that is, accepted but
\* without a greeting, and if the ids are distinct, so that every session
\* that has begun is within its reach.
StopCompletes ==
    main = "joinClients" /\ (\A c \in Conns : pc[c] /= "hello")
        ~> main = "stopped" \/ ~UniquePlayerIds

\* A registered player that is kicked ends up on no list, even if it joins a
\* room between the two halves of the command, if the ids are distinct and
\* the server is not stopped meanwhile.
KickTakesEffect ==
    \A p \in PlayerIds :
        (shell = p /\ playerSockets[p] /= None)
            ~> \/ \A r \in RoomIds : p \notin Table!Members(r)
               \/ ~UniquePlayerIds \/ ~running
=============================================================================
