------------------------------ MODULE GameLocks ------------------------------
(***************************************************************************)
(* Who holds which mutex, and touches what, in the server's threads: the   *)
(* game loop ("loop", later the thread that stops the server), the UDP     *)
(* process thread ("udp"), the shell, the accept loop, and a session, a    *)
(* thread of its own, per TCP client.                                      *)
(*                                                                         *)
(* A program is what a thread runs between two points where it holds no    *)
(* lock and waits for no one: the sequence of its places, each with the    *)
(* mutexes held there and the shared objects in use. A thread enters its   *)
(* next place when the mutexes that are new there are free; until then it  *)
(* waits where it is, before the first place if need be. The longest way   *)
(* through a function stands for all: the others leave out places, or come *)
(* to one again. One room is looked at, as no thread holds mutexes of two. *)
(* The ring buffers' own mutexes are left out: push and pop take no other  *)
(* lock. So is the vector of client threads, which stop() uses when it has *)
(* joined the accept loop.                                                 *)
(*                                                                         *)
(* A  ServerManager::_serverMutex      E  Game::_entitiesMutex             *)
(* B  TCPServer::_serverMutex          P  Game::_playersMutex              *)
(***************************************************************************)
EXTENDS Naturals, Sequences

CONSTANT Sessions       \* the threads of the TCP clients

Workers == {"loop", "udp", "shell", "accept"}

\* What the threads share, besides the clients' sockets. "players" and
\* "entities" are a Game's vectors with what belongs to their elements, and
\* "E" and "P" the mutexes themselves, which die with their Game; "sockets"
\* are the maps of TCPServer.
Shared == {"rooms", "status", "players", "entities", "E", "P", "sockets",
           "nextPlayerId", "acceptor"}

Locks == {"A", "B", "E", "P"}

ASSUME SessionsAssumption ==
    Sessions \cap (Workers \cup Shared \cup Locks) = {}

VARIABLES
    program,    \* what a thread runs, or will run next
    place       \* where it is in it, 0 when it has not begun

vars == <<program, place>>

Threads == Workers \cup Sessions

\* As an object, a session stands for the socket of its client.
Objects == Shared \cup Sessions

\* What the names of objects in a program mean to the thread that runs it.
Denotes(t, object) ==
    CASE object = "own_socket" -> {t}
      [] object = "other_sockets" -> Sessions \ {t}
      [] OTHER -> {object}

\* To receive from a socket is to read it, to close it is to write it. To
\* send changes it too, and waits until the client reads.
Use(op, object) == [op |-> op, object |-> object]
Read(object) == Use("read", object)
Write(object) == Use("write", object)
Send(object) == Use("send", object)

\* Who holds a mutex uses it.
At(held, uses) == [held |-> held, uses |-> uses \cup {Read(m) : m \in held}]

-----------------------------------------------------------------------------
(* The game loop and the end of the server.                                *)

\* ServerManager::run holds _serverMutex over the updates of all games.
\* updateEntities announces an entity that is gone without _playersMutex and
\* one that goes on with it; a spawn stands for each place that makes one.
GameUpdate ==
    << At({"A"}, {Read("rooms"), Read("status")}),
       At({"A", "E"}, {Write("entities"), Read("players")}),
       At({"A", "E", "P"}, {Write("entities"), Read("players")}),
       At({"A"}, {}),
       At({"A", "E"}, {}),
       At({"A", "E", "P"}, {Write("entities"), Read("players")}),
       At({"A"}, {}),
       At({"A", "P"}, {Write("players")}),
       At({"A"}, {}),
       At({"A", "E"}, {Write("entities")}),
       At({"A"}, {}),
       At({"A", "E"}, {Write("entities")}),
       At({"A", "E", "P"}, {Write("entities"), Read("players")}),
       At({"A"}, {Read("rooms")}) >>

\* stop() closes the acceptor, and the sockets of all players.
Stop ==
    << At({}, {Write("acceptor")}),
       At({"B"}, {Read("sockets"), Write("other_sockets")}) >>

-----------------------------------------------------------------------------
(* The UDP process thread: onMessageReceived holds no lock of its own.     *)

\* Mutant: a shot is created under _playersMutex.
InputLockedPlayers ==
    << At({}, {Read("rooms")}),
       At({"P"}, {Read("rooms"), Read("players")}),
       At({"P"}, {Read("rooms"), Write("players")}),
       At({"P", "E"}, {Read("rooms"), Read("players"), Write("entities")}) >>

\* getPlayer, updatePlayerUdpAddr, then handlePlayerInput: getPlayer again,
\* whose pointer is used without a lock before and after
\* setPlayerLastProcessedTick; last, createPlayerShot.
HandleInput ==
    << At({}, {Read("rooms")}),
       At({"P"}, {Read("rooms"), Read("players")}),
       At({}, {Read("rooms")}),
       At({"P"}, {Read("rooms"), Write("players")}),
       At({}, {Read("rooms")}),
       At({"P"}, {Read("rooms"), Read("players")}),
       At({}, {Read("rooms"), Write("players")}),
       At({"P"}, {Read("rooms"), Write("players")}),
       At({}, {Read("rooms"), Write("players")}),
       At({"P"}, {Read("rooms"), Read("players")}),
       At({}, {Read("rooms")}),
       At({"E"}, {Read("rooms"), Read("players"), Write("entities")}),
       At({"E", "P"}, {Read("rooms"), Read("players")}) >>

HandleDisconnect ==
    << At({}, {Read("rooms")}),
       At({"P"}, {Read("rooms"), Read("players")}),
       At({}, {Read("rooms")}),
       At({"P"}, {Read("rooms"), Write("players")}) >>

-----------------------------------------------------------------------------
(* The threads of the TCP clients. They read requests and write answers    *)
(* under no lock. acceptLoop takes no mutex at all.                        *)

Accept == << >>

\* The id counter is under no lock.
Greet ==
    << At({}, {Write("nextPlayerId")}),
       At({"B"}, {Write("sockets")}),
       At({}, {Send("own_socket")}) >>

ListRooms ==
    << At({"A"}, {Read("rooms")}),
       At({"A", "P"}, {Read("rooms"), Read("players")}),
       At({}, {Send("own_socket")}) >>

CreateRoom ==
    << At({"A"}, {Write("rooms")}),
       At({}, {Send("own_socket")}) >>

\* Mutant: onJoinRoom does not take _serverMutex.
JoinUnlocked ==
    << At({}, {Read("rooms"), Read("status")}),
       At({"P"}, {Read("rooms"), Write("players")}),
       At({}, {Send("own_socket")}),
       At({"B"}, {Write("sockets")}) >>

\* onJoinRoom, addPlayer, the answer, and then _playerRoomMap.
JoinRoom ==
    << At({"A"}, {Read("rooms"), Read("status")}),
       At({"A", "P"}, {Read("rooms"), Write("players")}),
       At({}, {Send("own_socket")}),
       At({"B"}, {Write("sockets")}) >>

StartGame ==
    << At({"A"}, {Read("rooms")}),
       At({"A", "P"}, {Read("rooms"), Read("players")}),
       At({"A"}, {Read("rooms"), Write("status")}) >>

\* isGameStarting, then onGetLobbyState, where getHostId takes _playersMutex
\* and getPlayers does not.
GetLobbyState ==
    << At({"A"}, {Read("rooms"), Read("status")}),
       At({}, {}),
       At({"A"}, {Read("rooms")}),
       At({"A", "P"}, {Read("rooms"), Read("players")}),
       At({"A"}, {Read("rooms"), Read("players")}),
       At({}, {Send("own_socket")}) >>

\* The author's name, then the packets: each is written to its recipient's
\* socket, and waited for, under the lock.
Chat ==
    << At({"B"}, {Read("sockets")}),
       At({}, {}),
       At({"B"}, {Read("sockets"), Send("other_sockets")}) >>

\* onPlayerDisconnect and the end of both loops.
Leave ==
    << At({"A"}, {Read("rooms")}),
       At({"A", "P"}, {Read("rooms"), Write("players")}),
       At({}, {}),
       At({"B"}, {Write("sockets")}),
       At({}, {}),
       At({"B"}, {Write("sockets")}),
       At({}, {Write("own_socket")}) >>

-----------------------------------------------------------------------------
(* The shell.                                                              *)

ShellRooms ==
    << At({"A"}, {Read("rooms"), Read("status")}),
       At({"A", "P"}, {Read("rooms"), Read("players")}) >>

ShellCreate == << At({"A"}, {Write("rooms")}) >>

\* _rooms.erase destroys the Game, with all it holds and its mutexes.
Delete ==
    << At({"A"}, {Write("rooms"), Write("status"), Write("players"),
                  Write("entities"), Write("E"), Write("P")}) >>

\* Mutant: the socket is closed before _serverMutex is released.
KickInOneGo ==
    << At({"A"}, {Read("rooms")}),
       At({"A", "P"}, {Read("rooms"), Write("players")}),
       At({"A"}, {Read("rooms")}),
       At({"A", "B"}, {Read("sockets"), Write("other_sockets")}) >>

\* getPlayer, Game::kickPlayer, and then TCPServer::kickPlayer.
Kick ==
    << At({"A"}, {Read("rooms")}),
       At({"A", "P"}, {Read("rooms"), Read("players")}),
       At({"A"}, {Read("rooms")}),
       At({"A", "P"}, {Read("rooms"), Write("players")}),
       At({}, {}),
       At({"B"}, {Read("sockets"), Write("other_sockets")}) >>

-----------------------------------------------------------------------------
Code ==
    [GameUpdate |-> GameUpdate, Stop |-> Stop,
     HandleInput |-> HandleInput, HandleDisconnect |-> HandleDisconnect,
     ShellRooms |-> ShellRooms, ShellCreate |-> ShellCreate,
     Delete |-> Delete, Kick |-> Kick,
     Accept |-> Accept,
     Greet |-> Greet, ListRooms |-> ListRooms, CreateRoom |-> CreateRoom,
     JoinRoom |-> JoinRoom, StartGame |-> StartGame,
     GetLobbyState |-> GetLobbyState, Chat |-> Chat, Leave |-> Leave]

Programs(t) ==
    CASE t = "loop" -> {"GameUpdate", "Stop"}
      [] t = "udp" -> {"HandleInput", "HandleDisconnect"}
      [] t = "shell" -> {"ShellRooms", "ShellCreate", "Delete", "Kick"}
      [] t = "accept" -> {"Accept"}
      [] OTHER -> {"Greet", "ListRooms", "CreateRoom", "JoinRoom",
                   "StartGame", "GetLobbyState", "Chat", "Leave"}

\* What a thread runs first.
First(t) ==
    CASE t = "loop" -> "GameUpdate"
      [] t = "udp" -> "HandleInput"
      [] t = "shell" -> "ShellRooms"
      [] t = "accept" -> "Accept"
      [] OTHER -> "Greet"

\* What it uses between two programs: a session waits for the next request
\* of its client, and the accept loop for the next client.
Between(t) ==
    CASE t \in Sessions -> {Read("own_socket")}
      [] t = "accept" -> {Read("acceptor")}
      [] OTHER -> {}

Here(t) == Code[program[t]][place[t]]
There(t) == Code[program[t]][place[t] + 1]

Begun(t) == place[t] > 0
Ends(t) == place[t] = Len(Code[program[t]])

Held(t) == IF Begun(t) THEN Here(t).held ELSE {}
Uses(t) ==
    UNION {{Use(x.op, object) : object \in Denotes(t, x.object)} :
               x \in IF Begun(t) THEN Here(t).uses ELSE Between(t)}

\* The mutexes t has to get before it can go on.
Wants(t) == IF Ends(t) THEN {} ELSE There(t).held \ Held(t)

TypeOK ==
    /\ program \in [Threads -> UNION {Programs(t) : t \in Threads}]
    /\ place \in [Threads -> Nat]
    /\ \A t \in Threads : program[t] \in Programs(t)
                          /\ place[t] \in 0 .. Len(Code[program[t]])

Init ==
    /\ program = [t \in Threads |-> First(t)]
    /\ place = [t \in Threads |-> 0]

Advance(t) ==
    /\ ~Ends(t)
    /\ \A u \in Threads \ {t} : Wants(t) \cap Held(u) = {}
    /\ place' = [place EXCEPT ![t] = @ + 1]
    /\ UNCHANGED program

\* The mutexes of the last place are released; p is what comes next.
Return(t, p) ==
    /\ Ends(t)
    /\ program' = [program EXCEPT ![t] = p]
    /\ place' = [place EXCEPT ![t] = 0]

Next ==
    \E t \in Threads : Advance(t) \/ \E p \in Programs(t) : Return(t, p)

Spec == Init /\ [][Next]_vars

-----------------------------------------------------------------------------
(* Properties.                                                             *)

WaitsFor(t, u) == t /= u /\ Wants(t) \cap Held(u) /= {}

\* No threads wait for each other in a circle: the mutexes of the server, of
\* a game's entities and of its players are always taken in this order, in
\* three classes and four kinds of threads.
NoDeadlock ==
    LET waits == {w \in Threads \X Threads : WaitsFor(w[1], w[2])}
    IN  ~ \E S \in SUBSET {w[1] : w \in waits} :
            S /= {} /\ \A t \in S : \E u \in S : <<t, u>> \in waits

\* Is t in the middle of a write to a client?
Sends(t) == \E x \in Uses(t) : x.op = "send"

\* A client that does not read its chat can hold up who chats, joins, leaves,
\* kicks or stops the server, but not the game: neither its loop nor the UDP
\* thread waits, directly or through others, for a thread that is writing to
\* a client.
GameGoesOn ==
    LET waits == {w \in Threads \X Threads : WaitsFor(w[1], w[2])}
        sends == {t \in Threads : Sends(t)}
    IN  \E S \in SUBSET (Threads \ {"udp"}) :
        /\ sends \subseteq S
        /\ \A w \in waits : w[2] \in S => w[1] \in S
        /\ "loop" \in S => program["loop"] = "Stop"

\* The objects that two threads use at once although one changes them: two
\* clients the id counter; the accept loop the acceptor, as it is closed; a
\* session its own socket, as another thread chats to its client, kicks it or
\* stops the server; the UDP thread the rooms or a player list; and the UDP
\* thread a Game that is deleted, down to the mutexes it holds.
Known(two, object) ==
    \/ object = "nextPlayerId" /\ two \subseteq Sessions
    \/ object = "acceptor" /\ two = {"accept", "loop"}
    \/ object \in Sessions /\ object \in two
    \/ object \in {"rooms", "players"} /\ "udp" \in two
    \/ /\ object \in {"entities", "E", "P"}
       /\ two = {"udp", "shell"} /\ program["shell"] = "Delete"

\* Two threads are in one object at once, one to change it, only where the
\* code has no mutex for both. Everywhere else _serverMutex keeps apart who
\* uses a room and its Game, although player lists are read in places without
\* their own mutex and "delete" destroys a Game under that one alone, and
\* TCPServer's keeps apart who is at the socket of another.
OnlyKnownRaces ==
    LET accesses == UNION {{t} \X Uses(t) : t \in Threads}
    IN  \A a, b \in accesses :
            /\ a[1] /= b[1]
            /\ a[2].object = b[2].object
            /\ b[2].op /= "read"
            => Known({a[1], b[1]}, a[2].object)
=============================================================================
