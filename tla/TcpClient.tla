------------------------------ MODULE TcpClient ------------------------------
(***************************************************************************)
(* The client's TCP side: the screens of ClientManager::run and the        *)
(* requests of TCPClient, against the sessions of the server.              *)
(*                                                                         *)
(* What makes it hard is that the stream has no frames: the client asks    *)
(* without waiting, asks again before it was answered, and finds the next  *)
(* message only if it read all of the one before. A "unit" is what one     *)
(* asio::write of the server puts on the stream: a header, one RoomInfo,   *)
(* one LobbyPlayerInfo or a whole chat packet. It is on the line when it   *)
(* has arrived: to the client, a unit under way is one not yet written. A  *)
(* read that blocks is a step that waits for what it reads. From the first *)
(* byte that a client takes for something it is not ("misread") the client *)
(* is not followed any further.                                            *)
(*                                                                         *)
(* A session is the server's side of a connection, with a player id of its *)
(* own (the client itself); its threads and races are in TcpServer.tla.    *)
(***************************************************************************)
EXTENDS Integers, Sequences, FiniteSets, SequencesExt

CONSTANTS
    Clients,        \* the clients; also their player ids
    MaxRooms,       \* bound: rooms created in a behaviour
    MaxSent,        \* bound: requests of a client the server has not read
    Talkers,        \* bound: the clients that chat
    MaxSaid,        \* bound: chat messages of a client
    Fragile,        \* bound: the clients whose connection may end
    MaxFaults,      \* bound: connections ended and rooms deleted
    MaxLoops        \* what getLobbyState reads at most in one call (10)

ASSUME ClientsAssumption == Clients \subseteq Nat \ {0} /\ IsFiniteSet(Clients)
ASSUME BoundsAssumption ==
    /\ MaxRooms \in Nat /\ MaxSent \in Nat /\ MaxSaid \in Nat
    /\ MaxFaults \in Nat
    /\ MaxLoops \in Nat \ {0}

VARIABLES
    status, players, joined, nextRoom,  \* the room table
    session,    \* where the server's thread for a client is
    room,       \* the room of a session, once it has one
    up,         \* is the connection up?
    requests,   \* what the client wrote and the session has not read
    answer,     \* the units the session has yet to write
    line,       \* the units that have arrived and are not yet read
    screen,     \* ClientManager::_currentState
    pending,    \* the request ClientManager is waiting on
    rooms,      \* _rooms: the ids on the room menu
    hostId,     \* LobbyState::hostId of cachedState
    starting,   \* LobbyState::gameIsStarting of cachedState
    drawn,      \* LobbyState::hostId of _lobbyState, the copy that is drawn
    loops,      \* max_loops, 0 outside getLobbyState
    said,       \* how many chat messages a client has sent
    chats,      \* those sent to a client, as the server wrote them
    history,    \* those its _chatHistory shows
    misread     \* where a client got out of step, or "no"

table   == <<status, players, joined, nextRoom>>
server  == <<session, room>>
stream  == <<requests, answer, line>>
view    == <<rooms, hostId, starting, drawn>>
talk    == <<said, chats, history>>
client  == <<screen, pending, loops, misread, view>>
vars    == <<table, server, up, stream, client, talk>>

Table == INSTANCE Rooms WITH PlayerIds <- Clients,
                             MaxJoins <- Cardinality(Clients)

RoomIds == Table!RoomIds

Screens == {"USERNAME_INPUT", "MAIN_MENU", "OPTIONS", "ROOM_SELECTION",
            "LOBBY", "IN_GAME", "KICKED", "EXITING"}

\* "connect": not connected yet. "hello": sendConnectRequest is blocked.
Pendings == {"connect", "hello", "none", "create", "join"}

Chats == [from : Clients, nr : 1 .. MaxSaid]

Plain(types) == [type : types]

Requests ==
    Plain({"CONNECT", "LIST_ROOMS", "CREATE_ROOM", "GET_LOBBY_STATE",
           "START_GAME_REQUEST"})
        \cup [type : {"JOIN_ROOM"}, roomId : RoomIds]
        \cup [type : {"CHAT_MESSAGE"}, text : Chats]

Units ==
    Plain({"CONNECT_OK", "GAME_STARTING_NOTIFICATION", "LobbyPlayerInfo"})
        \cup [type : {"LIST_ROOMS_RESPONSE"}, count : Nat]
        \cup [type : {"RoomInfo"}, id : RoomIds]
        \cup [type : {"CREATE_ROOM_RESPONSE"}, roomId : RoomIds]
        \cup [type : {"JOIN_ROOM_RESPONSE"}, status : {0, 1}]
        \cup [type : {"LOBBY_STATE_RESPONSE"}, hostId : Nat, playerCount : Nat]
        \cup [type : {"CHAT_MESSAGE"}, text : Chats]

TypeOK ==
    /\ Table!TypeOK
    /\ session \in [Clients -> {"none", "lobby", "joining", "room", "done"}]
    /\ room \in [Clients -> RoomIds \cup {MaxRooms}]
    /\ up \in [Clients -> BOOLEAN]
    /\ requests \in [Clients -> Seq(Requests)]
    /\ answer \in [Clients -> Seq(Units)]
    /\ line \in [Clients -> Seq(Units)]
    /\ screen \in [Clients -> Screens]
    /\ pending \in [Clients -> Pendings]
    /\ rooms \in [Clients -> SUBSET RoomIds]
    /\ hostId \in [Clients -> Nat]
    /\ starting \in [Clients -> BOOLEAN]
    /\ drawn \in [Clients -> Nat]
    /\ loops \in [Clients -> 0 .. MaxLoops + 1]
    /\ said \in [Clients -> 0 .. MaxSaid]
    /\ chats \in [Clients -> Seq(Chats)]
    /\ history \in [Clients -> Seq(Chats)]
    /\ misread \in [Clients -> {"no", "getRooms", "getLobbyState", "other"}]

\* A username in the configuration skips its screen.
Init ==
    /\ Table!Init
    /\ session = [c \in Clients |-> "none"]
    /\ room = [c \in Clients |-> MaxRooms]
    /\ up = [c \in Clients |-> FALSE]
    /\ requests = [c \in Clients |-> <<>>]
    /\ answer = [c \in Clients |-> <<>>]
    /\ line = [c \in Clients |-> <<>>]
    /\ screen \in [Clients -> {"USERNAME_INPUT", "MAIN_MENU"}]
    /\ pending = [c \in Clients |-> "connect"]
    /\ rooms = [c \in Clients |-> {}]
    /\ hostId = [c \in Clients |-> 0]
    /\ starting = [c \in Clients |-> FALSE]
    /\ drawn = [c \in Clients |-> 0]
    /\ loops = [c \in Clients |-> 0]
    /\ said = [c \in Clients |-> 0]
    /\ chats = [c \in Clients |-> <<>>]
    /\ history = [c \in Clients |-> <<>>]
    /\ misread = [c \in Clients |-> "no"]

-----------------------------------------------------------------------------
(* The stream.                                                             *)

\* How many units follow a header, and of which type.
Following(u) ==
    CASE u.type = "LIST_ROOMS_RESPONSE" -> u.count
      [] u.type = "LOBBY_STATE_RESPONSE" -> u.playerCount
      [] OTHER -> 0

PartOf(u) ==
    IF u.type = "LIST_ROOMS_RESPONSE" THEN "RoomInfo" ELSE "LobbyPlayerInfo"

First(c) == Head(line[c])
Length(c) == 1 + Following(First(c))

Arrived(c) == line[c] /= <<>>

\* The first message is there in full, and nothing else stands in between.
Whole(c) == Arrived(c) /\ Len(line[c]) >= Length(c)
Intact(c) == \A i \in 2 .. Length(c) : line[c][i].type = PartOf(First(c))

Consume(c, n) == line' = [line EXCEPT ![c] = SubSeq(@, n + 1, Len(@))]

Send(c, request) == requests' = [requests EXCEPT ![c] = Append(@, request)]

MaySend(c, n) == Len(requests[c]) + n <= MaxSent

Lost == {c \in Clients : ~up[c] /\ pending[c] /= "connect"}
Deleted == {r \in RoomIds : r < nextRoom /\ status[r] = "NONE"}
MayFail == Cardinality(Lost) + Cardinality(Deleted) < MaxFaults

\* The connection ends. What the session has yet to write goes nowhere.
Cut(c) ==
    /\ c \in Fragile /\ MayFail
    /\ up' = [up EXCEPT ![c] = FALSE]
    /\ answer' = [answer EXCEPT ![c] = <<>>]

\* The network fails, or the server closes the socket: at its stop, or in a
\* kick of a player in no room.
Lose(c) ==
    /\ up[c]
    /\ Cut(c)
    /\ UNCHANGED <<table, server, requests, line, client, talk>>

-----------------------------------------------------------------------------
(* The session: handleClient, then handleInRoomClient.                     *)

Reads(c, type) ==
    /\ answer[c] = <<>> /\ requests[c] /= <<>>
    /\ Head(requests[c]).type = type
    /\ requests' = [requests EXCEPT ![c] = Tail(@)]

Request(c) == Head(requests[c])

\* The header is written, the rest is not yet. A write to a connection that
\* is gone fails, and nothing is made of it.
Answers(c, units) ==
    IF up[c]
    THEN /\ line' = [line EXCEPT ![c] = Append(@, Head(units))]
         /\ answer' = [answer EXCEPT ![c] = Tail(units)]
    ELSE UNCHANGED <<line, answer>>

WriteUnit(c) ==
    /\ answer[c] /= <<>>
    /\ line' = [line EXCEPT ![c] = Append(@, Head(answer[c]))]
    /\ answer' = [answer EXCEPT ![c] = Tail(@)]
    /\ UNCHANGED <<table, server, up, requests, client, talk>>

ServeConnect(c) ==
    /\ session[c] = "none" /\ Reads(c, "CONNECT")
    /\ session' = [session EXCEPT ![c] = "lobby"]
    /\ Answers(c, <<[type |-> "CONNECT_OK"]>>)
    /\ UNCHANGED <<table, room, up, client, talk>>

RoomList ==
    LET ids == {r \in RoomIds : status[r] /= "NONE"}
    IN  <<[type |-> "LIST_ROOMS_RESPONSE", count |-> Cardinality(ids)]>>
            \o SetToSeq({[type |-> "RoomInfo", id |-> r] : r \in ids})

ServeListRooms(c) ==
    /\ session[c] = "lobby" /\ Reads(c, "LIST_ROOMS")
    /\ Answers(c, RoomList)
    /\ UNCHANGED <<table, server, up, client, talk>>

ServeCreateRoom(c) ==
    /\ session[c] = "lobby" /\ Reads(c, "CREATE_ROOM")
    /\ Table!OnCreateRoom
    /\ Answers(c, <<[type |-> "CREATE_ROOM_RESPONSE", roomId |-> nextRoom]>>)
    /\ UNCHANGED <<server, up, client, talk>>

\* Mutant: 0 is success, as ProtocoleTCP.hpp documents the status.
ServeJoinRoomAsDocumented(c) ==
    /\ session[c] = "lobby" /\ Reads(c, "JOIN_ROOM")
    /\ \/ /\ Table!OnJoinRoom(Request(c).roomId, c)
          /\ session' = [session EXCEPT ![c] = "joining"]
          /\ room' = [room EXCEPT ![c] = Request(c).roomId]
          /\ Answers(c, <<[type |-> "JOIN_ROOM_RESPONSE", status |-> 0]>>)
       \/ /\ ~Table!CanJoin(Request(c).roomId)
          /\ Answers(c, <<[type |-> "JOIN_ROOM_RESPONSE", status |-> -2]>>)
          /\ UNCHANGED <<table, server>>
    /\ UNCHANGED <<up, client, talk>>

ServeJoinRoom(c) ==
    /\ session[c] = "lobby" /\ Reads(c, "JOIN_ROOM")
    /\ \/ /\ Table!OnJoinRoom(Request(c).roomId, c)
          /\ session' = [session EXCEPT ![c] = "joining"]
          /\ room' = [room EXCEPT ![c] = Request(c).roomId]
          /\ Answers(c, <<[type |-> "JOIN_ROOM_RESPONSE", status |-> 1]>>)
       \/ /\ ~Table!CanJoin(Request(c).roomId)
          /\ Answers(c, <<[type |-> "JOIN_ROOM_RESPONSE", status |-> 0]>>)
          /\ UNCHANGED <<table, server>>
    /\ UNCHANGED <<up, client, talk>>

\* The client is entered into _playerRoomMap once its answer is written.
EnterRoom(c) ==
    /\ session[c] = "joining" /\ answer[c] = <<>>
    /\ session' = [session EXCEPT ![c] = "room"]
    /\ UNCHANGED <<table, room, up, stream, client, talk>>

ServeStartGame(c) ==
    /\ session[c] = "room" /\ Reads(c, "START_GAME_REQUEST")
    /\ Table!OnStartGame(room[c], c)
    /\ UNCHANGED <<server, up, answer, line, client, talk>>

LobbyState(r) ==
    <<[type |-> "LOBBY_STATE_RESPONSE", hostId |-> Table!Host(r),
       playerCount |-> Cardinality(players[r])]>>
        \o [i \in 1 .. Cardinality(players[r]) |->
                [type |-> "LobbyPlayerInfo"]]

ServeLobbyState(c) ==
    /\ session[c] = "room" /\ Reads(c, "GET_LOBBY_STATE")
    /\ Answers(c, IF status[room[c]] = "PLAYING"
                  THEN <<[type |-> "GAME_STARTING_NOTIFICATION"]>>
                  ELSE LobbyState(room[c]))
    /\ UNCHANGED <<table, server, up, client, talk>>

Recipients(c) ==
    {d \in Clients \ {c} : up[d] /\ session[d] = "room" /\ room[d] = room[c]}

\* The packet goes straight onto the others' streams, whatever their own
\* sessions are in the middle of writing.
ServeChat(c) ==
    /\ session[c] = "room" /\ Reads(c, "CHAT_MESSAGE")
    /\ line' = [d \in Clients |->
                   IF d \in Recipients(c) THEN Append(line[d], Request(c))
                                          ELSE line[d]]
    /\ chats' = [d \in Clients |->
                    IF d \in Recipients(c)
                    THEN Append(chats[d], Request(c).text) ELSE chats[d]]
    /\ UNCHANGED <<table, server, up, answer, client, said, history>>

\* A read fails, after what arrived of the last requests has been served.
SessionEnds(c) ==
    /\ ~up[c] /\ pending[c] /= "connect"
    /\ answer[c] = <<>>
    /\ session[c] \in {"none", "lobby", "room"}
    /\ session' = [session EXCEPT ![c] = "done"]
    /\ requests' = [requests EXCEPT ![c] = <<>>]
    /\ IF session[c] = "room" THEN Table!OnPlayerDisconnect(c, room[c])
                              ELSE UNCHANGED table
    /\ UNCHANGED <<room, up, answer, line, client, talk>>

ShellDelete(r) ==
    /\ MayFail
    /\ Table!DeleteRoom(r)
    /\ UNCHANGED <<server, up, stream, client, talk>>

\* A kick takes the player off the room table and closes its socket (the
\* two halves are apart in TcpServer.tla). A UDP disconnect takes it off too,
\* but only players of a started room send one, and nothing below reads the
\* list of such a room.
ShellKick(c) ==
    /\ up[c]
    /\ Cut(c)
    /\ Table!RemoveFromFirst(c)
    /\ UNCHANGED <<server, requests, line, client, talk>>

-----------------------------------------------------------------------------
(* The screens before the room menu, and the connection.                   *)

Show(c, from, to) == screen[c] = from /\ screen' = [screen EXCEPT ![c] = to]

UsernameInput(c) == Show(c, "USERNAME_INPUT", "MAIN_MENU")

MainMenu(c) ==
    \/ Show(c, "MAIN_MENU", "OPTIONS")
    \/ Show(c, "MAIN_MENU", "ROOM_SELECTION")

OptionsMenu(c) == Show(c, "OPTIONS", "MAIN_MENU")

\* Also: the server cannot be reached; a kick has come by UDP (Roster.tla).
Menus(c) ==
    /\ \/ UsernameInput(c) \/ MainMenu(c) \/ OptionsMenu(c)
       \/ pending[c] = "connect" /\ Show(c, "ROOM_SELECTION", "MAIN_MENU")
       \/ Show(c, "IN_GAME", "KICKED")
    /\ UNCHANGED <<table, server, up, stream, pending, loops, misread, view,
                   talk>>

Forget(f, c, value) == f' = [f EXCEPT ![c] = value]

\* The window is closed, the game is quit, the kicked screen dismissed: the
\* program ends, its socket is closed and its state is gone. A blocked read
\* cannot be left.
Quit(c) ==
    /\ screen[c] /= "EXITING" /\ loops[c] = 0 /\ pending[c] /= "hello"
    /\ screen' = [screen EXCEPT ![c] = "EXITING"]
    /\ IF up[c] THEN Cut(c) ELSE UNCHANGED <<up, answer>>
    /\ Forget(line, c, <<>>) /\ Forget(rooms, c, {}) /\ Forget(hostId, c, 0)
    /\ Forget(starting, c, FALSE) /\ Forget(drawn, c, 0)
    /\ Forget(history, c, <<>>)
    /\ Forget(pending, c, IF pending[c] = "connect" THEN "connect" ELSE "none")
    /\ UNCHANGED <<table, server, requests, loops, misread, said, chats>>

Connect(c) ==
    /\ screen[c] = "ROOM_SELECTION" /\ pending[c] = "connect"
    /\ up' = [up EXCEPT ![c] = TRUE]
    /\ pending' = [pending EXCEPT ![c] = "hello"]
    /\ Send(c, [type |-> "CONNECT"])
    /\ UNCHANGED <<table, server, answer, line, screen, loops,
                   misread, view, talk>>

Outcome(c, fits) ==
    misread' = [misread EXCEPT ![c] = IF fits THEN @ ELSE "other"]

\* What the client can read: nothing, once it is out of step.
InStep(c) == misread[c] = "no" /\ screen[c] /= "EXITING"

ConnectAnswered(c) ==
    /\ InStep(c) /\ pending[c] = "hello" /\ Arrived(c)
    /\ Consume(c, 1)
    /\ Outcome(c, First(c).type = "CONNECT_OK")
    /\ pending' = [pending EXCEPT ![c] = "none"]
    /\ UNCHANGED <<table, server, up, requests, answer, screen, loops, view,
                   talk>>

\* The connection was lost before the answer: the program gives up.
ConnectFails(c) ==
    /\ pending[c] = "hello" /\ Show(c, "ROOM_SELECTION", "EXITING")
    /\ ~up[c] /\ line[c] = <<>>
    /\ UNCHANGED <<table, server, up, stream, pending, loops, misread, view,
                   talk>>

-----------------------------------------------------------------------------
(* The room menu. Once a second, while no other request is under way, the  *)
(* list is asked for, and what has come so far of an earlier answer is     *)
(* read: the header is waited for, the RoomInfos are not.                  *)

\* Mutant: the list is asked for during a join.
BrowsingAndJoining(c) ==
    /\ InStep(c) /\ screen[c] = "ROOM_SELECTION"
    /\ pending[c] \in {"none", "join"}

Browsing(c) == InStep(c) /\ screen[c] = "ROOM_SELECTION" /\ pending[c] = "none"

Least(m, n) == IF m < n THEN m ELSE n

GetRooms(c) ==
    /\ Browsing(c) /\ MaySend(c, 2)
    /\ IF up[c] THEN Send(c, [type |-> "LIST_ROOMS"]) ELSE UNCHANGED requests
    /\ IF ~Arrived(c)
       THEN UNCHANGED <<line, rooms, misread>>
       ELSE LET n == Least(Len(line[c]), Length(c))
            IN  /\ Consume(c, n)
                /\ rooms' = [rooms EXCEPT ![c] =
                                {line[c][i].id : i \in 2 .. n}]
                /\ misread' = [misread EXCEPT ![c] =
                      CASE First(c).type /= "LIST_ROOMS_RESPONSE" -> "other"
                        [] n < Length(c) -> "getRooms"
                        [] OTHER -> @]
    /\ UNCHANGED <<table, server, up, answer, screen, pending, loops, hostId,
                   starting, drawn, talk>>

Asked == {c \in Clients : [type |-> "CREATE_ROOM"] \in Range(requests[c])}

\* IDLE: the request is written. On a dead connection it fails at once, and
\* nothing changes.
CreateRoom(c) ==
    /\ Browsing(c) /\ up[c] /\ MaySend(c, 1)
    /\ nextRoom + Cardinality(Asked) < MaxRooms
    /\ Send(c, [type |-> "CREATE_ROOM"])
    /\ pending' = [pending EXCEPT ![c] = "create"]
    /\ UNCHANGED <<table, server, up, answer, line, screen, loops,
                   misread, view, talk>>

\* The menu offers the rooms of the last list, whatever became of them.
RoomButtons(c) == rooms[c]

JoinRoom(c, r) ==
    /\ Browsing(c) /\ up[c] /\ MaySend(c, 1)
    /\ r \in RoomButtons(c)
    /\ Send(c, [type |-> "JOIN_ROOM", roomId |-> r])
    /\ pending' = [pending EXCEPT ![c] = "join"]
    /\ UNCHANGED <<table, server, up, answer, line, screen, loops,
                   misread, view, talk>>

\* SENT_REQUEST: lists that were asked for before are read and thrown away.
DrainList(c) ==
    /\ InStep(c) /\ pending[c] \in {"create", "join"}
    /\ Whole(c) /\ First(c).type = "LIST_ROOMS_RESPONSE"
    /\ Consume(c, Length(c))
    /\ Outcome(c, Intact(c))
    /\ UNCHANGED <<table, server, up, requests, answer, screen, pending,
                   loops, view, talk>>

\* Mutant: the room is waited for as if it had been asked for.
CreateAnsweredNoJoin(c) ==
    /\ InStep(c) /\ pending[c] = "create"
    /\ Arrived(c) /\ First(c).type /= "LIST_ROOMS_RESPONSE"
    /\ Consume(c, 1)
    /\ Outcome(c, First(c).type = "CREATE_ROOM_RESPONSE")
    /\ pending' = [pending EXCEPT ![c] = "join"]
    /\ UNCHANGED <<table, server, up, requests, answer, screen, loops, view,
                   talk>>

\* The answer to createRoom: in the same frame the room is joined.
CreateAnswered(c) ==
    /\ InStep(c) /\ pending[c] = "create"
    /\ Arrived(c) /\ First(c).type /= "LIST_ROOMS_RESPONSE"
    /\ Consume(c, 1)
    /\ Outcome(c, First(c).type = "CREATE_ROOM_RESPONSE")
    /\ IF First(c).type = "CREATE_ROOM_RESPONSE" /\ up[c]
       THEN /\ Send(c, [type |-> "JOIN_ROOM", roomId |-> First(c).roomId])
            /\ pending' = [pending EXCEPT ![c] = "join"]
       ELSE /\ UNCHANGED requests
            /\ pending' = [pending EXCEPT ![c] = "none"]
    /\ UNCHANGED <<table, server, up, answer, screen, loops, view, talk>>

Joined == [type |-> "JOIN_ROOM_RESPONSE", status |-> 1]

\* Mutant: a list is not told from the answer.
JoinAnsweredByList(c) ==
    /\ InStep(c) /\ pending[c] = "join" /\ Arrived(c)
    /\ Consume(c, 1)
    /\ Outcome(c, First(c).type = "JOIN_ROOM_RESPONSE")
    /\ pending' = [pending EXCEPT ![c] = "none"]
    /\ screen' = [screen EXCEPT ![c] =
                     IF First(c) = Joined THEN "LOBBY" ELSE @]
    /\ UNCHANGED <<table, server, up, requests, answer, loops, view, talk>>

JoinAnswered(c) ==
    /\ InStep(c) /\ pending[c] = "join"
    /\ Arrived(c) /\ First(c).type /= "LIST_ROOMS_RESPONSE"
    /\ Consume(c, 1)
    /\ Outcome(c, First(c).type = "JOIN_ROOM_RESPONSE")
    /\ pending' = [pending EXCEPT ![c] = "none"]
    /\ screen' = [screen EXCEPT ![c] =
                     IF First(c) = Joined THEN "LOBBY" ELSE @]
    /\ UNCHANGED <<table, server, up, requests, answer, loops, view, talk>>

\* The stream ends within a message: the request is given up, or, when it
\* was within a list, waited on for ever.
AnswerCut(c) ==
    /\ InStep(c) /\ pending[c] \in {"create", "join"}
    /\ ~up[c] /\ ~Whole(c)
    /\ Consume(c, Len(line[c]))
    /\ \/ pending' = [pending EXCEPT ![c] = "none"]
       \/ UNCHANGED pending
    /\ UNCHANGED <<table, server, up, requests, answer, screen, loops,
                   misread, view, talk>>

-----------------------------------------------------------------------------
(* The lobby: getLobbyState, called over and over, and the start button.   *)

\* The request, when the connection is known to be dead, fails, and so does
\* the call. loops is one more than what is left of max_loops.
GetLobbyState(c) ==
    /\ InStep(c) /\ screen[c] = "LOBBY" /\ loops[c] = 0 /\ MaySend(c, 1)
    /\ loops' = [loops EXCEPT ![c] = MaxLoops + 1]
    /\ IF up[c] THEN Send(c, [type |-> "GET_LOBBY_STATE"])
                ELSE UNCHANGED requests
    /\ UNCHANGED <<table, server, up, answer, line, screen, pending,
                   misread, view, talk>>

\* One turn of its loop. A message of no known type loses its first byte,
\* and what remains of it is taken for more messages.
ReadLobby(c) ==
    /\ InStep(c) /\ loops[c] > 1 /\ Whole(c)
    /\ loops' = [loops EXCEPT ![c] = @ - 1]
    /\ Consume(c, Length(c))
    /\ misread' = [misread EXCEPT ![c] =
                      IF First(c).type = "CHAT_MESSAGE" \/ ~Intact(c)
                      THEN "getLobbyState" ELSE @]
    /\ IF First(c).type = "LOBBY_STATE_RESPONSE"
       THEN /\ hostId' = [hostId EXCEPT ![c] = First(c).hostId]
            /\ starting' = [starting EXCEPT ![c] = FALSE]
       ELSE /\ starting' = [starting EXCEPT ![c] =
                    @ \/ First(c).type = "GAME_STARTING_NOTIFICATION"]
            /\ UNCHANGED hostId
    /\ UNCHANGED <<table, server, up, requests, answer, screen, pending,
                   rooms, drawn, talk>>

\* The call returns. In every frame its result is asked whether the game
\* begins; every half second it is first copied, to be drawn. (Once the game
\* has begun the lobby's state is not looked at again: it is forgotten.)
CopyLobbyState(c) ==
    /\ drawn' = [drawn EXCEPT ![c] = hostId[c]]
    /\ UNCHANGED <<screen, hostId>>

EnterGame(c) ==
    /\ starting[c]
    /\ screen' = [screen EXCEPT ![c] = "IN_GAME"]
    /\ Forget(hostId, c, 0) /\ Forget(drawn, c, 0)

LobbyRead(c) ==
    /\ InStep(c) /\ loops[c] > 0
    /\ loops[c] = 1 \/ ~Arrived(c) \/ (~up[c] /\ ~Whole(c))
    /\ loops' = [loops EXCEPT ![c] = 0]
    /\ \/ CopyLobbyState(c)
       \/ EnterGame(c)
       \/ ~starting[c] /\ UNCHANGED <<screen, hostId, drawn>>
    /\ UNCHANGED <<table, server, up, stream, pending, misread, rooms,
                   starting, talk>>

\* The button is shown to the host of the last state that was copied.
StartButton(c) == drawn[c] = c

PressStart(c) ==
    /\ InStep(c) /\ screen[c] = "LOBBY" /\ loops[c] = 0
    /\ ~starting[c] /\ StartButton(c)
    /\ up[c] /\ MaySend(c, 2)
    /\ Send(c, [type |-> "START_GAME_REQUEST"])
    /\ UNCHANGED <<table, server, up, answer, line, client, talk>>

-----------------------------------------------------------------------------
(* The chat of the game.                                                   *)

SendChat(c) ==
    /\ InStep(c) /\ screen[c] = "IN_GAME" /\ up[c] /\ MaySend(c, 1)
    /\ c \in Talkers /\ said[c] < MaxSaid
    /\ said' = [said EXCEPT ![c] = @ + 1]
    /\ Send(c, [type |-> "CHAT_MESSAGE",
                text |-> [from |-> c, nr |-> said[c] + 1]])
    /\ UNCHANGED <<table, server, up, answer, line, client, chats,
                   history>>

\* What is left of the lobby's answers is thrown away byte by byte, up to
\* the first that is 14: start notifications and the state of a room that
\* was deleted have none.
Harmless(u) ==
    \/ u.type = "GAME_STARTING_NOTIFICATION"
    \/ u.type = "LOBBY_STATE_RESPONSE" /\ u.hostId = 0 /\ u.playerCount = 0

\* Mutant: what is no chat packet is thrown away by the three bytes that
\* were looked at.
ReceiveChatByHeader(c) ==
    /\ InStep(c) /\ screen[c] = "IN_GAME" /\ Arrived(c)
    /\ IF First(c).type = "CHAT_MESSAGE"
       THEN /\ Consume(c, 1)
            /\ history' = [history EXCEPT ![c] = Append(@, First(c).text)]
            /\ UNCHANGED misread
       ELSE /\ Consume(c, Least(Len(line[c]), 3))
            /\ Outcome(c, Harmless(First(c)))
            /\ UNCHANGED history
    /\ UNCHANGED <<table, server, up, requests, answer, screen, pending,
                   loops, view, said, chats>>

ReceiveChat(c) ==
    /\ InStep(c) /\ screen[c] = "IN_GAME" /\ Arrived(c)
    /\ Consume(c, 1)
    /\ IF First(c).type = "CHAT_MESSAGE"
       THEN /\ history' = [history EXCEPT ![c] = Append(@, First(c).text)]
            /\ UNCHANGED misread
       ELSE /\ Outcome(c, Harmless(First(c)))
            /\ UNCHANGED history
    /\ UNCHANGED <<table, server, up, requests, answer, screen, pending,
                   loops, view, said, chats>>

-----------------------------------------------------------------------------
Session(c) ==
    \/ WriteUnit(c) \/ ServeConnect(c)
    \/ ServeListRooms(c) \/ ServeCreateRoom(c) \/ ServeJoinRoom(c)
    \/ EnterRoom(c) \/ ServeStartGame(c) \/ ServeLobbyState(c) \/ ServeChat(c)
    \/ SessionEnds(c)

Client(c) ==
    \/ Menus(c) \/ Quit(c)
    \/ Connect(c) \/ ConnectAnswered(c) \/ ConnectFails(c)
    \/ GetRooms(c) \/ CreateRoom(c) \/ \E r \in RoomIds : JoinRoom(c, r)
    \/ DrainList(c) \/ CreateAnswered(c) \/ JoinAnswered(c) \/ AnswerCut(c)
    \/ GetLobbyState(c) \/ ReadLobby(c) \/ LobbyRead(c) \/ PressStart(c)
    \/ SendChat(c) \/ ReceiveChat(c)

Next ==
    \/ \E c \in Clients :
            Session(c) \/ Client(c) \/ Lose(c) \/ ShellKick(c)
    \/ \E r \in RoomIds : ShellDelete(r)

Spec == Init /\ [][Next]_vars

-----------------------------------------------------------------------------
(* Properties.                                                             *)

\* Requests and answers are written without waiting for each other, and yet
\* each message is read by code that knows its type, except in two places: a
\* room list that has come only in part (getRooms), and a chat message that
\* comes while the lobby is polled (getLobbyState).
OnlyTwoMisreads == \A c \in Clients : misread[c] /= "other"

\* What is waited for is on its way, once: the request is yet to be read, or
\* its answer is on the line. And what is not waited for is not: no late
\* answer is left that a later request could take for its own.
Asks == [hello |-> "CONNECT", create |-> "CREATE_ROOM", join |-> "JOIN_ROOM"]
Gets == [hello |-> "CONNECT_OK", create |-> "CREATE_ROOM_RESPONSE",
         join |-> "JOIN_ROOM_RESPONSE"]

Places(seq, type) == {i \in DOMAIN seq : seq[i].type = type}
HowMany(seq, type) == Cardinality(Places(seq, type))

OwedOnce ==
    \A c \in Clients, p \in DOMAIN Asks : up[c] /\ misread[c] = "no" =>
        HowMany(requests[c], Asks[p]) + HowMany(line[c], Gets[p])
            = IF pending[c] = p THEN 1 ELSE 0

\* A request is read by the loop of the session that has a case for it: what
\* is asked in the lobby is never read by handleInRoomClient, nor the other
\* way round, although the client changes screens on its own.
RequestsFit ==
    \A c \in Clients : requests[c] /= <<>> /\ up[c] =>
        Request(c).type \in
            CASE session[c] = "none" -> {"CONNECT"}
              [] session[c] = "lobby" ->
                    {"LIST_ROOMS", "CREATE_ROOM", "JOIN_ROOM"}
              [] session[c] = "room" ->
                    {"GET_LOBBY_STATE", "START_GAME_REQUEST", "CHAT_MESSAGE"}
              [] OTHER -> {Request(c).type}

\* The client shows a lobby or a game only while the server has it in a room,
\* and who is in a room is shown it, or has the answer still to read: no
\* seat is taken for a client that thinks it has none.
ScreenMatchesSession ==
    \A c \in Clients : up[c] /\ misread[c] = "no" =>
        /\ screen[c] \in {"LOBBY", "IN_GAME"} =>
              session[c] \in {"joining", "room"}
        /\ session[c] \in {"joining", "room"} =>
              \/ screen[c] \in {"LOBBY", "IN_GAME", "KICKED"}
              \/ pending[c] = "join"

\* How many of the first i units are chat packets, and which of the messages
\* sent to a client the one at place i of its line is.
Packets(seq, i) == Cardinality({j \in Places(seq, "CHAT_MESSAGE") : j <= i})

Number(c, i) == Len(history[c]) + Packets(line[c], i)

\* The history of a client in step shows the chat messages it was sent, each
\* once and in order, and those it does not show are still to be read.
ChatInOrder ==
    \A c \in Clients : misread[c] = "no" =>
        /\ IsPrefix(history[c], chats[c])
        /\ up[c] =>
              /\ Number(c, Len(line[c])) = Len(chats[c])
              /\ \A i \in Places(line[c], "CHAT_MESSAGE") :
                    line[c][i].text = chats[c][Number(c, i)]
=============================================================================
