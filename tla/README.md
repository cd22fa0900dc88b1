# A TLA+ model of the R-Type server and its clients

This directory holds a formal model of the networked core of this repository: a
multiplayer R-Type with a C++ server (rooms over TCP, the game over UDP) and a
raylib client. The modules are written from the code under `Src/` and `Include/`;
`PROJECT.json` gives, for every definition, the lines it models.

## 1. The system

One server process, any number of client processes.

| Part | Where | State it keeps | Operations |
| --- | --- | --- | --- |
| Ring buffer | `Include/Network/RingBuffer.hpp` | array, `_head`, `_tail`, `_count` | `push`, `pop`, `isEmpty`, `isFull`, `count`, each under its own mutex |
| UDP server | `Src/Network/UDPServer.cpp` | `_running`, socket, two ring buffers, three threads | `start`, `stop`, `recvLoop`, `sendLoop`, `processLoop`, `queueMessage` |
| TCP server | `Src/Network/TCPServer.cpp` | `_running`, `_nextPlayerId`, `_playerSockets`, `_playerRoomMap`, one thread per client | `start`, `stop`, `acceptLoop`, `handleClient`, `handleInRoomClient`, `kickPlayer` |
| Room table | `Src/Server/ServerManager.cpp` | `_rooms`, `_nextRoomId`, in each room the status and player list of its `Game` | the `ITCPHandler` callbacks, shell commands, UDP disconnection |
| Server manager | same file | `_running`, shell thread, game loop | `run`, `shellLoop`, `processCommand`, `onMessageReceived`, destructor |
| Game | `Src/Server/Game.cpp` | entities, players, `_gameTime`; boss state in static maps keyed by `Game*` | `update` and its phases, `handlePlayerInput`, shots, broadcasts, joins and departures |
| Client, in game | `Src/Client/RTypeClient.cpp`, `UDPClient.hpp` | own ship and pending inputs, the others' ships, entity map, screen, chat | `tick`, `handleInput`, `applyInput`, `update` |
| Client, TCP | `Src/Network/TCPClient.cpp` | socket, request states, cached answers | `sendConnectRequest`, `getRooms`, `createRoom`, `joinRoom`, `getLobbyState`, chat |
| Client screens | `Src/Client/ClientManager.cpp` | `_currentState`, requests under way | `run` |
| Renderer | `Src/Client/Renderer.cpp` | animations, explosions, key to remap | one `draw...` per screen; the menus return a choice |
| Configuration, patterns, platform glue, build | the rest | | pure input and output; not modelled |

How they interact:

- A TCP client thread calls the room table through `ITCPHandler`; the callbacks take
  `ServerManager::_serverMutex`. The maps of sockets and of rooms are under another
  mutex, `TCPServer::_serverMutex`; the player id counter is under none.
- The game loop holds `ServerManager::_serverMutex` while it updates every game. An
  update locks the entities and the players again and again, phase by phase.
- The UDP process thread calls `onMessageReceived`, which takes no server mutex: it
  changes players and entities between any two phases of an update.
- Everything sent by UDP goes through the outgoing ring buffer, which drops what it
  cannot take; nobody looks at the result of `push`.
- The TCP stream has no frames. The client asks for rooms once a second and for the
  lobby several times a frame without waiting for the answers, and finds the next
  message only if it read all of the one before; chat is pushed in between.
- A player's departure is told to the others by one UDP message, never repeated, if it
  is told at all; the TCP connection of the same player ends on its own.
- The shell thread creates and deletes rooms and kicks players (room table first,
  socket afterwards). `exit`, or the end of its input, ends the game loop; the
  destructor of `ServerManager` then stops the two servers.

What is hard here: sessions that end in five ways (lost connection, kick, deleted room,
UDP disconnection, shutdown) while others join, chat and start the game; threads that have
to be freed from blocking calls; two locks for one logical step; game phases with other
threads' steps in between; a byte stream on which requests overtake answers; a network
that loses and reorders; indices that wrap. The list, line by line, is under `hazards` in
`PROJECT.json`.

## 2. The modules

| Module | Models | Composed with |
| --- | --- | --- |
| `BoundedFifo` | the promise of the ring buffer: a bounded FIFO queue, with the results of the calls | |
| `RingBuffer` | the array, indices and count | refines `BoundedFifo` |
| `UdpServer` | the UDP server's threads, socket and queues, `start` and `stop` | its queues are those `RingBuffer` implements |
| `Rooms` | the room table, called by anyone at any time | |
| `TcpServer` | accept loop, client threads, shell, shutdown | `INSTANCE Rooms` for the table its threads call |
| `Game` | entities and boss fight of one room, and of the next one at its address | |
| `Datagrams` | the network under a running game | extended by the next three |
| `EntityView` | the entity datagrams and the client's map | |
| `PlayerSync` | inputs, acknowledgements, prediction and reconciliation | |
| `Roster` | who is in a started game: on the server's list, and on a client's screen | takes over where `Rooms!StartedIsClosed` leaves off |
| `TcpClient` | the client's screens and requests, the stream, and the sessions that answer | `INSTANCE Rooms` for the table behind the sessions |
| `GameLocks` | every thread of the server, the mutexes it takes and what it touches, sockets included | the critical sections the other modules take as steps |
| `RingBufferProofs`, `UdpServerProofs`, `RoomsProofs`, `TcpServerProofs`, `GameProofs`, `GameLocksProofs`, `TcpClientProofs` | theorems | extend the module they are about; `TcpServerProofs` and `TcpClientProofs` cite those of `RoomsProofs` through an `INSTANCE` |
| `ViewProofs` | theorems about `Roster`, `PlayerSync` and `EntityView` | extends all three |

Each `MC...` module instantiates one of them for TLC. An action of a module is one
critical section, one blocking call or one handler of the code, and is named after it
where it can be. Mutants (operators commented as such, next to the one they vary) are
plausible bugs that show that each property can fail.

**UdpServer.** `pc` says where each of the four threads is. The kernel's receive queue and
the descriptor are explicit, because `stop()` depends on them: it clears `_running`,
closes the socket and sends a byte to its own port to free the receive thread. A thread
that is already blocked keeps the kernel's socket alive; one that has read the descriptor
but not entered the kernel gets an error. The byte is lost if the kernel's queue is full
(`SendWakeUp`), which does no harm, as a thread that is blocked then finds a datagram, or
if it cannot be sent (`LoseWakeUp`), which does. `Handle` has no step for a packet that is
not there: `NoNullDereference` says that the thread never gets to need one.

**Rooms.** A player list is the set of its entries, each with the number of the
`push_back` that made it. The host is the entry with the least number, as
`Game::getHostId` takes the front. `joined` and `nextRoom` are bounded by constants only
to bound TLC's search.

**TcpServer.** A client is anything that follows the message grammar; each read of its
thread returns any message that is legal there, or fails. `sock` distinguishes an open
descriptor, one whose peer is gone ("reset"), a closed one, and a closed one on which a
read is still blocked ("orphan": what the peer sends next still reaches that read).
`CloseWakesReader` tells the platforms apart: closing a socket ends a read blocked on it
on some, not on Linux. `_nextPlayerId++` is a load and a store. As every call on the room
table is an operator of `Rooms`, that these calls are steps of `Rooms` says little: what
the properties ask is who makes which call, when and with what id. The maps are asked for
what they lack (`ServedIsRegistered`) and for what they should not have any more
(`StaleEntriesAreInert`): a session that could not write its greeting returns without
erasing its socket.

**Game.** `phase` is where `update` is; shots come in between. Positions are left out:
any possible set of collisions may happen in an update. A room is deleted and made again:
`Construct` builds the next Game at a new address, where the static boss maps hold zeros,
or at the one of the deleted Game, where they hold its fight. `inherited` remembers the
level a Game found, so that the properties can name the one case in which level and
entities do not agree.

**Datagrams, EntityView, PlayerSync.** The network is "perfect" or "lossy" for a whole
behaviour; both kinds are checked in one run. A lossy one drops any datagram and delivers
in any order. The outgoing buffer drops what does not fit. `cut` remembers that a global
sync was too long for a message and lost its end. These two modules and `Roster` name
their specifications after themselves (`ViewSpec`, `SyncSpec`, `RosterSpec`), since one
module of proofs extends all three.

**Roster.** One client is followed, with what it is sent and what it shows; of the
others only that they die, quit, are kicked or lose their connection. `Tick` begins a frame,
`Update` is one turn of the loop in `RTypeClient::update`, which reads one message, and
`FrameEnds` is its end, when nothing more has come. A client that is paused reads nothing
(`tick` calls `update` only while playing or after the end), so that what it is sent fills
its socket and overflows: `missed`. `silent` remembers who was taken off the list by the
end of the TCP connection, which tells nobody.

**TcpClient.** A unit is what one `asio::write` of the server puts on the stream: a
header, one `RoomInfo`, one `LobbyPlayerInfo`, a chat packet. The client sees the units
that have arrived; an answer is there in part for as long as its session has units yet to
write, and a chat packet may come between them. A step of the client is one call of a
`TCPClient` method in one frame of `ClientManager::run`, or one turn of `getLobbyState`'s
loop. A read that blocks is a step that waits; a read that does not block (`getRooms`)
takes what is there. `drawn` is the host in the copy of the lobby state that is on the
screen: of the two calls of `getLobbyState` in a frame one refreshes the copy, twice a
second, and the other looks only for the start (`CopyLobbyState`, `EnterGame`). The shell
deletes rooms, and kicks: the player leaves the table and its connection ends. Where the
client takes bytes for something they are not, `misread` says in which call, and it is not
followed further. Left out because they cannot happen: `CONNECT_ERROR` (never sent) and
`checkConnection` (never called). The room table behind the sessions is `Rooms`; two
threads on one table are in `TcpServer`.

**GameLocks.** A thread runs one program after another; a program is the sequence of its
critical sections and of the stretches between, each with the mutexes held and the shared
objects in use. Entering a place waits for the mutexes that are new there. The longest way
through a function stands for all its ways, since the others leave out places. The
objects are the room table, one Game (status, players, entities, and the two mutexes that
die with it), the maps of the TCP server, the id counter, the acceptor, and the socket of
each client, which a session reads while it waits for a request (`Between`). To close a
socket is to write it; to destroy a Game is to write everything in it. What the other
modules take as one step although it is under no lock is what `OnlyKnownRaces` names.

## 3. The runs

All runs are with 2 workers; the longest takes about two and a half minutes. Every type
invariant is proved (section 4); only those of `EntityView`, `PlayerSync` and `Roster`,
which say more than types, are checked here as well.

| Run | Bounds | Shows |
| --- | --- | --- |
| `ring_buffer` | capacity 3, 3 items | refinement of the FIFO, results of the calls included, through every wrap |
| `udp_server` | capacity 2, kernel queue 1, 3 datagrams, 3 messages | no packet is missing when it is used, order is kept, nothing gets stuck, shutdown leaves nothing running and ends, unless its wake-up was lost |
| `rooms` | 3 players, 2 rooms, 3 joins per room | host, closed games, room ids |
| `tcp_server` | 2 connections, 2 rooms, all shell commands, Linux sockets | seven safety properties of sessions, lists and maps, whatever ends a session |
| `tcp_server_live` | 2 connections, 1 room, kick and exit, sockets that wake their reader | shutdown ends, a kick takes effect |
| `game` | 2 Games, hit points 2 and 3, 4 updates each, 3 ids before the last shots | boss level against entities, order of the fight, both bosses come unless the fight was inherited |
| `entity_view` | 3 entities, 2 in flight, syncs of 2, local ids from 3 | the client's map: exact when nothing is under way, convergence in the end |
| `player_sync` | 3 ticks, 2 in flight each way | exact prediction, agreement in the end |
| `tcp_client` | 2 clients, 1 room, 2 unread requests, 2 chat messages of one client, 1 fault (a lost connection, a kick or a deleted room) | requests and answers match, screens and sessions match, chat in order |
| `game_locks` | 2 client threads, with the game loop, the UDP thread, the shell and the accept loop | no deadlock (checked twice: as a property and by TLC), the game is not held up by a client that does not read, no race but those named |
| `roster` | 2 players, 4 datagrams on the way, 3 on a lossy network | whose ship is shown |
| `tcp_ids` | 2 connections | what the code does not do (section 5) |

Why the bounds are enough: the ring buffer's capacity is smaller than the number of items
that pass, so that it fills, empties and wraps; the UDP queues overflow with three
messages; a race needs two sessions and two rooms at most, as every property relates two
connections, or a connection and a room (the proofs of `RoomsProofs` are for any number);
the boss has hit points for one more shot than one kind deals; two Games are one that
leaves a fight and one that finds it; entities are one more than a sync holds, and one has
an id the client takes for local; three ticks are a greeting, a move that is replayed, and
a late input. For the stream, two requests in flight are an old one and the one that is
waited for; two clients are the one that asks and the one whose chat comes in between, or
who joins, starts or leaves the room meanwhile; a second room only adds a second
`RoomInfo`, and a list of one already comes in two parts. For the locks, two clients are
enough for a circle of waiting or for a race (the proof is for any number). For the
roster, four datagrams are a state of each player and a notice for each.

Deadlock is checked in `game_locks`, where threads go on for ever. In the others it is not:
their bounds stop them, and a server without clients rightly waits. That waiting does not
go on for ever where it must not is what the liveness properties say.

**Fairness.** Threads that can run are scheduled (weak fairness of each thread or loop).
Nothing makes a client send, a datagram arrive, a blocked call fail or the operator type:
these actions have none. In `EntityView` and `PlayerSync`, where the question is what
happens on a network that is bad but not dead, the frames of client and game loop go on
for ever, no datagram travels for ever, and not all global syncs, inputs or states are
lost: strong fairness of their delivery. In `Game` the game loop does not stop. In `Roster`
the UDP thread handles what has come and frames begin and end (weak fairness of `Handle`,
`Tick` and `FrameEnds`); a client that goes on having frames with messages to read reads
(strong fairness of `Update`: whether the message has come when the loop looks may change
from frame to frame). `TcpClient` and `GameLocks` assume none.

**Conditions in the properties.** Some properties hold only if player ids are distinct
(`UniquePlayerIds`), which the code does not guarantee; they say so in their statement.
The `StopCompletes` of `TcpServer` excludes connections that never sent a greeting:
`stop()` has no socket of theirs to close and joins their threads; with `KickTakesEffect`
it is checked where closing a socket wakes its reader. That of `UdpServer` excludes a
wake-up that was lost while the receive thread is blocked and nothing else arrives.
`BossMatchesLevel` and `BossesCome` except a level inherited from a deleted Game.
`PredictionIsExact` excludes a state that was sent between the acknowledgement and the
application of an input (`Game.cpp:52-57`). `Converges` excludes more living entities than
a sync holds (72) and ids from 9999 on, `DrainedIsExact` a sync that was cut off.
`NoGhostShips` and `DeathIsSeen` are about a network that keeps the order and loses
nothing, since a notice is sent once; they exclude players whose TCP connection ended
before their notice was handled, and clients that paused until their socket overflowed: in
these cases a ghost stays on the screen. `OnlyTwoMisreads` excludes the two places that
its name counts: a room list that has come in part, and chat that comes while the lobby is
polled, by players whose game has begun before that of the one who polls. What is said of
a client afterwards is said of clients that are still in step.

## 4. What is proved

With TLAPS, for every value of the constants that satisfies the named assumptions:

- `RingBufferProofs`: type correctness, `IndexInv`, `ContentsInv`, and that `RingBuffer`
  implements `BoundedFifo` for any capacity. The inductive invariant is
  `TypeOK /\ IndexInv /\ ContentsInv`: that the write index is `count` slots after the
  read index is what makes a push leave the queue's slots alone and a pop read its head;
  `ModuloOneTurn` reduces the modular arithmetic to one turn of the array.
- `UdpServerProofs`, for any capacities, any number of datagrams and messages, and a
  wake-up that is no datagram (`PacketAssumption`): type correctness and every safety
  property of the `udp_server` run. Three inductive layers:
  1. `Control`: `_running` is set exactly while main is between `start` and `stop`, and
     what main has joined is done, hence `StopIsQuiet`.
  2. `Data`: types and lengths, and `Genuine`: before `stop()` sends its datagram nothing
     holds one, and later `recvLoop` pushes nothing; what `processLoop` found not empty
     stays so, since only it pops (`PopFinds`, `WakeUpStaysOut`).
  3. `Outgoing`, `Incoming`: each queue with what was disposed of last and what is in
     hand is `Ordered`, and what is still to come is newer than all of it: the next
     number, and until the server is stopped also what `recvLoop` and the kernel hold.
     After the stop this fails (the wake-up has no number), but then nothing is pushed.
- `RoomsProofs`: type correctness, `SeatsDistinct`, and the three action properties. The
  inductive invariant adds to these two that rooms not yet created are empty and have no
  status. `HostIsStable` needs that a non-empty list has exactly one front
  (well-foundedness of the naturals and distinct seats), then that a step which keeps
  the front keeps the host.

- `TcpServerProofs`, for any number of connections and rooms, any shell commands, and both
  ways a socket can behave when it is closed: type correctness and every safety property
  of the `tcp_server` run. The layers, each an inductive invariant over the ones before:
  1. `Typing`. `TypeOK` alone is not inductive: `nextPlayerId` and the copies of it that
  threads hold stay below the number of connections only because no thread increments it
  twice, which `Counting` says with the number of connections that have an id. `Sessions`
  says where a thread has an id and a room. 2. The theorems of `RoomsProofs` hold in the
  server (`RoomsGuarantees`), since its threads change the table by the operators of
  `Rooms` alone. 3. `NoGhosts`: inductive with the types, since while the server runs only
  `RoomReadFails` ends a session, and it takes the session's entries with it. It needs
  nothing of the ids. 4. `Lists`, `Maps`: every entry of a list and of a map is traced to
  the connection that made it. With distinct ids (which, once lost, stay lost:
  `UniqueBefore`) the trace leads back to one connection, hence `OneRoom`, `Registration`,
  `ChatIsPrivate`. Without them, the trace from an entry to a session that ended leads to
  a client that never was in a room: `StaleIsInert`. 5. `Starts`: a session's room has
  been created, so that creating a room never puts it back into its lobby; `Stopping`:
  nothing is accepted once `acceptLoop` is joined.
- `GameProofs`, for any hit points, damages, times and numbers of entities: types,
  `FightAdvances` and `BossMatchesLevel`, wherever the Games are built. The sets of entities
  stay finite, so that damages are numbers; `CollisionShape` reduces the choices of a
  collision step to the hits and the victims, with the boss among these exactly if it
  dies. A Game that finds level 1 or 3 has no boss to hit, so that its level stays
  `inherited`; any other level is one the Game itself goes on from.
- `GameLocksProofs`, for any number of clients: that a mutex has one holder
  (`LocksExclude`) is inductive with the types, because a thread advances only when what
  it wants is free. The rest follows from it and from the programs. `DeadlockFree`: every
  program takes `_serverMutex` of the manager, then a game's entities, then its players,
  and that of the TCP server alone, so that a thread waits only for one that stands at a
  higher mutex; a finite circle would have a highest one. `GameNeverHeldUp`: who writes to
  a client holds the TCP server's mutex or none, and wants nothing; who waits for that
  mutex holds none; the UDP thread never wants it, and the loop's thread only in `Stop`.
  `RacesAreKnown`: by cases on the object, two places in it of which one writes have a
  common mutex in all programs but those of the pairs that `Known` lists; the sockets need
  the TCP server's mutex as the common one of chat, kick and stop.

- `ViewProofs`, for any number of players, entities, ticks and any sizes of the buffers:
  types and every safety property of the `roster`, `player_sync` and `entity_view` runs.
  None of these properties is inductive, because each speaks of a moment when nothing is
  under way. The invariants say what the channel as a whole, with what has been read,
  amounts to: 1. `CrewInv`: a state under way tells of a player on the list, or has the
  notice of its departure behind it (`GhostsAreNoticed`); a notice under way is of a
  player who has left (`NoticesAreTrue`, which gives `ShipsVanishOnlyWhenGone` on any
  network); a client whose address is unknown is sent nothing and sees nothing. 2.
  `ShipInv`: inputs come in order and are handled in order, every move is on its way, in
  the server's hands or done (`NoMoveIsLost`), what a state acknowledges is applied unless
  it was sent between the two writes (`StatesAreTrue`), and the client's pending inputs
  are exactly those after the last acknowledgement (`PendingIsComplete`), hence
  `PredictionIsExact`. 3. `EntInv`: the last datagram under way about an entity says what
  the server has (`LastSaysActual`), an update is of an entity the client knows or is
  about to be told of, and what nothing is under way about is shown as it is.

- `TcpClientProofs`, for any number of clients, rooms and requests under way, and any
  connections that end: type correctness and every property of the `tcp_client` run. None
  of them is inductive: why the client finds its way in an unframed stream is a matter of
  all that is on it. `Inv` says, for each client (`Good`), of its requests, of the answer
  its session is writing and of its line:
  1. what the screens and the stages of a connection exclude (`Unconnected`, `Greeted`,
     `Screened`, `Served`): before the greeting there is nothing else to be read, and a
     client that has left the room menu waits for nothing.
  2. `Fitting`: all that was written, not only the next request, is for the loop the
     session is in, and a join ends its stay in the first (hence `RequestsFit`). It is
     kept because who was let into a room has been asked for nothing more (`Placed`), and
     `Placed` gives `ScreenMatchesSession`.
  3. `Owed`, `Awaited`: what is waited for was asked last or is answered; the answer is
     alone on the line, in front of nothing but chat. Hence `OwedOnce`, counted over
     whole sequences.
  4. `Framed`: on the room menu the line is made of lists, each a header and as many
     `RoomInfo`s, the last perhaps still being written, then the answer, then chat, and
     chat only once the client was let in. Taking a list off the front or appending a
     unit keeps that (`ReadingKeepsFrames`, `AppendingKeepsFrames`): with it the first
     unit on the room menu is a list or what is waited for, and `OnlyTwoMisreads` holds.
  5. `Started`: once a notice was sent the room has left its lobby for good, so that no
     lobby state follows that the game's chat reader could stumble over.
  6. `Chatted`: the `Number`-th message sent is the one at each place of the line, which
     needs `PacketsRest` and `PacketsAppend` on counting.

A step concerns one client, and leaves what holds of the others (`OthersKeep`), except for
chat (`ChatArrives`), a deleted room and the room table, which only moves `Onward`: ids
are not given again and a room does not go back to its lobby. There is a lemma for each
action; those that serve a request share `LobbyServes`, `RoomServes` and `DeadKeeps`.

Only model-checked: liveness (`StopCompletes`, `QueuesDrain`, `KickTakesEffect`,
`BossesCome`, `Converges`, `Settles`, `DeathIsSeen`), which is out of this prover's reach.

## 5. Where the code and what is said of it differ

Shown by a run that ends in a counterexample:

- `UniquePlayerIds`: `_nextPlayerId++` (`TCPServer.cpp:123`) is unprotected, though it is
  the "Counter for assigning unique player IDs" (`TCPServer.hpp:103`). `OnlyKnownRaces`
  has it among its exceptions.

Named as an exception of a property that holds otherwise:

- There is a "Mutex for thread-safe access to shared resources" (`ServerManager.hpp:127`)
  and one "to protect access to the _players vector" (`Game.hpp:228`), but the UDP thread
  iterates `_rooms` without the first (`ServerManager.cpp:69,81`) and uses what `getPlayer`
  returned without the second (`Game.cpp:29-57`): `OnlyKnownRaces`. The game loop and
  `onGetLobbyState` read `_players` without its mutex as well (`Game.cpp:250`,
  `ServerManager.cpp:155-164`); they hold `_serverMutex`, and race only with the UDP thread.
- `delete` destroys a Game, its entities and mutexes included, under `_serverMutex` alone
  (`ServerManager.cpp:233`), while the UDP thread, which holds no share in it, may be
  creating a shot there (`Game.cpp:160-175`): `OnlyKnownRaces`.
- There is a "Mutex for thread safety" in the TCP server (`TCPServer.hpp:106`), but it is
  for the maps. A session uses its socket without it, while chat writes to the same socket
  (`TCPServer.cpp:272`) and kick and stop close it (288, 77); and stop closes the acceptor
  under the accept loop (53, 95): `OnlyKnownRaces`.
- "Static maps to hold Boss state per Game instance" (`Game.cpp:14`), but they are keyed by
  address and never erased: a `Game` built where a deleted one was goes on with its fight,
  and if that stood at a living boss or at the end, no boss ever comes. `BossMatchesLevel`
  and `BossesCome` except it.
- A wake-up that cannot be sent is ignored (`UDPServer.cpp:61`), and `stop()` then waits
  for the next datagram: `StopCompletes`.
- A chat message that comes while the lobby is polled loses its first byte, and the rest is
  taken for messages (`TCPClient.cpp:387-389`); a room list that has come in part is read
  as a whole one, since errors are ignored on a non-blocking socket
  (`TCPClient.cpp:115-119`): `OnlyTwoMisreads`.
- `removePlayerFromLobby`, unlike the other ways to leave a game, tells nobody
  (`Game.cpp:457-467`), and a quit or a closed window ends the TCP connection at about the
  time its notice is sent: `NoGhostShips`.
- A message sent between the acknowledgement and the application of an input
  (`Game.cpp:52-57`) claims a move it does not show: `PredictionIsExact`.

Noticed while modelling, without a run:

- "Players inside will be disconnected" (`ServerManager.cpp:234`), but `delete` leaves the
  sessions running in a room that is not there.
- No room has a limit of players, though 4 is announced (`TCPServer.cpp:162`,
  `ProtocoleTCP.hpp:98`).
- A join answers 1 for success and 0 for failure where the header says 0 for success, -1
  and -2 for failures (`TCPServer.cpp:179`, `ProtocoleTCP.hpp:152`); the client agrees with
  the server (`TCPClient.cpp:267`), which `ScreenMatchesSession` depends on.
- The start of a game is told only to clients that ask (`TCPServer.cpp:225`), not
  broadcast (`ProtocoleTCP.hpp:195`).
- `LobbyState::disconnected` is never set: on a lost connection the lobby screen stays, a
  creation or a join is waited for as long as the program runs, and a player kicked in the
  lobby is not told.
- An own `PLAYER_DISCONNECT` never reaches its owner, so that `RTypeClient.cpp:335` is
  never true; `VICTORY` is never set.
- The second boss comes at once, not after 30 s (`Game.cpp:346`); the first input's tick 0
  makes the server count every tick before `serverTimeMs` as lost (`RTypeClient.cpp:25`,
  `Game.cpp:40`); `nowMs - 5000` of the loss estimate (`RTypeClient.cpp:270`) wraps in the
  first five seconds.

## 6. Plan

Done in this order: ring buffer, UDP server, room table, TCP server, game, the client's
entities and own ship, proofs about the five server modules, the client's TCP side, the
locks with their proofs, the roster, proofs about the client's side of a running game and
of the stream.

Next, in order of what they would add:

1. That the sessions of `TcpClient` are the threads of `TcpServer` seen from one client.
   Both use one table, `Rooms`; that they agree on the rest is by reading.
2. A second room in `tcp_client`, if the state space allows it (the proofs are for any
   number).

Not modelled and why: drawing, sounds and the configuration file are input and output;
`Patterns.hpp` is unused; positions, velocities and collision geometry are abstracted to a
choice, as no property here depends on them. The score, round-trip time, boss bar and loss
estimate are only drawn, and the server's counters of received and lost inputs are read by
nobody. What the unlocked accesses of the UDP thread do to a vector or a map has no
outcomes to choose from; `GameLocks` says where they are, and the other modules take each
of them as one step. `main` and its arguments have no state.
