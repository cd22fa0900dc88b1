-------------------------------- MODULE Roster --------------------------------
(***************************************************************************)
(* Who is in a started game, on the server's list and on the screen of one *)
(* client.  The server broadcasts a PLAYER_STATE per player; a ship leaves *)
(* the screens by one PLAYER_DISCONNECT that is never repeated.  A client  *)
(* dies by its own reckoning, pauses without reading, quits, is kicked or  *)
(* loses its TCP connection.                                               *)
(*                                                                         *)
(* Positions and entities are in PlayerSync and EntityView, chat is in     *)
(* TcpClient. Nobody joins a started game (Rooms!StartedIsClosed).         *)
(***************************************************************************)
EXTENDS Datagrams

CONSTANTS
    Me,             \* the player whose client this is
    Others,         \* the other players
    MaxUnread,      \* bound: datagrams on their way to the client
    MaxLossy        \* bound: the same on a lossy network

ASSUME PlayersAssumption == Me \notin Others /\ IsFiniteSet(Others)
ASSUME BoundAssumption ==
    /\ MaxUnread \in Nat /\ MaxLossy \in 0 .. MaxUnread
    /\ MaxUnread >= 2 * (1 + Cardinality(Others))

VARIABLES
    present,    \* the players on the server's list (_players)
    known,      \* those whose address it knows (addrSet)
    up,         \* datagrams from each client, the oldest first
    down,       \* datagrams to the client, the oldest first
    reading,    \* is it in the loop of update, reading what has come?
    status,     \* its _status
    ships,      \* the players in its _gameState.players
    over,       \* the others whose game is over, or who have quit
    silent,     \* history: who was taken off the list without notice
    missed      \* history: has the client's buffer overflowed?

listVars == <<present, known, silent>>
screenVars == <<reading, status, ships>>
rosterVars == <<network, listVars, up, down, screenVars, over, missed>>

Players == Others \cup {Me}

State(p) == [type |-> "PLAYER_STATE", id |-> p]
Gone(p) == [type |-> "PLAYER_DISCONNECT", id |-> p]
Kicked == [type |-> "YOU_HAVE_BEEN_KICKED"]

ShipMessages ==
    [type : {"PLAYER_STATE", "PLAYER_DISCONNECT"}, id : Players] \cup {Kicked}

\* VICTORY is never set.
Statuses ==
    {"PLAYING", "PAUSED", "OPTIONS", "GAME_OVER", "QUITTING", "KICKED"}

RosterTypeOK ==
    /\ network \in Networks
    /\ known \subseteq present /\ present \subseteq Players
    /\ up \in [Players -> Seq({"PLAYER_INPUT", "PLAYER_DISCONNECT"})]
    /\ down \in Seq(ShipMessages) /\ Len(down) <= MaxUnread
    /\ reading \in BOOLEAN /\ status \in Statuses
    /\ ships \subseteq Players /\ over \subseteq Others
    /\ silent \subseteq Players \ present /\ missed \in BOOLEAN

\* RTypeClient's constructor sends a first input.
RosterInit ==
    /\ network \in Networks
    /\ present = Players /\ known = {}
    /\ up = [c \in Players |-> <<"PLAYER_INPUT">>]
    /\ down = << >>
    /\ reading = FALSE /\ status = "PLAYING"
    /\ ships = {} /\ over = {}
    /\ silent = {} /\ missed = FALSE

-----------------------------------------------------------------------------
(* The server.                                                             *)

\* Does the client's tick call update?
Reads == status \in {"PLAYING", "GAME_OVER"}

Capacity == IF network = "perfect" THEN MaxUnread ELSE MaxLossy

\* The client is sent more, if its address is known. What is too much is
\* dropped: for it reads too little, or the network is slow.
Post(more) ==
    LET full == down \o more
    IN  IF Me \in known
        THEN /\ down' = SubSeq(full, 1, Min({Len(full), Capacity}))
             /\ missed' = (missed \/ Len(full) > Capacity)
        ELSE UNCHANGED <<down, missed>>

\* Bound: a perfect network leaves room for all the notices there can be,
\* as long as the client reads.
RoomForNotices ==
    network = "perfect" /\ Reads =>
        Len(down) + 2 * Cardinality(Players) <= MaxUnread

BroadcastGameState ==
    /\ Me \in known /\ RoomForNotices
    /\ Post(SetToSeq({State(p) : p \in known}))
    /\ UNCHANGED <<network, listVars, up, screenVars, over>>

\* p is erased from _players, whether the others are told or not.
Erase(p) == present' = present \ {p} /\ known' = known \ {p}

\* Mutant: nobody is told.
EraseQuietly(p) == Erase(p) /\ UNCHANGED <<silent, down, missed>>

\* Mutant: the others are told, but the player stays.
TellOnly(p) == Post(<<Gone(p)>>) /\ UNCHANGED <<present, known, silent>>

\* All the players that are left are told.
DisconnectPlayer(p) ==
    /\ Erase(p)
    /\ IF p = Me THEN UNCHANGED <<down, missed>> ELSE Post(<<Gone(p)>>)
    /\ UNCHANGED silent

\* Mutant: the list is not looked at.
HandleAnyone(c, i) ==
    /\ i \in DOMAIN up[c] /\ (network = "perfect" => i = 1)
    /\ up' = [up EXCEPT ![c] = RemoveAt(@, i)]
    /\ \/ /\ up[c][i] = "PLAYER_INPUT"
          /\ known' = known \cup {c}
          /\ UNCHANGED <<present, silent, down, missed>>
       \/ up[c][i] = "PLAYER_DISCONNECT" /\ DisconnectPlayer(c)
    /\ UNCHANGED <<network, screenVars, over>>

\* A datagram from c. One of a player that is not on the list is ignored.
Handle(c, i) ==
    /\ i \in DOMAIN up[c] /\ (network = "perfect" => i = 1)
    /\ up' = [up EXCEPT ![c] = RemoveAt(@, i)]
    /\ \/ /\ up[c][i] = "PLAYER_INPUT" /\ c \in present
          /\ known' = known \cup {c}
          /\ UNCHANGED <<present, silent, down, missed>>
       \/ /\ up[c][i] = "PLAYER_DISCONNECT" /\ c \in present
          /\ DisconnectPlayer(c)
       \/ /\ c \notin present
          /\ UNCHANGED <<listVars, down, missed>>
    /\ UNCHANGED <<network, screenVars, over>>

\* Mutant: only the kicked player is told.
KickWithoutNotice(p) ==
    /\ p \in present
    /\ Erase(p)
    /\ Post(IF p = Me THEN <<Kicked>> ELSE << >>)
    /\ UNCHANGED <<network, silent, up, screenVars, over>>

\* The shell kicks p. Its connection, closed next, changes nothing more.
Kick(p) ==
    /\ p \in present
    /\ Erase(p)
    /\ Post(IF p = Me THEN <<Kicked>> ELSE <<Gone(p)>>)
    /\ UNCHANGED <<network, silent, up, screenVars, over>>

\* The TCP connection is lost, or the client has gone, with p still in the
\* game: removePlayerFromLobby tells nobody.
SessionEnds(p) ==
    /\ p \in present
    /\ Erase(p)
    /\ silent' = silent \cup {p}
    /\ UNCHANGED <<network, up, down, screenVars, over, missed>>

-----------------------------------------------------------------------------
(* The client.                                                             *)

\* The frame begins: then the input is sent, and what has come is read. A
\* collision of the own ship or escape may end the game. Inputs only matter
\* here for the address they come from: none is sent while one is under way
\* or when the address is known.
Play(next, chatting) ==
    LET crash == next = "GAME_OVER"
        leave == IF crash THEN <<"PLAYER_DISCONNECT">> ELSE << >>
        input == IF chatting \/ Me \in known \/ up[Me] /= << >>
                 THEN << >> ELSE <<"PLAYER_INPUT">>
    IN  /\ status = "PLAYING"
        /\ crash => Me \in ships
        /\ status' = next
        /\ ships' = IF crash THEN ships \ {Me} ELSE ships
        /\ up' = [up EXCEPT ![Me] = @ \o leave \o input]

\* After the own ship is lost the client watches on until enter is pressed.
Watch(enter) ==
    /\ status = "GAME_OVER"
    /\ status' = IF enter THEN "QUITTING" ELSE "GAME_OVER"
    /\ UNCHANGED <<up, ships>>

Tick ==
    /\ ~reading /\ reading' = TRUE
    /\ \/ \E next \in {"PLAYING", "PAUSED", "GAME_OVER"}, chatting \in BOOLEAN :
              Play(next, chatting)
       \/ \E enter \in BOOLEAN : Watch(enter)
    /\ UNCHANGED <<network, listVars, down, over, missed>>

ReadMessage(m) ==
    \/ /\ m.type = "PLAYER_STATE"
       /\ ships' = IF m.id = Me /\ status = "GAME_OVER" THEN ships
                   ELSE ships \cup {m.id}
       /\ UNCHANGED status
    \/ /\ m.type = "PLAYER_DISCONNECT"
       /\ ships' = ships \ {m.id}
       /\ status' = IF m.id = Me THEN "GAME_OVER" ELSE status
    \/ /\ m = Kicked
       /\ status' = "KICKED"
       /\ UNCHANGED ships

\* RTypeClient::update, one turn of its loop.
Update ==
    /\ reading /\ down /= << >>
    /\ ReadMessage(Head(down))
    /\ down' = Tail(down)
    /\ UNCHANGED <<network, listVars, up, reading, over, missed>>

\* The loop ends when nothing has come; more may be under way.
FrameEnds ==
    /\ reading /\ reading' = FALSE
    /\ UNCHANGED <<network, listVars, up, down, status, ships, over, missed>>

\* The pause and options menus: nothing is sent or read.
Menu ==
    /\ ~reading
    /\ \/ status = "PAUSED" /\ status' \in {"PLAYING", "OPTIONS"}
       \/ status = "OPTIONS" /\ status' = "PAUSED"
    /\ UNCHANGED <<network, listVars, up, down, reading, ships, over, missed>>

Quit ==
    /\ ~reading /\ status = "PAUSED"
    /\ status' = "QUITTING"
    /\ up' = [up EXCEPT ![Me] = Append(@, "PLAYER_DISCONNECT")]
    /\ UNCHANGED <<network, listVars, down, reading, ships, over, missed>>

\* Another client does the same: it dies or quits.
OtherIsOver(p) ==
    /\ p \in Others \ over
    /\ over' = over \cup {p}
    /\ up' = [up EXCEPT ![p] = Append(@, "PLAYER_DISCONNECT")]
    /\ UNCHANGED <<network, listVars, down, screenVars, missed>>

-----------------------------------------------------------------------------
(* The network.                                                            *)

LoseAny ==
    /\ network = "lossy"
    /\ \/ /\ \E c \in Players : \E i \in DOMAIN up[c] :
                up' = [up EXCEPT ![c] = RemoveAt(@, i)]
          /\ UNCHANGED down
       \/ /\ \E i \in DOMAIN down : down' = RemoveAt(down, i)
          /\ UNCHANGED up
    /\ UNCHANGED <<network, listVars, screenVars, over, missed>>

Overtake ==
    /\ network = "lossy"
    /\ \E i \in DOMAIN down : down' = <<down[i]>> \o RemoveAt(down, i)
    /\ UNCHANGED <<network, listVars, up, screenVars, over, missed>>

RosterNext ==
    \/ BroadcastGameState
    \/ \E c \in Players :
          \/ \E i \in DOMAIN up[c] : Handle(c, i)
          \/ Kick(c) \/ SessionEnds(c)
    \/ Tick \/ Update \/ FrameEnds
    \/ Menu \/ Quit
    \/ \E p \in Others : OtherIsOver(p)
    \/ LoseAny \/ Overtake

\* The UDP thread handles what comes, the client's frames go on, and what has
\* come is read in one of them.
RosterFairness ==
    /\ \A c \in Players : WF_rosterVars(Handle(c, 1))
    /\ WF_rosterVars(Tick) /\ WF_rosterVars(FrameEnds) /\ SF_rosterVars(Update)

RosterSpec == RosterInit /\ [][RosterNext]_rosterVars /\ RosterFairness

-----------------------------------------------------------------------------
(* Properties.                                                             *)

\* On a perfect network, when nothing is under way to a client that is in
\* the game, its screen shows no ship of a player that has left. There are
\* two exceptions: one whose TCP connection ended before the datagram came,
\* as no notice is sent then (TCPServer.cpp:217), and all that were missed
\* by a client that paused for too long.
NoGhostShips ==
    network = "perfect" /\ Me \in known /\ down = << >> /\ ~missed =>
        ships \subseteq present \cup silent

\* On any network, a ship only vanishes from the screen when its player has
\* left the game or has died by its own reckoning.
ShipsVanishOnlyWhenGone ==
    [][\A p \in ships \ ships' :
          p \notin present \/ (p = Me /\ status' /= "PLAYING")]_rosterVars

\* On a perfect network, the end of another's game is seen by a client that
\* reads, with the exceptions of NoGhostShips.
DeathIsSeen ==
    network = "perfect" =>
        \A p \in Others :
            p \in over ~> \/ p \notin ships \/ p \in silent
                          \/ Me \notin known \/ missed \/ ~Reads
=============================================================================
