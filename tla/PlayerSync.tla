------------------------------ MODULE PlayerSync ------------------------------
(***************************************************************************)
(* A player moves its ship: the client predicts (RTypeClient::handleInput, *)
(* applyInput), the server decides (Game::handlePlayerInput) and tells     *)
(* (broadcastGameState), the client corrects its prediction (update).      *)
(*                                                                         *)
(* The server handles inputs in its UDP thread and sends states from its   *)
(* game loop. Only the tick is written under the player mutex: a state may *)
(* be sent between any two steps of an input.                              *)
(*                                                                         *)
(* An input moves the ship by one or not at all; directions, shots and the *)
(* sequence number of states, which only serves the estimate of losses on  *)
(* the screen, are left out. The client is playing, not paused or dead.    *)
(***************************************************************************)
EXTENDS Datagrams

CONSTANTS
    StartTick,      \* serverTimeMs of the CONNECT_OK: the first tick
    MaxTick,        \* bound: ticks; the last one is of idle inputs for ever
    MaxInFlight,    \* datagrams in flight each way; more are dropped
    Unknown         \* no position, no input

ASSUME TickAssumption ==
    StartTick \in Nat \ {0} /\ MaxTick \in Nat /\ StartTick <= MaxTick
ASSUME InFlightAssumption == MaxInFlight \in Nat \ {0}
ASSUME UnknownAssumption == Unknown \notin Int

VARIABLES
    tick,               \* the client's _tick
    pending,            \* _pendingInputs: the ticks of the moves in it
    clientX,            \* where the client sees its ship
    moved,              \* history: the ticks with which it moved
    torn,               \* history: was the last state torn?
    inputs, states,     \* datagrams on their way, the oldest first
    handling,           \* the input the UDP thread is at
    step,               \* and how far it is with it
    addrSet,            \* the player's addrSet
    x,                  \* its x
    lastProcessed,      \* its lastProcessedTick
    firstInput,         \* its firstInputReceived: no input came yet
    lastInput,          \* its lastInputTick
    received, lost      \* its receivedInputs, lostInputs

clientVars == <<tick, pending, clientX, moved, torn>>
netVars    == <<network, inputs, states>>
handleVars == <<handling, step>>
playerVars == <<addrSet, x, lastProcessed, firstInput, lastInput, received, lost>>
syncVars == <<clientVars, netVars, handleVars, playerVars>>

Ticks == 0 .. MaxTick

Inputs == [tick : Ticks, move : {0, 1}]

\* "torn" is not in the datagram: it says that the state was made when an
\* input had been acknowledged but not applied.
PlayerStates == [ack : Ticks, x : Nat, torn : BOOLEAN]

SyncTypeOK ==
    /\ network \in Networks
    /\ tick \in StartTick .. MaxTick
    /\ pending \in Seq(Ticks)
    /\ clientX \in Nat \cup {Unknown}
    /\ moved \in SUBSET Ticks
    /\ torn \in BOOLEAN
    /\ inputs \in Seq(Inputs) /\ Len(inputs) <= MaxInFlight
    /\ states \in Seq(PlayerStates) /\ Len(states) <= MaxInFlight
    /\ handling \in Inputs \cup {Unknown}
    /\ step \in {"idle", "account", "move"}
    /\ addrSet \in BOOLEAN
    /\ x \in Nat
    /\ lastProcessed \in Ticks
    /\ firstInput \in BOOLEAN
    /\ lastInput \in Ticks
    /\ received \in Nat /\ lost \in Nat

\* The constructor of RTypeClient has sent an input of zeros.
SyncInit ==
    /\ network \in Networks
    /\ tick = StartTick
    /\ pending = << >>
    /\ clientX = Unknown
    /\ moved = {}
    /\ torn = FALSE
    /\ inputs = <<[tick |-> 0, move |-> 0]>> /\ states = << >>
    /\ handling = Unknown /\ step = "idle"
    /\ addrSet = FALSE
    /\ x = 0
    /\ lastProcessed = 0
    /\ firstInput = TRUE /\ lastInput = 0
    /\ received = 0 /\ lost = 0

\* A datagram is sent; a perfect network has room for it.
Sent(channel, m) == IF Len(channel) < MaxInFlight THEN Append(channel, m)
                                                  ELSE channel
RoomIn(channel) == network = "perfect" => Len(channel) < MaxInFlight

-----------------------------------------------------------------------------
(* The client, once per frame.                                             *)

\* Mutant: an input without a move is not sent.
HandleInputSparse(move) ==
    /\ RoomIn(inputs) /\ move = 1 /\ tick < MaxTick
    /\ inputs' = Sent(inputs, [tick |-> tick, move |-> 1])
    /\ tick' = tick + 1
    /\ pending' = Append(pending, tick)
    /\ moved' = moved \cup {tick}
    /\ clientX' = IF clientX = Unknown THEN Unknown ELSE clientX + 1
    /\ UNCHANGED <<network, torn, states, handleVars, playerVars>>

\* The input is sent, move or not, and a move applied at once: if the ship
\* is known.
HandleInput(move) ==
    /\ RoomIn(inputs) /\ (move = 1 => tick < MaxTick)
    /\ inputs' = Sent(inputs, [tick |-> tick, move |-> move])
    /\ tick' = IF tick < MaxTick THEN tick + 1 ELSE tick
    /\ IF move = 1
       THEN /\ pending' = Append(pending, tick)
            /\ moved' = moved \cup {tick}
            /\ clientX' = IF clientX = Unknown THEN Unknown ELSE clientX + 1
       ELSE UNCHANGED <<pending, moved, clientX>>
    /\ UNCHANGED <<network, torn, states, handleVars, playerVars>>

\* Mutant: the acknowledged input itself is kept.
UnackedStrict(ack) == SelectSeq(pending, LAMBDA t : t >= ack)

\* How many acknowledged moves are popped from the front.
Acked(ack) ==
    CHOOSE n \in 0 .. Len(pending) :
        /\ \A i \in 1 .. n : pending[i] <= ack
        /\ n < Len(pending) => pending[n + 1] > ack

\* The moves the state does not know of yet.
Unacked(ack) == SubSeq(pending, Acked(ack) + 1, Len(pending))

\* A state: the server's position, and the moves it does not know yet again.
ReceiveState(i) ==
    /\ i \in DOMAIN states /\ (network = "perfect" => i = 1)
    /\ pending' = Unacked(states[i].ack)
    /\ clientX' = states[i].x + Len(pending')
    /\ torn' = states[i].torn
    /\ states' = RemoveAt(states, i)
    /\ UNCHANGED <<network, tick, moved, inputs, handleVars, playerVars>>

-----------------------------------------------------------------------------
(* The server: onMessageReceived in the UDP thread, then the game loop.    *)

TakeInput(i) ==
    /\ step = "idle" /\ i \in DOMAIN inputs /\ (network = "perfect" => i = 1)
    /\ handling' = inputs[i] /\ step' = "account"
    /\ inputs' = RemoveAt(inputs, i)
    /\ addrSet' = TRUE
    /\ UNCHANGED <<network, clientVars, states, x, lastProcessed, firstInput, lastInput,
                   received, lost>>

\* Mutant: a late input is not told from a new one.
AccountLateToo ==
    IF firstInput
    THEN /\ received' = 1 /\ firstInput' = FALSE
         /\ lastInput' = handling.tick
         /\ UNCHANGED lost
    ELSE /\ lost' = lost + (handling.tick - lastInput - 1)
         /\ received' = received + 1
         /\ lastInput' = handling.tick
         /\ UNCHANGED firstInput

\* The ticks skipped since the last input count as lost. A late or repeated
\* input is not counted.
Account ==
    IF firstInput
    THEN /\ received' = 1 /\ firstInput' = FALSE
         /\ lastInput' = handling.tick
         /\ UNCHANGED lost
    ELSE IF handling.tick > lastInput
    THEN /\ lost' = lost + (handling.tick - lastInput - 1)
         /\ received' = received + 1
         /\ lastInput' = handling.tick
         /\ UNCHANGED firstInput
    ELSE UNCHANGED <<firstInput, lastInput, received, lost>>

\* The tick is acknowledged ...
AccountInput ==
    /\ step = "account"
    /\ step' = "move"
    /\ Account
    /\ lastProcessed' = IF handling.tick > lastProcessed THEN handling.tick
                                                         ELSE lastProcessed
    /\ UNCHANGED <<clientVars, netVars, handling, addrSet, x>>

\* ... and after that the ship is moved, also by a late input.
ApplyInput ==
    /\ step = "move"
    /\ step' = "idle" /\ handling' = Unknown
    /\ x' = x + handling.move
    /\ UNCHANGED <<clientVars, netVars, addrSet, lastProcessed, firstInput,
                   lastInput, received, lost>>

BroadcastPlayerState ==
    /\ addrSet /\ RoomIn(states)
    /\ states' = Sent(states, [ack |-> lastProcessed, x |-> x,
                               torn |-> step = "move" /\ handling.move /= 0])
    /\ UNCHANGED <<network, clientVars, inputs, handleVars, playerVars>>

-----------------------------------------------------------------------------
LoseInput(i) ==
    /\ network = "lossy" /\ i \in DOMAIN inputs
    /\ inputs' = RemoveAt(inputs, i)
    /\ UNCHANGED <<network, clientVars, states, handleVars, playerVars>>

LoseState(i) ==
    /\ network = "lossy" /\ i \in DOMAIN states
    /\ states' = RemoveAt(states, i)
    /\ UNCHANGED <<network, clientVars, inputs, handleVars, playerVars>>

HandlePlayerInput == AccountInput \/ ApplyInput

SyncNext ==
    \/ \E move \in {0, 1} : HandleInput(move)
    \/ \E i \in 1 .. MaxInFlight :
            TakeInput(i) \/ ReceiveState(i) \/ LoseInput(i) \/ LoseState(i)
    \/ HandlePlayerInput
    \/ BroadcastPlayerState

TakeLatest == \E i \in DOMAIN inputs : inputs[i].tick = MaxTick /\ TakeInput(i)
ReceiveSome == \E i \in DOMAIN states : ReceiveState(i)

\* The frames of the client and of the game loop go on for ever, the UDP
\* thread finishes an input, no datagram travels for ever, and not all are
\* lost.
SyncFairness ==
    /\ SF_syncVars(HandleInput(0)) /\ SF_syncVars(BroadcastPlayerState)
    /\ WF_syncVars(HandlePlayerInput)
    /\ WF_syncVars(TakeInput(1) \/ LoseInput(1))
    /\ WF_syncVars(ReceiveState(1) \/ LoseState(1))
    /\ SF_syncVars(TakeLatest) /\ SF_syncVars(ReceiveSome)

SyncSpec == SyncInit /\ [][SyncNext]_syncVars /\ SyncFairness

-----------------------------------------------------------------------------
(* Properties.                                                             *)

\* On a perfect network the prediction is right: the ship is where all the
\* player's moves take it, whatever part of them the server has seen, so
\* that it never jumps. The exception is a state that was torn.
PredictionIsExact ==
    network = "perfect" /\ clientX /= Unknown /\ ~torn => clientX = Cardinality(moved)

\* On any network client and server agree in the end on where the ship is,
\* once the player stops moving it.
Settles == <>[](clientX = x)

=============================================================================
