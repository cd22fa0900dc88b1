------------------------------ MODULE EntityView ------------------------------
(***************************************************************************)
(* How one client comes to see the entities of its game.  The server       *)
(* (Game.cpp) sends a datagram for each birth, movement and death of an    *)
(* entity and, every 100 ms, one with all of them; the client              *)
(* (RTypeClient::update) keeps a map.  UDP loses and reorders, and the     *)
(* server sends nothing to a player whose address it has not learned from  *)
(* a PLAYER_INPUT yet.                                                     *)
(*                                                                         *)
(* A position is how far an entity has got: beyond the last one it has     *)
(* left the screen. Types are left out.                                    *)
(***************************************************************************)
EXTENDS Datagrams

CONSTANTS
    MaxId,          \* bound: entities spawned
    MaxPos,         \* bound: positions on the screen
    SyncMax,        \* entities that fit a GLOBAL_STATE_SYNC datagram (72)
    LocalIds,       \* ids from here on are taken for local ones (9999)
    MaxQueued,      \* datagrams in flight; more are dropped
    Absent          \* no position

ASSUME BoundsAssumption == MaxId \in Nat /\ MaxPos \in Nat /\ MaxQueued \in Nat
ASSUME SyncAssumption == SyncMax \in Nat /\ LocalIds \in Nat
ASSUME AbsentAssumption == Absent \notin Int

VARIABLES
    live,       \* the server's entities, each with its position
    nextId,     \* _nextEntityId
    cut,        \* history: was a sync to the client cut off?
    addrKnown,  \* does the server know the client's address?
    since,      \* the first entity the client was told of when it was born
    net,        \* datagrams on their way, the oldest first
    view        \* the client's _gameState.entities

serverVars == <<network, live, nextId, cut>>
viewVars == <<serverVars, addrKnown, since, net, view>>

Ids == 1 .. MaxId
Positions == 0 .. MaxPos
EntityStates == [id : Ids, pos : Positions]

EntityMessages ==
    [type : {"spawn", "update"}, id : Ids, pos : Positions]
        \cup [type : {"destroy"}, id : Ids]
        \cup [type : {"sync"}, states : SUBSET EntityStates]

ViewTypeOK ==
    /\ network \in Networks
    /\ live \in SUBSET EntityStates
    /\ \A e, f \in live : e.id = f.id => e = f
    /\ nextId \in 1 .. MaxId + 1
    /\ cut \in BOOLEAN
    /\ addrKnown \in BOOLEAN
    /\ since \in 1 .. MaxId + 1
    /\ net \in Seq(EntityMessages) /\ Len(net) <= MaxQueued
    /\ view \in [Ids -> Positions \cup {Absent}]

ViewInit ==
    /\ network \in Networks
    /\ live = {}
    /\ nextId = 1
    /\ cut = FALSE
    /\ addrKnown = FALSE
    /\ since = 1
    /\ net = << >>
    /\ view = [i \in Ids |-> Absent]

-----------------------------------------------------------------------------
(* The server.                                                             *)

\* Mutant: the queue takes everything.
SendAll(messages) == net' = IF addrKnown THEN net \o messages ELSE net

\* Queues datagrams for the client, as many as there is room for: the
\* outgoing ring buffer drops what it cannot take.
Send(messages) ==
    net' = IF addrKnown
           THEN SubSeq(net \o messages, 1,
                       Min({Len(net) + Len(messages), MaxQueued}))
           ELSE net

\* A perfect network has room for everything.
RoomFor(n) == network = "perfect" => Len(net) + n <= MaxQueued

\* The first PLAYER_INPUT has come.
UpdatePlayerUdpAddr ==
    /\ ~addrKnown
    /\ addrKnown' = TRUE
    /\ since' = nextId
    /\ UNCHANGED <<serverVars, net, view>>

\* A shot, an enemy or a boss.
SpawnEntity ==
    /\ nextId <= MaxId /\ RoomFor(1)
    /\ live' = live \cup {[id |-> nextId, pos |-> 0]}
    /\ nextId' = nextId + 1
    /\ Send(<<[type |-> "spawn", id |-> nextId, pos |-> 0]>>)
    /\ UNCHANGED <<network, cut, addrKnown, since, view>>

\* The element of these states that is entity i, if there is one.
Is(i, list) == \E e \in list : e.id = i
At(i, list) == (CHOOSE e \in list : e.id = i).pos

Updates(after) ==
    {[type |-> "update", id |-> e.id, pos |-> e.pos] : e \in after}

\* Mutant: only what collided is announced dead, not what left the screen.
ReportCollisions(after) ==
    Updates(after) \cup
        {[type |-> "destroy", id |-> e.id] :
            e \in {f \in live : ~Is(f.id, after) /\ f.pos < MaxPos}}

\* What is sent after all have moved: where each of them is, and the deaths.
Reports(after) ==
    Updates(after) \cup
        {[type |-> "destroy", id |-> e.id] :
            e \in {f \in live : ~Is(f.id, after)}}

\* Every entity moves or stays; some collided or left the screen.
UpdateEntities ==
    /\ live /= {} /\ RoomFor(Cardinality(live))
    /\ \E gone \in SUBSET live :
       \E fast \in SUBSET {e \in live \ gone : e.pos < MaxPos} :
          /\ live' = (live \ (gone \cup fast))
                        \cup {[e EXCEPT !.pos = @ + 1] : e \in fast}
          /\ Send(SetToSeq(Reports(live')))
    /\ UNCHANGED <<network, nextId, cut, addrKnown, since, view>>

\* The datagram is cut off after SyncMax entities.
SendGlobalStateSync ==
    /\ RoomFor(1)
    /\ Send(<<[type |-> "sync",
               states |-> {e \in live :
                   Cardinality({f \in live : f.id < e.id}) < SyncMax}]>>)
    /\ cut' = (cut \/ (addrKnown /\ Cardinality(live) > SyncMax))
    /\ UNCHANGED <<network, live, nextId, addrKnown, since, view>>

-----------------------------------------------------------------------------
(* The client.                                                             *)

\* Mutant: the sync is added to what is there.
AfterSyncMerged(list) ==
    [i \in Ids |->
        IF Is(i, list) THEN At(i, list)
        ELSE view[i]]

\* The map is emptied, but for the ids taken for local ones, and filled with
\* the entities in the datagram.
AfterSync(list) ==
    [i \in Ids |->
        IF Is(i, list) THEN At(i, list)
        ELSE IF i >= LocalIds THEN view[i] ELSE Absent]

\* An update is for known entities only.
AfterMessage(m) ==
    CASE m.type = "spawn" -> [view EXCEPT ![m.id] = m.pos]
      [] m.type = "update" ->
            IF view[m.id] = Absent THEN view ELSE [view EXCEPT ![m.id] = m.pos]
      [] m.type = "destroy" -> [view EXCEPT ![m.id] = Absent]
      [] m.type = "sync" -> AfterSync(m.states)

Deliver(i) ==
    /\ i \in DOMAIN net /\ (network = "perfect" => i = 1)
    /\ view' = AfterMessage(net[i])
    /\ net' = RemoveAt(net, i)
    /\ UNCHANGED <<serverVars, addrKnown, since>>

DeliverSync ==
    \E i \in DOMAIN net : net[i].type = "sync" /\ Deliver(i)

-----------------------------------------------------------------------------
Lose(i) ==
    /\ network = "lossy" /\ i \in DOMAIN net
    /\ net' = RemoveAt(net, i)
    /\ UNCHANGED <<serverVars, addrKnown, since, view>>

ViewNext ==
    \/ UpdatePlayerUdpAddr
    \/ SpawnEntity \/ UpdateEntities \/ SendGlobalStateSync
    \/ \E i \in 1 .. MaxQueued : Deliver(i) \/ Lose(i)

\* The client's inputs come through in the end, the game loop keeps sending
\* syncs, no datagram travels for ever, and not all syncs are lost.
ViewFairness ==
    /\ WF_viewVars(UpdatePlayerUdpAddr)
    /\ SF_viewVars(SendGlobalStateSync)
    /\ WF_viewVars(Deliver(1) \/ Lose(1))
    /\ SF_viewVars(DeliverSync)

ViewSpec == ViewInit /\ [][ViewNext]_viewVars /\ ViewFairness

-----------------------------------------------------------------------------
(* Properties.                                                             *)

Actual(i) == IF Is(i, live) THEN At(i, live) ELSE Absent

\* On a perfect network the single messages do without the sync: when none
\* is under way, the client sees every entity born since the server knows
\* its address exactly where it is, and no other one in a wrong place. (As
\* long as no sync was cut off, so that it made the client forget some:
\* how many were born does not matter, only how many live at a sync.)
DrainedIsExact ==
    network = "perfect" /\ addrKnown /\ net = << >> /\ ~cut =>
        \A i \in Ids : i >= since \/ view[i] /= Absent => view[i] = Actual(i)

\* On any network the client sees exactly the server's entities once these
\* stop changing (the bounds make them), whatever was lost, came too late or
\* was sent before the server knew the address: rfc.txt:207 "to synchronize
\* the entire game state". There are two exceptions: a sync that is cut off
\* may leave entities out, and one with an id the client takes for its own
\* may haunt it after its death.
Converges ==
    <>[](\/ Cardinality(live) > SyncMax
         \/ \A i \in Ids : i < LocalIds => view[i] = Actual(i))
=============================================================================
