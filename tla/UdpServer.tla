------------------------------ MODULE UdpServer ------------------------------
(***************************************************************************)
(* The UDP side of the server (Src/Network/UDPServer.cpp): the socket, the *)
(* two ring buffers, the three worker threads and the thread that owns the *)
(* server (ServerManager's game loop, then its destructor).                *)
(*                                                                         *)
(*   kernel --recvLoop--> incoming --processLoop--> handler                *)
(*   game loop, handler --queueMessage--> outgoing --sendLoop--> network   *)
(*                                                                         *)
(* The ring buffers are the bounded FIFO queues that RingBufferProofs shows*)
(* them to be.  Datagrams and messages are numbered in the order in which  *)
(* they reach the kernel and queueMessage.                                 *)
(***************************************************************************)
EXTENDS Naturals, Sequences

CONSTANTS
    Capacity,           \* of each ring buffer (1024 in the code)
    KernelCapacity,     \* datagrams the socket's receive queue holds
    MaxDatagrams,       \* bound: datagrams that arrive in a behaviour
    MaxMessages,        \* bound: messages queued in a behaviour
    WakeUp,             \* the one-byte datagram stop() sends to itself
    Aborted,            \* operation_aborted or bad_descriptor
    Failed              \* any other receive error

ASSUME CapacityAssumption == Capacity \in Nat \ {0}
ASSUME BoundAssumption ==
    /\ KernelCapacity \in Nat \ {0}
    /\ MaxDatagrams \in Nat /\ MaxMessages \in Nat
ASSUME PacketAssumption ==
    /\ WakeUp \notin Nat /\ Aborted \notin Nat /\ Failed \notin Nat
    /\ WakeUp \notin {Aborted, Failed}

VARIABLES
    running,        \* _running
    socket,         \* is _socket open?
    kernel,         \* datagrams waiting in the kernel for _socket
    incoming,       \* _incoming
    outgoing,       \* _outgoing
    pc,             \* where each thread is
    inHand,         \* the packet each worker took and has not disposed of
    arrivals,       \* number of the last datagram that arrived
    produced,       \* number of the last message queued
    handled,        \* number of the last datagram given to the handler
    sent            \* number of the last message given to the network

vars == <<running, socket, kernel, incoming, outgoing, pc, inHand,
          arrivals, produced, handled, sent>>

Workers == {"recv", "send", "process"}
Threads == Workers \cup {"main"}

Nothing == 0    \* std::nullopt; datagrams are numbered from 1

TypeOK ==
    /\ running \in BOOLEAN /\ socket \in BOOLEAN
    /\ kernel \in Seq(1 .. MaxDatagrams \cup {WakeUp})
    /\ Len(kernel) <= KernelCapacity
    /\ incoming \in Seq(Nat) /\ Len(incoming) <= Capacity
    /\ outgoing \in Seq(Nat) /\ Len(outgoing) <= Capacity
    /\ pc["main"] \in {"created", "running", "closing", "waking", "joinRecv",
                       "joinUnwoken", "joinSend", "joinProcess", "stopped"}
    /\ pc["recv"] \in {"none", "check", "call", "enter", "blocked", "received",
                       "done"}
    /\ pc["send"] \in {"none", "check", "look", "pop", "sendTo", "done"}
    /\ pc["process"] \in {"none", "check", "look", "pop", "handle", "done"}
    /\ inHand["recv"] \in Nat \cup {WakeUp, Aborted, Failed}
    /\ inHand["send"] \in Nat /\ inHand["process"] \in Nat

Init ==
    /\ running = FALSE
    /\ socket = TRUE
    /\ kernel = << >> /\ incoming = << >> /\ outgoing = << >>
    /\ pc = [t \in Threads |-> IF t = "main" THEN "created" ELSE "none"]
    /\ inHand = [t \in Workers |-> Nothing]
    /\ arrivals = 0 /\ produced = 0 /\ handled = 0 /\ sent = 0

-----------------------------------------------------------------------------
(* The environment and the shared buffers.                                 *)

Goto(t, from, to) == pc[t] = from /\ pc' = [pc EXCEPT ![t] = to]

\* Mutant: the newest item goes to the wrong end.
OfferAtFront(queue, item) ==
    IF Len(queue) < Capacity THEN <<item>> \o queue ELSE queue

\* RingBuffer::push: a full buffer drops the item, and no caller looks at
\* the result.
Offer(queue, item) == IF Len(queue) < Capacity THEN Append(queue, item)
                                               ELSE queue

\* A thread blocked in receive_from keeps the kernel's socket alive after
\* its descriptor is closed.
Bound == socket \/ pc["recv"] = "blocked"

Arrive ==
    /\ Bound
    /\ arrivals < MaxDatagrams
    /\ Len(kernel) < KernelCapacity
    /\ arrivals' = arrivals + 1
    /\ kernel' = Append(kernel, arrivals + 1)
    /\ UNCHANGED <<running, socket, incoming, outgoing, pc, inHand, produced,
                   handled, sent>>

\* queueMessage, called by the game loop (broadcasts) and by the handler.
QueueMessage ==
    /\ produced < MaxMessages
    /\ produced' = produced + 1
    /\ outgoing' = Offer(outgoing, produced + 1)

GameLoopQueues ==
    /\ pc["main"] = "running"
    /\ QueueMessage
    /\ UNCHANGED <<running, socket, kernel, incoming, pc, inHand, arrivals,
                   handled, sent>>

-----------------------------------------------------------------------------
(* start and stop, on the thread that owns the server.                     *)

Start ==
    /\ pc["main"] = "created"
    /\ ~running
    /\ running' = TRUE
    /\ pc' = [t \in Threads |-> IF t = "main" THEN "running" ELSE "check"]
    /\ UNCHANGED <<socket, kernel, incoming, outgoing, inHand, arrivals,
                   produced, handled, sent>>

StopBegins ==
    /\ Goto("main", "running", "closing")
    /\ running' = FALSE
    /\ UNCHANGED <<socket, kernel, incoming, outgoing, inHand, arrivals,
                   produced, handled, sent>>

\* Closing drops what the kernel holds unless a blocked receive still
\* refers to the socket.
CloseSocket ==
    /\ Goto("main", "closing", "waking")
    /\ socket' = FALSE
    /\ kernel' = IF pc["recv"] = "blocked" THEN kernel ELSE << >>
    /\ UNCHANGED <<running, incoming, outgoing, inHand, arrivals, produced,
                   handled, sent>>

\* Mutant: stop() sends nothing to its own port.
SendNoWakeUp ==
    /\ Goto("main", "waking", "joinRecv")
    /\ UNCHANGED <<running, socket, kernel, incoming, outgoing, inHand,
                   arrivals, produced, handled, sent>>

\* The datagram stop() sends to its own port, from a socket that exists
\* while main is at "waking". A full kernel queue drops it like any other.
SendWakeUp ==
    /\ Goto("main", "waking", "joinRecv")
    /\ kernel' = IF Bound /\ Len(kernel) < KernelCapacity
                 THEN Append(kernel, WakeUp) ELSE kernel
    /\ UNCHANGED <<running, socket, incoming, outgoing, inHand, arrivals,
                   produced, handled, sent>>

\* It cannot be sent, or is lost: the exception is swallowed, and the threads
\* are joined all the same ("joinUnwoken" is joinRecv in that case).
LoseWakeUp ==
    /\ Goto("main", "waking", "joinUnwoken")
    /\ UNCHANGED <<running, socket, kernel, incoming, outgoing, inHand,
                   arrivals, produced, handled, sent>>

\* Mutant: the threads are detached instead of joined.
Detach(t, from, to) ==
    /\ Goto("main", from, to)
    /\ UNCHANGED <<running, socket, kernel, incoming, outgoing, inHand,
                   arrivals, produced, handled, sent>>

Join(t, from, to) ==
    /\ pc[t] = "done"
    /\ Goto("main", from, to)
    /\ UNCHANGED <<running, socket, kernel, incoming, outgoing, inHand,
                   arrivals, produced, handled, sent>>

Joins ==
    \/ Join("recv", "joinRecv", "joinSend")
    \/ Join("recv", "joinUnwoken", "joinSend")
    \/ Join("send", "joinSend", "joinProcess")
    \/ Join("process", "joinProcess", "stopped")

Stop == CloseSocket \/ SendWakeUp \/ LoseWakeUp \/ Joins

-----------------------------------------------------------------------------
(* The loops' common head: while (_running).                               *)

CheckRunning(t, next) ==
    /\ Goto(t, "check", IF running THEN next ELSE "done")
    /\ UNCHANGED <<running, socket, kernel, incoming, outgoing, inHand,
                   arrivals, produced, handled, sent>>

Obtain(t, packet) == inHand' = [inHand EXCEPT ![t] = packet]

-----------------------------------------------------------------------------
(* recvLoop.                                                               *)

\* receive_from reads the descriptor out of the socket object ...
RecvCall ==
    /\ \/ /\ socket
          /\ Goto("recv", "call", "enter")
          /\ UNCHANGED inHand
       \/ /\ ~socket
          /\ Goto("recv", "call", "received")
          /\ Obtain("recv", Aborted)
    /\ UNCHANGED <<running, socket, kernel, incoming, outgoing, arrivals,
                   produced, handled, sent>>

\* ... and enters the kernel with it. If the socket was closed in between,
\* the number is invalid, or by now that of a descriptor which is no socket.
RecvEnter ==
    /\ \/ /\ socket
          /\ Goto("recv", "enter", "blocked")
          /\ UNCHANGED inHand
       \/ /\ ~socket
          /\ Goto("recv", "enter", "received")
          /\ Obtain("recv", Aborted) \/ Obtain("recv", Failed)
    /\ UNCHANGED <<running, socket, kernel, incoming, outgoing, arrivals,
                   produced, handled, sent>>

RecvDatagram ==
    /\ kernel /= << >>
    /\ Goto("recv", "blocked", "received")
    /\ Obtain("recv", Head(kernel))
    /\ kernel' = IF socket THEN Tail(kernel) ELSE << >>
    /\ UNCHANGED <<running, socket, incoming, outgoing, arrivals, produced,
                   handled, sent>>

\* A blocked receive may fail, and where closing a socket interrupts the
\* calls blocked on it, it is aborted; on Linux closing interrupts nothing.
RecvError ==
    /\ Goto("recv", "blocked", "received")
    /\ \/ Obtain("recv", Failed)
       \/ ~socket /\ Obtain("recv", Aborted)
    /\ kernel' = IF socket THEN kernel ELSE << >>
    /\ UNCHANGED <<running, socket, incoming, outgoing, arrivals, produced,
                   handled, sent>>

\* Mutant: recvLoop does not look at _running again after receive_from.
RecvReturnUnchecked ==
    /\ \/ /\ inHand["recv"] = Aborted
          /\ Goto("recv", "received", "done")
          /\ UNCHANGED incoming
       \/ /\ inHand["recv"] = Failed
          /\ Goto("recv", "received", "check")
          /\ UNCHANGED incoming
       \/ /\ inHand["recv"] \notin {Aborted, Failed}
          /\ Goto("recv", "received", "check")
          /\ incoming' = Offer(incoming, inHand["recv"])
    /\ Obtain("recv", Nothing)
    /\ UNCHANGED <<running, socket, kernel, outgoing, arrivals, produced,
                   handled, sent>>

RecvReturn ==
    /\ \/ /\ ~running \/ inHand["recv"] = Aborted
          /\ Goto("recv", "received", "done")
          /\ UNCHANGED incoming
       \/ /\ running /\ inHand["recv"] = Failed
          /\ Goto("recv", "received", "check")
          /\ UNCHANGED incoming
       \/ /\ running /\ inHand["recv"] \notin {Aborted, Failed}
          /\ Goto("recv", "received", "check")
          /\ incoming' = Offer(incoming, inHand["recv"])
    /\ Obtain("recv", Nothing)
    /\ UNCHANGED <<running, socket, kernel, outgoing, arrivals, produced,
                   handled, sent>>

RecvLoop ==
    \/ CheckRunning("recv", "call")
    \/ RecvCall
    \/ RecvEnter
    \/ RecvDatagram
    \/ RecvReturn

-----------------------------------------------------------------------------
(* sendLoop.                                                               *)

\* Mutant: an empty buffer ends the loop.
SendLookOnce ==
    /\ Goto("send", "look", IF outgoing = << >> THEN "done" ELSE "pop")
    /\ UNCHANGED <<running, socket, kernel, incoming, outgoing, inHand,
                   arrivals, produced, handled, sent>>

SendLook ==
    /\ Goto("send", "look", IF outgoing = << >> THEN "check" ELSE "pop")
    /\ UNCHANGED <<running, socket, kernel, incoming, outgoing, inHand,
                   arrivals, produced, handled, sent>>

SendPop ==
    /\ \/ /\ outgoing = << >>
          /\ Goto("send", "pop", "check")
          /\ UNCHANGED <<outgoing, inHand>>
       \/ /\ outgoing /= << >>
          /\ Goto("send", "pop", "sendTo")
          /\ Obtain("send", Head(outgoing))
          /\ outgoing' = Tail(outgoing)
    /\ UNCHANGED <<running, socket, kernel, incoming, arrivals, produced,
                   handled, sent>>

\* send_to on a closed socket only logs its error: the message is lost.
SendTo ==
    /\ Goto("send", "sendTo", "check")
    /\ sent' = IF socket THEN inHand["send"] ELSE sent
    /\ Obtain("send", Nothing)
    /\ UNCHANGED <<running, socket, kernel, incoming, outgoing, arrivals,
                   produced, handled>>

SendLoop ==
    \/ CheckRunning("send", "look")
    \/ SendLook
    \/ SendPop
    \/ SendTo

-----------------------------------------------------------------------------
(* processLoop.                                                            *)

\* Mutants: the loop pops without looking; an empty buffer ends the loop.
ProcessNoLook ==
    /\ Goto("process", "look", "pop")
    /\ UNCHANGED <<running, socket, kernel, incoming, outgoing, inHand,
                   arrivals, produced, handled, sent>>

ProcessLookOnce ==
    /\ Goto("process", "look", IF incoming = << >> THEN "done" ELSE "pop")
    /\ UNCHANGED <<running, socket, kernel, incoming, outgoing, inHand,
                   arrivals, produced, handled, sent>>

ProcessLook ==
    /\ Goto("process", "look", IF incoming = << >> THEN "check" ELSE "pop")
    /\ UNCHANGED <<running, socket, kernel, incoming, outgoing, inHand,
                   arrivals, produced, handled, sent>>

\* The optional that pop returns is dereferenced without a test.
ProcessPop ==
    /\ Goto("process", "pop", "handle")
    /\ \/ /\ incoming = << >>
          /\ Obtain("process", Nothing)
          /\ UNCHANGED incoming
       \/ /\ incoming /= << >>
          /\ Obtain("process", Head(incoming))
          /\ incoming' = Tail(incoming)
    /\ UNCHANGED <<running, socket, kernel, outgoing, arrivals, produced,
                   handled, sent>>

\* onMessageReceived; it may answer (a pong, a disconnection notice).
\* Handling Nothing would be undefined behaviour: there is no such step.
Handle ==
    /\ inHand["process"] /= Nothing
    /\ Goto("process", "handle", "check")
    /\ handled' = inHand["process"]
    /\ Obtain("process", Nothing)
    /\ \/ QueueMessage
       \/ UNCHANGED <<outgoing, produced>>
    /\ UNCHANGED <<running, socket, kernel, incoming, arrivals, sent>>

ProcessLoop ==
    \/ CheckRunning("process", "look")
    \/ ProcessLook
    \/ ProcessPop
    \/ Handle

-----------------------------------------------------------------------------
Next ==
    \/ Arrive
    \/ GameLoopQueues
    \/ Start
    \/ StopBegins
    \/ Stop
    \/ RecvLoop
    \/ RecvError
    \/ SendLoop
    \/ ProcessLoop

\* The operating system schedules every thread that can run. Nothing forces
\* datagrams to arrive, the owner to stop the server, or a blocked receive
\* to fail or to be interrupted by the closing of its socket.
Fairness ==
    /\ WF_vars(Stop)
    /\ WF_vars(RecvLoop)
    /\ WF_vars(SendLoop)
    /\ WF_vars(ProcessLoop)

Spec == Init /\ [][Next]_vars /\ Fairness

-----------------------------------------------------------------------------
(* Properties.                                                             *)

\* processLoop dereferences what pop returns without testing it
\* (UDPServer.cpp:147-149). The buffer was not empty a moment earlier, and
\* only this thread removes packets, whatever the others do in between.
NoNullDereference ==
    pc["process"] = "handle" => inHand["process"] /= Nothing

Increasing(queue) ==
    \A i, j \in 1 .. Len(queue) : i < j => queue[i] < queue[j]

Taken(t) == IF inHand[t] = Nothing THEN << >> ELSE <<inHand[t]>>

\* Between the kernel and the handler, and between queueMessage and the
\* network, packets are dropped but never duplicated or reordered: the last
\* one disposed of, the one in hand and the ones in the buffer are in the
\* order in which they came.
InOrder ==
    /\ Increasing(<<handled>> \o Taken("process") \o incoming)
    /\ Increasing(<<sent>> \o Taken("send") \o outgoing)

\* The datagram stop() sends to unblock recvLoop is never mistaken for a
\* client's: the test of _running between receive_from and push
\* (UDPServer.cpp:89) comes after the flag was cleared.
WakeUpNeverQueued == \A i \in 1 .. Len(incoming) : incoming[i] /= WakeUp

\* When stop() has returned, no thread is left that could call the handler,
\* whose owner goes on to destroy it.
QuietAfterStop ==
    pc["main"] = "stopped" => \A t \in Workers : pc[t] = "done"

\* Only a wake-up that never came can keep stop() from returning, and then
\* only while recvLoop is blocked and no other datagram arrives.
Unwoken ==
    pc["main"] = "joinUnwoken" /\ pc["recv"] = "blocked" /\ kernel = << >>

\* stop() returns: no thread stays blocked in the socket or in its loop, on
\* whichever side of the closing recvLoop was and however full the kernel's
\* queue is.
StopCompletes == ~running /\ pc["main"] /= "created"
                    ~> pc["main"] = "stopped" \/ Unwoken

\* What got into a buffer comes out at its other end, handled or sent, unless
\* the server is stopped first: neither thread sleeps on a packet, whatever
\* was dropped before it.
QueuesDrain ==
    /\ \A n \in 1 .. MaxDatagrams :
          (\E i \in 1 .. Len(incoming) : incoming[i] = n)
              ~> (handled >= n \/ ~running)
    /\ \A n \in 1 .. MaxMessages :
          (\E i \in 1 .. Len(outgoing) : outgoing[i] = n)
              ~> (sent >= n \/ ~running)
=============================================================================
