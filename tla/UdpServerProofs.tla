--------------------------- MODULE UdpServerProofs ---------------------------
(***************************************************************************)
(* The safety of the UDP server for any capacities and any number of       *)
(* datagrams and messages. First where the threads are, which gives the    *)
(* quiet after the stop; then the data, its types and the packets that are *)
(* never there by mistake; then the order of the packets.                  *)
(***************************************************************************)
EXTENDS UdpServer, TLAPS

MainPCs == {"created", "running", "closing", "waking", "joinRecv",
            "joinUnwoken", "joinSend", "joinProcess", "stopped"}
RecvPCs == {"none", "check", "call", "enter", "blocked", "received", "done"}
SendPCs == {"none", "check", "look", "pop", "sendTo", "done"}
ProcessPCs == {"none", "check", "look", "pop", "handle", "done"}
PCs == MainPCs \cup RecvPCs \cup SendPCs \cup ProcessPCs

-----------------------------------------------------------------------------
(* Where the threads are.                                                  *)

\* _running is set from start to stop, and a thread once joined is done.
Control ==
    /\ pc \in [Threads -> PCs]
    /\ pc["main"] \in MainPCs /\ pc["recv"] \in RecvPCs
    /\ pc["send"] \in SendPCs /\ pc["process"] \in ProcessPCs
    /\ running \in BOOLEAN /\ socket \in BOOLEAN
    /\ running <=> pc["main"] = "running"
    /\ pc["main"] \in {"joinSend", "joinProcess", "stopped"} =>
          pc["recv"] = "done"
    /\ pc["main"] \in {"joinProcess", "stopped"} => pc["send"] = "done"
    /\ pc["main"] = "stopped" => pc["process"] = "done"

LEMMA ControlStep == Control /\ [Next]_vars => Control'
<1> SUFFICES ASSUME Control, [Next]_vars PROVE Control'
    OBVIOUS
<1> USE DEF Control, Goto, Threads, Workers, PCs, MainPCs, RecvPCs, SendPCs,
            ProcessPCs
<1>1. CASE Arrive \/ GameLoopQueues \/ UNCHANGED vars
    BY <1>1 DEF Arrive, GameLoopQueues, vars
<1>2. CASE Start
    BY <1>2 DEF Start
<1>3. CASE StopBegins \/ CloseSocket \/ SendWakeUp \/ LoseWakeUp
    <2>1. CASE StopBegins
        BY <2>1 DEF StopBegins
    <2>2. CASE CloseSocket
        BY <2>2 DEF CloseSocket
    <2>3. CASE SendWakeUp
        BY <2>3 DEF SendWakeUp
    <2>4. CASE LoseWakeUp
        BY <2>4 DEF LoseWakeUp
    <2>5. QED
        BY <1>3, <2>1, <2>2, <2>3, <2>4
<1>4. CASE \/ Join("recv", "joinRecv", "joinSend")
           \/ Join("recv", "joinUnwoken", "joinSend")
    BY <1>4 DEF Join
<1>5. CASE Join("send", "joinSend", "joinProcess")
    BY <1>5 DEF Join
<1>6. CASE Join("process", "joinProcess", "stopped")
    BY <1>6 DEF Join
<1>7. CASE CheckRunning("recv", "call")
    BY <1>7 DEF CheckRunning
<1>8. CASE RecvCall \/ RecvEnter
    BY <1>8 DEF RecvCall, RecvEnter
<1>9. CASE RecvDatagram \/ RecvError
    BY <1>9 DEF RecvDatagram, RecvError
<1>10. CASE RecvReturn
    BY <1>10 DEF RecvReturn
<1>11. CASE CheckRunning("send", "look") \/ SendLook
    BY <1>11 DEF CheckRunning, SendLook
<1>12. CASE SendPop \/ SendTo
    BY <1>12 DEF SendPop, SendTo
<1>13. CASE CheckRunning("process", "look") \/ ProcessLook
    BY <1>13 DEF CheckRunning, ProcessLook
<1>14. CASE ProcessPop \/ Handle
    BY <1>14 DEF ProcessPop, Handle
<1>15. QED
    BY <1>1, <1>2, <1>3, <1>4, <1>5, <1>6, <1>7, <1>8, <1>9, <1>10, <1>11,
       <1>12, <1>13, <1>14
       DEF Next, Stop, Joins, RecvLoop, SendLoop, ProcessLoop

LEMMA ControlInvariant == Spec => []Control
<1>1. Init => Control
    BY DEF Init, Control, Threads, Workers, PCs, MainPCs, RecvPCs, SendPCs,
           ProcessPCs
<1>2. QED
    BY <1>1, ControlStep, PTL DEF Spec

\* When stop() has returned every worker thread is done.
THEOREM StopIsQuiet == Spec => []QuietAfterStop
<1>1. Control => QuietAfterStop
    BY DEF Control, QuietAfterStop, Workers
<1>2. QED
    BY <1>1, ControlInvariant, PTL

-----------------------------------------------------------------------------
(* The data.                                                               *)

Datagrams == 1 .. MaxDatagrams
Packets   == Nat \cup {WakeUp, Aborted, Failed}

\* Where main is before it sends the wake-up.
BeforeWakeUp == {"created", "running", "closing", "waking"}

Types ==
    /\ kernel \in Seq(Datagrams \cup {WakeUp})
    /\ incoming \in Seq(Nat \ {0}) /\ outgoing \in Seq(Nat \ {0})
    /\ inHand \in [Workers -> Packets]
    /\ inHand["recv"] \in Datagrams \cup {0, WakeUp, Aborted, Failed}
    /\ inHand["send"] \in Nat /\ inHand["process"] \in Nat
    /\ arrivals \in 0 .. MaxDatagrams
    /\ produced \in Nat /\ handled \in Nat /\ sent \in Nat

Lengths ==
    /\ Len(kernel) <= KernelCapacity
    /\ Len(incoming) <= Capacity /\ Len(outgoing) <= Capacity

\* The wake-up comes after the flag was cleared; what recvLoop pushes is a
\* datagram; processLoop pops from a buffer that it found not empty, and so
\* it has a packet to handle.
Genuine ==
    /\ pc["main"] \in BeforeWakeUp =>
          kernel \in Seq(Datagrams) /\ inHand["recv"] /= WakeUp
    /\ pc["recv"] = "received" => inHand["recv"] /= Nothing
    /\ pc["process"] = "pop" => incoming /= << >>
    /\ pc["process"] = "handle" => inHand["process"] /= Nothing

Data == Types /\ Lengths /\ Genuine

\* A push keeps a buffer typed and within its capacity, and does not empty it.
LEMMA OfferTyped ==
    ASSUME NEW queue \in Seq(Nat \ {0}), NEW item \in Nat \ {0},
           Len(queue) <= Capacity
    PROVE  /\ Offer(queue, item) \in Seq(Nat \ {0})
           /\ Len(Offer(queue, item)) <= Capacity
           /\ queue /= << >> => Offer(queue, item) /= << >>
BY CapacityAssumption DEF Offer

LEMMA QueueMessageTyped ==
    ASSUME Data, QueueMessage
    PROVE  /\ outgoing' \in Seq(Nat \ {0}) /\ Len(outgoing') <= Capacity
           /\ produced' \in Nat
<1>1. produced + 1 \in Nat \ {0}
    BY DEF Data, Types
<1>2. QED
    BY <1>1, OfferTyped DEF QueueMessage, Data, Types, Lengths

\* What a step of the data needs of the control.
LEMMA HandsKept ==
    ASSUME Data, NEW t \in Workers, NEW packet \in Packets, Obtain(t, packet)
    PROVE  /\ inHand' \in [Workers -> Packets]
           /\ inHand'[t] = packet
           /\ \A u \in Workers : u /= t => inHand'[u] = inHand[u]
BY DEF Obtain, Data, Types

LEMMA TypesStep == Control /\ Data /\ [Next]_vars => Types' /\ Lengths'
<1> SUFFICES ASSUME Control, Data, [Next]_vars PROVE Types' /\ Lengths'
    OBVIOUS
<1> USE BoundAssumption, CapacityAssumption
        DEF Goto, Threads, Workers, Nothing, BeforeWakeUp
<1>1. /\ Types /\ Lengths /\ pc \in [Threads -> PCs]
      /\ {0, WakeUp, Aborted, Failed} \subseteq Packets
      /\ Nat \subseteq Packets /\ Datagrams \subseteq Nat \ {0}
    BY DEF Data, Control, Packets, Datagrams
<1>2. CASE Arrive
    <2>1. arrivals + 1 \in Datagrams
        BY <1>1, <1>2 DEF Arrive, Types, Datagrams
    <2>2. kernel' \in Seq(Datagrams \cup {WakeUp})
          /\ Len(kernel') = Len(kernel) + 1 /\ Len(kernel) \in Nat
        BY <1>1, <1>2, <2>1 DEF Arrive, Types
    <2>3. QED
        BY <1>1, <1>2, <2>1, <2>2 DEF Arrive, Types, Lengths, Datagrams
<1>3. CASE GameLoopQueues
    BY <1>1, <1>3, QueueMessageTyped DEF GameLoopQueues, Types, Lengths
<1>4. CASE Start \/ StopBegins
    BY <1>1, <1>4 DEF Start, StopBegins, Types, Lengths
<1>5. CASE CloseSocket
    BY <1>1, <1>5 DEF CloseSocket, Types, Lengths
<1>6. CASE SendWakeUp
    <2>1. kernel' \in Seq(Datagrams \cup {WakeUp})
          /\ \/ Len(kernel') = Len(kernel)
             \/ Len(kernel) < KernelCapacity /\ Len(kernel') = Len(kernel) + 1
        BY <1>1, <1>6 DEF SendWakeUp, Types
    <2>2. Len(kernel') <= KernelCapacity
        BY <1>1, <2>1, BoundAssumption DEF Types, Lengths
    <2>3. QED
        BY <1>1, <1>6, <2>1, <2>2 DEF SendWakeUp, Types, Lengths
<1>7. CASE LoseWakeUp \/ Joins
    BY <1>1, <1>7 DEF LoseWakeUp, Joins, Join, Types, Lengths
<1>8. ASSUME NEW t \in Workers, NEW next, CheckRunning(t, next)
      PROVE  Types' /\ Lengths'
    BY <1>1, <1>8 DEF CheckRunning, Types, Lengths
<1>9. CASE RecvCall \/ RecvEnter
    <2>1. /\ UNCHANGED <<kernel, incoming, outgoing, arrivals, produced,
                         handled, sent>>
          /\ pc'["main"] = pc["main"]
          /\ \/ UNCHANGED inHand
             \/ \E packet \in {Aborted, Failed} : Obtain("recv", packet)
        BY <1>1, <1>9 DEF RecvCall, RecvEnter
    <2>2. QED
        BY <1>1, <2>1, HandsKept DEF Types, Lengths
<1>10. CASE RecvDatagram
    <2>1. Head(kernel) \in Datagrams \cup {WakeUp}
          /\ kernel' \in Seq(Datagrams \cup {WakeUp})
          /\ Len(kernel') <= Len(kernel) /\ Len(kernel) \in Nat
          /\ Len(kernel') \in Nat
        BY <1>1, <1>10 DEF RecvDatagram, Types
    <2>2. /\ inHand' \in [Workers -> Packets]
          /\ inHand'["recv"] = Head(kernel)
          /\ \A u \in Workers : u /= "recv" => inHand'[u] = inHand[u]
        BY <1>1, <1>10, <2>1, HandsKept DEF RecvDatagram
    <2>3. QED
        BY <1>1, <1>10, <2>1, <2>2 DEF RecvDatagram, Types, Lengths
<1>11. CASE RecvError
    <2>1. kernel' \in {kernel, << >>}
        BY <1>11 DEF RecvError
    <2>2. PICK packet \in {Aborted, Failed} : Obtain("recv", packet)
        BY <1>11 DEF RecvError
    <2>3. QED
        BY <1>1, <1>11, <2>1, <2>2, HandsKept DEF RecvError, Types, Lengths
<1>12. CASE RecvReturn
    <2>1. incoming' \in Seq(Nat \ {0}) /\ Len(incoming') <= Capacity
        <3>1. CASE UNCHANGED incoming
            BY <1>1, <3>1 DEF Types, Lengths
        <3>2. CASE /\ running /\ pc["recv"] = "received"
                   /\ inHand["recv"] \notin {Aborted, Failed}
                   /\ incoming' = Offer(incoming, inHand["recv"])
            <4>1. inHand["recv"] \in Nat \ {0}
                BY <1>1, <3>2 DEF Control, Data, Genuine, Types
            <4>2. QED
                BY <1>1, <3>2, <4>1, OfferTyped DEF Types, Lengths
        <3>3. QED
            BY <1>12, <3>1, <3>2 DEF RecvReturn
    <2>2. QED
        BY <1>1, <1>12, <2>1, HandsKept DEF RecvReturn, Types, Lengths
<1>13. CASE SendLook \/ ProcessLook
    BY <1>1, <1>13 DEF SendLook, ProcessLook, Types, Lengths
<1>14. CASE SendPop
    <2>1. CASE UNCHANGED <<outgoing, inHand>>
        BY <1>1, <1>14, <2>1 DEF SendPop, Types, Lengths
    <2>2. CASE outgoing /= << >> /\ Obtain("send", Head(outgoing))
                   /\ outgoing' = Tail(outgoing)
        <3>1. Head(outgoing) \in Nat /\ outgoing' \in Seq(Nat \ {0})
              /\ Len(outgoing') <= Capacity
            BY <1>1, <2>2 DEF Types, Lengths
        <3>2. QED
            BY <1>1, <1>14, <2>2, <3>1, HandsKept DEF SendPop, Types, Lengths
    <2>3. QED
        BY <1>14, <2>1, <2>2 DEF SendPop
<1>15. CASE SendTo
    BY <1>1, <1>15, HandsKept DEF SendTo, Types, Lengths
<1>16. CASE ProcessPop
    <2>1. CASE Obtain("process", 0) /\ UNCHANGED incoming
        BY <1>1, <1>16, <2>1, HandsKept DEF ProcessPop, Types, Lengths
    <2>2. CASE incoming /= << >> /\ Obtain("process", Head(incoming))
                   /\ incoming' = Tail(incoming)
        <3>1. Head(incoming) \in Nat /\ incoming' \in Seq(Nat \ {0})
              /\ Len(incoming') <= Capacity
            BY <1>1, <2>2 DEF Types, Lengths
        <3>2. QED
            BY <1>1, <1>16, <2>2, <3>1, HandsKept
               DEF ProcessPop, Types, Lengths
    <2>3. QED
        BY <1>16, <2>1, <2>2 DEF ProcessPop
<1>17. CASE Handle
    <2>1. /\ outgoing' \in Seq(Nat \ {0}) /\ Len(outgoing') <= Capacity
          /\ produced' \in Nat
        BY <1>1, <1>17, QueueMessageTyped DEF Handle, Types, Lengths
    <2>2. QED
        BY <1>1, <1>17, <2>1, HandsKept DEF Handle, Types, Lengths
<1>18. CASE UNCHANGED vars
    BY <1>1, <1>18 DEF vars, Types, Lengths
<1>19. QED
    BY <1>2, <1>3, <1>4, <1>5, <1>6, <1>7, <1>8, <1>9, <1>10, <1>11, <1>12,
       <1>13, <1>14, <1>15, <1>16, <1>17, <1>18
       DEF Next, Stop, RecvLoop, SendLoop, ProcessLoop

\* Only the three loops can disturb what they rely on: between a look and a
\* pop of processLoop others push but nobody pops.
LEMMA GenuineStep == Control /\ Data /\ [Next]_vars => Genuine'
<1> SUFFICES ASSUME Control, Data, [Next]_vars PROVE Genuine'
    OBVIOUS
<1> USE BoundAssumption, PacketAssumption
        DEF Goto, Threads, Workers, Nothing, BeforeWakeUp
<1>1. /\ Types /\ Lengths /\ Genuine /\ pc \in [Threads -> PCs]
      /\ running <=> pc["main"] = "running"
      /\ {0, WakeUp, Aborted, Failed} \subseteq Packets
      /\ Nat \subseteq Packets /\ Datagrams \subseteq Nat \ {0}
    BY DEF Data, Control, Packets, Datagrams
<1>2. CASE Arrive
    <2>1. arrivals + 1 \in Datagrams
        BY <1>1, <1>2 DEF Arrive, Types, Datagrams
    <2>2. kernel \in Seq(Datagrams) => kernel' \in Seq(Datagrams)
        BY <1>2, <2>1 DEF Arrive
    <2>3. QED
        BY <1>1, <1>2, <2>2 DEF Arrive, Genuine
<1>3. CASE GameLoopQueues \/ Start \/ StopBegins \/ LoseWakeUp \/ Joins
    BY <1>1, <1>3 DEF GameLoopQueues, Start, StopBegins, LoseWakeUp, Joins,
                      Join, Genuine
<1>4. CASE CloseSocket
    <2>1. kernel \in Seq(Datagrams) => kernel' \in Seq(Datagrams)
        BY <1>4 DEF CloseSocket
    <2>2. QED
        BY <1>1, <1>4, <2>1 DEF CloseSocket, Genuine
<1>5. CASE SendWakeUp
    BY <1>1, <1>5 DEF SendWakeUp, Genuine
<1>6. ASSUME NEW t \in Workers, NEW next \in {"call", "look"},
             CheckRunning(t, next)
      PROVE  Genuine'
    BY <1>1, <1>6 DEF CheckRunning, Genuine
<1>7. CASE RecvCall \/ RecvEnter
    <2>1. /\ UNCHANGED <<kernel, incoming>>
          /\ pc'["main"] = pc["main"] /\ pc'["process"] = pc["process"]
          /\ \/ UNCHANGED inHand /\ pc'["recv"] /= "received"
             \/ \E packet \in {Aborted, Failed} : Obtain("recv", packet)
        BY <1>1, <1>7 DEF RecvCall, RecvEnter
    <2>2. CASE UNCHANGED inHand /\ pc'["recv"] /= "received"
        BY <1>1, <2>1, <2>2 DEF Genuine
    <2>3. ASSUME NEW packet \in {Aborted, Failed}, Obtain("recv", packet)
          PROVE  Genuine'
        <3>1. /\ inHand'["recv"] = packet
              /\ inHand'["process"] = inHand["process"]
            BY <1>1, <2>3, HandsKept
        <3>2. CASE pc["main"] \in {"created", "running", "closing", "waking"}
            BY <1>1, <2>1, <3>1, <3>2 DEF Genuine
        <3>3. QED
            BY <1>1, <2>1, <3>1, <3>2 DEF Genuine
    <2>4. QED
        BY <2>1, <2>2, <2>3
<1>8. CASE RecvDatagram
    <2>1. Head(kernel) \in Datagrams \cup {WakeUp}
        BY <1>1, <1>8 DEF RecvDatagram, Types
    <2>2. /\ inHand'["recv"] = Head(kernel)
          /\ inHand'["process"] = inHand["process"]
        BY <1>1, <1>8, <2>1, HandsKept DEF RecvDatagram
    <2>3. kernel \in Seq(Datagrams) =>
              Head(kernel) \in Datagrams /\ kernel' \in Seq(Datagrams)
        BY <1>8 DEF RecvDatagram
    <2>4. /\ UNCHANGED incoming /\ pc' = [pc EXCEPT !["recv"] = "received"]
        BY <1>8 DEF RecvDatagram
    <2>5. Head(kernel) /= 0
          /\ (Head(kernel) \in Datagrams => Head(kernel) /= WakeUp)
        <3>1. 0 \notin Datagrams /\ WakeUp \notin Datagrams /\ WakeUp /= 0
            BY DEF Datagrams
        <3>2. QED
            BY <2>1, <3>1
    <2>6. /\ pc'["main"] = pc["main"] /\ pc'["process"] = pc["process"]
        BY <1>1, <2>4
    <2> HIDE DEF BeforeWakeUp
    <2>7. QED
        BY <1>1, <2>2, <2>3, <2>4, <2>5, <2>6 DEF Genuine
<1>9. CASE RecvError
    <2>1. PICK packet \in {Aborted, Failed} : Obtain("recv", packet)
        BY <1>9 DEF RecvError
    <2>2. inHand'["recv"] = packet /\ inHand'["process"] = inHand["process"]
        BY <1>1, <2>1, HandsKept
    <2>3. kernel \in Seq(Datagrams) => kernel' \in Seq(Datagrams)
        BY <1>9 DEF RecvError
    <2>4. UNCHANGED incoming /\ pc' = [pc EXCEPT !["recv"] = "received"]
        BY <1>9 DEF RecvError
    <2>5. QED
        BY <1>1, <2>1, <2>2, <2>3, <2>4 DEF Genuine
<1>10. CASE RecvReturn
    <2>1. inHand'["recv"] = 0 /\ inHand'["process"] = inHand["process"]
        BY <1>1, <1>10, HandsKept DEF RecvReturn
    <2>2. incoming /= << >> => incoming' /= << >>
        <3>1. CASE UNCHANGED incoming
            BY <3>1
        <3>2. CASE /\ running /\ pc["recv"] = "received"
                   /\ inHand["recv"] \notin {Aborted, Failed}
                   /\ incoming' = Offer(incoming, inHand["recv"])
            <4>1. inHand["recv"] \in Nat \ {0}
                BY <1>1, <3>2 DEF Genuine, Types
            <4>2. QED
                BY <1>1, <3>2, <4>1, OfferTyped DEF Types, Lengths
        <3>3. QED
            BY <1>10, <3>1, <3>2 DEF RecvReturn
    <2>3. /\ UNCHANGED kernel /\ pc'["main"] = pc["main"]
          /\ pc'["process"] = pc["process"] /\ pc'["recv"] /= "received"
        BY <1>1, <1>10 DEF RecvReturn
    <2>4. QED
        BY <1>1, <2>1, <2>2, <2>3 DEF Genuine
<1>11. CASE SendLook
    BY <1>1, <1>11 DEF SendLook, Genuine
<1>12. CASE SendPop \/ SendTo
    <2>1. /\ UNCHANGED <<kernel, incoming>>
          /\ \A t \in Threads : t /= "send" => pc'[t] = pc[t]
        BY <1>1, <1>12 DEF SendPop, SendTo
    <2>2. outgoing /= << >> => Head(outgoing) \in Packets
        BY <1>1 DEF Types
    <2>3. /\ inHand'["recv"] = inHand["recv"]
          /\ inHand'["process"] = inHand["process"]
        BY <1>1, <1>12, <2>2, HandsKept DEF SendPop, SendTo
    <2>4. QED
        BY <1>1, <2>1, <2>3 DEF Genuine
<1>13. CASE ProcessLook
    BY <1>1, <1>13 DEF ProcessLook, Genuine
<1>14. CASE ProcessPop
    <2>1. incoming /= << >>
        BY <1>1, <1>14 DEF ProcessPop, Genuine
    <2>2. Head(incoming) \in Nat \ {0} /\ Obtain("process", Head(incoming))
        BY <1>1, <1>14, <2>1 DEF ProcessPop, Types
    <2>3. /\ inHand'["process"] = Head(incoming)
          /\ inHand'["recv"] = inHand["recv"]
        BY <1>1, <2>2, HandsKept
    <2>4. UNCHANGED kernel /\ pc' = [pc EXCEPT !["process"] = "handle"]
        BY <1>14 DEF ProcessPop
    <2>5. QED
        BY <1>1, <2>2, <2>3, <2>4 DEF Genuine
<1>15. CASE Handle
    <2>1. inHand'["recv"] = inHand["recv"]
        BY <1>1, <1>15, HandsKept DEF Handle
    <2>2. QED
        BY <1>1, <1>15, <2>1 DEF Handle, Genuine
<1>16. CASE UNCHANGED vars
    BY <1>1, <1>16 DEF vars, Genuine
<1>17. QED
    BY <1>2, <1>3, <1>4, <1>5, <1>6, <1>7, <1>8, <1>9, <1>10, <1>11, <1>12,
       <1>13, <1>14, <1>15, <1>16
       DEF Next, Stop, RecvLoop, SendLoop, ProcessLoop

LEMMA DataInvariant == Spec => []Data
<1>1. Init => Data
    BY CapacityAssumption, BoundAssumption, PacketAssumption
       DEF Init, Data, Types, Lengths, Genuine, Threads, Workers, Packets,
           Datagrams, BeforeWakeUp, Nothing
<1>2. Control /\ Data /\ [Next]_vars => Data'
    BY TypesStep, GenuineStep DEF Data
<1>3. QED
    BY <1>1, <1>2, ControlInvariant, PTL DEF Spec

\* Every variable keeps its type and every buffer its capacity.
THEOREM TypeCorrect == Spec => []TypeOK
<1>1. Control /\ Data => TypeOK
    <2> SUFFICES ASSUME Control, Data PROVE TypeOK
        OBVIOUS
    <2>1. kernel \in Seq(1 .. MaxDatagrams \cup {WakeUp})
        BY DEF Data, Types, Datagrams
    <2>2. incoming \in Seq(Nat) /\ outgoing \in Seq(Nat)
        BY DEF Data, Types
    <2>3. inHand["recv"] \in Nat \cup {WakeUp, Aborted, Failed}
        BY BoundAssumption DEF Data, Types, Datagrams
    <2>4. QED
        BY <2>1, <2>2, <2>3 DEF TypeOK, Control, Data, Types, Lengths, MainPCs,
           RecvPCs, SendPCs, ProcessPCs
<1>2. QED
    BY <1>1, ControlInvariant, DataInvariant, PTL

\* The unchecked dereference of processLoop always finds a packet.
THEOREM PopFinds == Spec => []NoNullDereference
<1>1. Data => NoNullDereference
    BY DEF Data, Genuine, NoNullDereference
<1>2. QED
    BY <1>1, DataInvariant, PTL

\* The datagram that stop() sends to itself never reaches the buffer.
THEOREM WakeUpStaysOut == Spec => []WakeUpNeverQueued
<1>1. Data => WakeUpNeverQueued
    BY PacketAssumption DEF Data, Types, WakeUpNeverQueued
<1>2. QED
    BY <1>1, DataInvariant, PTL

-----------------------------------------------------------------------------
(* The order of the packets.                                               *)

Below(n, queue) == \A i \in 1 .. Len(queue) : n < queue[i]
Above(n, queue) == \A i \in 1 .. Len(queue) : queue[i] < n

LEMMA TailOrdered ==
    ASSUME NEW queue \in Seq(Nat), queue /= << >>, Increasing(queue)
    PROVE  /\ Increasing(Tail(queue))
           /\ Below(Head(queue), Tail(queue))
           /\ \A n : Below(n, queue) =>
                        n < Head(queue) /\ Below(n, Tail(queue))
           /\ \A n : Above(n, queue) =>
                        Head(queue) < n /\ Above(n, Tail(queue))
<1>1. /\ Len(queue) \in Nat \ {0} /\ Len(Tail(queue)) = Len(queue) - 1
      /\ Head(queue) = queue[1]
      /\ \A i \in 1 .. Len(queue) - 1 : Tail(queue)[i] = queue[i + 1]
    OBVIOUS
<1>2. QED
    BY <1>1 DEF Increasing, Below, Above

LEMMA AppendOrdered ==
    ASSUME NEW queue \in Seq(Nat), NEW n \in Nat, Increasing(queue),
           Above(n, queue)
    PROVE  /\ Increasing(Append(queue, n))
           /\ \A m : Below(m, queue) /\ m < n => Below(m, Append(queue, n))
           /\ \A m : Above(m, queue) /\ n < m => Above(m, Append(queue, n))
<1> DEFINE new == Append(queue, n)
           len == Len(queue)
<1>1. /\ len \in Nat /\ Len(new) = len + 1
      /\ new[len + 1] = n
      /\ \A i \in 1 .. len : new[i] = queue[i]
    OBVIOUS
<1> HIDE DEF new, len
<1>2. \A i \in 1 .. len + 1 : i \in 1 .. len \/ i = len + 1
    BY <1>1
<1>3. \A i \in 1 .. len : queue[i] < n
    BY DEF Above, len
<1>4. \A i, j \in 1 .. len : i < j => queue[i] < queue[j]
    BY DEF Increasing, len
<1>5. \A i, j \in 1 .. len + 1 : i < j => new[i] < new[j]
    <2> SUFFICES ASSUME NEW i \in 1 .. len + 1, NEW j \in 1 .. len + 1, i < j
                 PROVE  new[i] < new[j]
        OBVIOUS
    <2>1. i \in 1 .. len
        BY <1>1
    <2>2. CASE j \in 1 .. len
        BY <1>1, <1>4, <2>1, <2>2
    <2>3. CASE j = len + 1
        BY <1>1, <1>3, <2>1, <2>3
    <2>4. QED
        BY <1>2, <2>2, <2>3
<1>6. Increasing(new)
    BY <1>1, <1>5 DEF Increasing
<1>7. \A m : Below(m, queue) /\ m < n => Below(m, new)
    BY <1>1, <1>2 DEF Below, len
<1>8. \A m : Above(m, queue) /\ n < m => Above(m, new)
    BY <1>1, <1>2 DEF Above, len
<1>9. QED
    BY <1>6, <1>7, <1>8 DEF new

LEMMA ConsOrdered ==
    ASSUME NEW queue \in Seq(Nat), NEW n \in Nat, Increasing(queue),
           Below(n, queue)
    PROVE  /\ <<n>> \o queue \in Seq(Nat)
           /\ Increasing(<<n>> \o queue)
           /\ \A m : Below(m, queue) /\ m < n => Below(m, <<n>> \o queue)
<1> DEFINE new == <<n>> \o queue
           len == Len(queue)
<1>1. /\ new \in Seq(Nat)
      /\ len \in Nat /\ Len(new) = len + 1
      /\ new[1] = n
      /\ \A i \in 1 .. len : new[i + 1] = queue[i]
    OBVIOUS
<1> HIDE DEF new, len
<1>2. \A i \in 1 .. len + 1 : i = 1 \/ (i - 1 \in 1 .. len /\ i = (i - 1) + 1)
    BY <1>1
<1>3. \A i \in 2 .. len + 1 : i - 1 \in 1 .. len /\ new[i] = queue[i - 1]
    BY <1>1, <1>2
<1>4. \A i \in 1 .. len : n < queue[i]
    BY DEF Below, len
<1>5. \A i, j \in 1 .. len : i < j => queue[i] < queue[j]
    BY DEF Increasing, len
<1>6. \A i, j \in 1 .. len + 1 : i < j => new[i] < new[j]
    <2> SUFFICES ASSUME NEW i \in 1 .. len + 1, NEW j \in 1 .. len + 1, i < j
                 PROVE  new[i] < new[j]
        OBVIOUS
    <2>1. j \in 2 .. len + 1
        BY <1>1
    <2>2. CASE i = 1
        BY <1>1, <1>3, <1>4, <2>1, <2>2
    <2>3. CASE i /= 1
        <3>1. i \in 2 .. len + 1 /\ i - 1 < j - 1
            BY <1>1, <2>3
        <3>2. QED
            BY <1>3, <1>5, <2>1, <3>1
    <2>4. QED
        BY <2>2, <2>3
<1>7. Increasing(new)
    BY <1>1, <1>6 DEF Increasing
<1>8. \A m : Below(m, queue) /\ m < n => Below(m, new)
    <2> SUFFICES ASSUME NEW m, Below(m, queue), m < n,
                        NEW i \in 1 .. len + 1
                 PROVE  m < new[i]
        BY <1>1 DEF Below
    <2>1. CASE i = 1
        BY <1>1, <2>1
    <2>2. CASE i \in 2 .. len + 1
        BY <1>3, <2>2 DEF Below, len
    <2>3. QED
        BY <1>1, <2>1, <2>2
<1>9. QED
    BY <1>1, <1>7, <1>8 DEF new

\* A buffer with what was disposed of last and what is in hand.
Ordered(last, hand, queue) ==
    /\ Increasing(queue)
    /\ Below(last, queue) /\ Below(hand, queue)
    /\ hand /= Nothing => last < hand

LEMMA OrderedIsIncreasing ==
    ASSUME NEW last \in Nat, NEW hand \in Nat, NEW queue \in Seq(Nat),
           Ordered(last, hand, queue)
    PROVE  Increasing(<<last>> \o (IF hand = Nothing THEN << >> ELSE <<hand>>)
                          \o queue)
<1>1. CASE hand = Nothing
    <2>1. <<last>> \o << >> = <<last>>
        OBVIOUS
    <2>2. QED
        BY <1>1, <2>1, ConsOrdered DEF Ordered
<1>2. CASE hand /= Nothing
    <2>1. /\ <<hand>> \o queue \in Seq(Nat)
          /\ Increasing(<<hand>> \o queue) /\ Below(last, <<hand>> \o queue)
        BY <1>2, ConsOrdered DEF Ordered
    <2>2. <<last>> \o <<hand>> \o queue = <<last>> \o (<<hand>> \o queue)
        OBVIOUS
    <2>3. QED
        BY <1>2, <2>1, <2>2, ConsOrdered
<1>3. QED
    BY <1>1, <1>2

\* A packet that comes after all the others keeps the order in the buffer.
LEMMA OfferOrdered ==
    ASSUME NEW last \in Nat, NEW hand \in Nat, NEW queue \in Seq(Nat),
           NEW n \in Nat, Ordered(last, hand, queue),
           last < n, hand < n, Above(n, queue)
    PROVE  /\ Ordered(last, hand, Offer(queue, n))
           /\ \A m : Above(m, queue) /\ n < m => Above(m, Offer(queue, n))
BY AppendOrdered DEF Ordered, Offer

\* A pop takes the next packet in hand, once the one before is disposed of.
LEMMA PopOrdered ==
    ASSUME NEW last \in Nat, NEW queue \in Seq(Nat), queue /= << >>,
           NEW hand, Ordered(last, hand, queue)
    PROVE  /\ Ordered(last, Head(queue), Tail(queue))
           /\ \A m : Above(m, queue) =>
                        Head(queue) < m /\ Above(m, Tail(queue))
BY TailOrdered DEF Ordered

\* The outgoing side; a message not yet queued comes after all the others.
Outgoing ==
    /\ Ordered(sent, inHand["send"], outgoing)
    /\ sent < produced + 1 /\ inHand["send"] < produced + 1
    /\ Above(produced + 1, outgoing)

\* n comes after everything between the buffer and the handler.
Newer(n) == handled < n /\ inHand["process"] < n /\ Above(n, incoming)

\* The incoming side. Until the server is stopped what recvLoop and the
\* kernel hold comes after it, in order; later it is not pushed any more.
Incoming ==
    /\ Ordered(handled, inHand["process"], incoming)
    /\ pc["main"] \in {"created", "running"} =>
          /\ Newer(arrivals + 1)
          /\ Increasing(kernel) /\ Above(arrivals + 1, kernel)
          /\ \A i \in 1 .. Len(kernel) : Newer(kernel[i])
          /\ inHand["recv"] \in Datagrams =>
                /\ Newer(inHand["recv"]) /\ inHand["recv"] < arrivals + 1
                /\ Below(inHand["recv"], kernel)

LEMMA QueueMessageOrdered ==
    ASSUME Data, Outgoing, QueueMessage, UNCHANGED sent,
           inHand'["send"] = inHand["send"]
    PROVE  Outgoing'
<1>1. /\ sent \in Nat /\ inHand["send"] \in Nat /\ produced \in Nat
      /\ outgoing \in Seq(Nat)
    BY DEF Data, Types
<1>2. /\ outgoing' = Offer(outgoing, produced + 1) /\ produced' = produced + 1
      /\ produced + 1 \in Nat /\ produced + 1 < produced' + 1
    BY <1>1 DEF QueueMessage
<1>3. /\ Ordered(sent, inHand["send"], outgoing')
      /\ Above(produced' + 1, outgoing')
    <2>1. Above(produced' + 1, outgoing)
        <3>1. \A i \in 1 .. Len(outgoing) : outgoing[i] \in Nat
            BY <1>1
        <3>2. QED
            BY <1>1, <1>2, <3>1 DEF Outgoing, Above
    <2>2. QED
        BY <1>1, <1>2, <2>1, OfferOrdered DEF Outgoing
<1>4. QED
    BY <1>1, <1>2, <1>3 DEF Outgoing, Ordered

LEMMA OutgoingStep == Control /\ Data /\ Outgoing /\ [Next]_vars => Outgoing'
<1> SUFFICES ASSUME Control, Data, Outgoing, [Next]_vars PROVE Outgoing'
    OBVIOUS
<1>1. /\ sent \in Nat /\ inHand["send"] \in Nat /\ produced \in Nat
      /\ outgoing \in Seq(Nat)
      /\ {0, WakeUp, Aborted, Failed} \subseteq Packets
      /\ Nat \subseteq Packets
      /\ Datagrams \cup {WakeUp} \subseteq Packets
    BY BoundAssumption DEF Data, Types, Packets, Datagrams
<1>2. ASSUME UNCHANGED <<sent, outgoing, produced>>,
             inHand'["send"] = inHand["send"]
      PROVE  Outgoing'
    BY <1>2 DEF Outgoing, Ordered, Increasing, Below, Above
<1>3. ASSUME NEW packet \in Packets, NEW t \in {"recv", "process"},
             Obtain(t, packet)
      PROVE  inHand'["send"] = inHand["send"]
    BY <1>3, HandsKept DEF Workers
<1>4. CASE RecvDatagram
    <2>1. Head(kernel) \in Packets
        BY <1>1, <1>4 DEF RecvDatagram, Data, Types
    <2>2. QED
        BY <1>2, <1>3, <1>4, <2>1 DEF RecvDatagram
<1>5. CASE RecvCall \/ RecvEnter \/ RecvError \/ RecvReturn
    BY <1>1, <1>2, <1>3, <1>5
       DEF RecvCall, RecvEnter, RecvError, RecvReturn, Nothing
<1>6. CASE ProcessPop
    <2>1. incoming /= << >> => Head(incoming) \in Packets
        BY <1>1 DEF Data, Types
    <2>2. QED
        BY <1>1, <1>2, <1>3, <1>6, <2>1 DEF ProcessPop, Nothing
<1>7. CASE Handle
    <2>1. inHand'["send"] = inHand["send"] /\ UNCHANGED sent
        BY <1>1, <1>3, <1>7 DEF Handle, Nothing
    <2>2. QED
        BY <1>2, <1>7, <2>1, QueueMessageOrdered DEF Handle
<1>8. CASE GameLoopQueues
    BY <1>8, QueueMessageOrdered DEF GameLoopQueues
<1>9. CASE SendPop
    <2>1. CASE UNCHANGED <<outgoing, inHand>>
        BY <1>2, <1>9, <2>1 DEF SendPop
    <2>2. CASE outgoing /= << >> /\ Obtain("send", Head(outgoing))
                   /\ outgoing' = Tail(outgoing)
        <3>1. Head(outgoing) \in Packets
            BY <1>1, <2>2
        <3>2. inHand'["send"] = Head(outgoing) /\ UNCHANGED <<sent, produced>>
            BY <1>9, <2>2, <3>1, HandsKept DEF SendPop, Workers
        <3>3. QED
            BY <1>1, <2>2, <3>2, PopOrdered DEF Outgoing
    <2>3. QED
        BY <1>9, <2>1, <2>2 DEF SendPop
<1>10. CASE SendTo
    <2>1. inHand'["send"] = 0 /\ sent' \in {sent, inHand["send"]}
          /\ UNCHANGED <<outgoing, produced>>
        BY <1>1, <1>10, HandsKept DEF SendTo, Workers, Nothing
    <2>2. Below(0, outgoing)
        BY DEF Data, Types, Below
    <2>3. QED
        BY <1>1, <2>1, <2>2 DEF Outgoing, Ordered, Nothing, Increasing, Above,
                                Below
<1>11. ASSUME NEW t, NEW next, CheckRunning(t, next)
       PROVE  Outgoing'
    BY <1>2, <1>11 DEF CheckRunning
<1>12. CASE Arrive \/ Start \/ StopBegins \/ Stop \/ SendLook
            \/ ProcessLook \/ UNCHANGED vars
    BY <1>2, <1>12 DEF Arrive, Start, StopBegins, Stop, CloseSocket,
       SendWakeUp, LoseWakeUp, Joins, Join, SendLook, ProcessLook, vars
<1>13. QED
    BY <1>4, <1>5, <1>6, <1>7, <1>8, <1>9, <1>10, <1>11, <1>12
       DEF Next, RecvLoop, SendLoop, ProcessLoop

\* What a packet comes after, it comes after one step later: the packets
\* before it only move on.
LEMMA NewerKept ==
    ASSUME Data, NEW n \in Nat \ {0}, Newer(n),
           \/ UNCHANGED <<handled, incoming>>
              /\ inHand'["process"] = inHand["process"]
           \/ /\ incoming /= << >> /\ incoming' = Tail(incoming)
              /\ inHand'["process"] = Head(incoming) /\ UNCHANGED handled
           \/ /\ handled' = inHand["process"] /\ inHand'["process"] = 0
              /\ UNCHANGED incoming
    PROVE  handled' < n /\ inHand'["process"] < n /\ Above(n, incoming')
<1>1. incoming \in Seq(Nat)
    BY DEF Data, Types
<1>2. CASE /\ incoming /= << >> /\ incoming' = Tail(incoming)
           /\ inHand'["process"] = Head(incoming) /\ UNCHANGED handled
    <2> DEFINE len == Len(incoming)
    <2>1. /\ len \in Nat \ {0} /\ Len(Tail(incoming)) = len - 1
          /\ Head(incoming) = incoming[1]
          /\ \A i \in 1 .. len - 1 : Tail(incoming)[i] = incoming[i + 1]
        BY <1>1, <1>2
    <2>2. Head(incoming) < n /\ Above(n, Tail(incoming))
        BY <2>1 DEF Newer, Above
    <2>3. QED
        BY <1>2, <2>2 DEF Newer
<1>3. CASE UNCHANGED <<handled, incoming>>
               /\ inHand'["process"] = inHand["process"]
    BY <1>3 DEF Newer, Above
<1>4. CASE /\ handled' = inHand["process"] /\ inHand'["process"] = 0
           /\ UNCHANGED incoming
    BY <1>4 DEF Newer, Above
<1>5. QED
    BY <1>2, <1>3, <1>4

LEMMA IncomingStep == Control /\ Data /\ Incoming /\ [Next]_vars => Incoming'
<1> SUFFICES ASSUME Control, Data, Incoming, [Next]_vars PROVE Incoming'
    OBVIOUS
<1> DEFINE Early == pc["main"] \in {"created", "running"}
<1>1. /\ handled \in Nat /\ inHand["process"] \in Nat /\ arrivals \in Nat
      /\ incoming \in Seq(Nat \ {0}) /\ incoming \in Seq(Nat)
      /\ {0, WakeUp, Aborted, Failed} \subseteq Packets
      /\ Nat \subseteq Packets
      /\ Datagrams \subseteq Nat \ {0}
      /\ Datagrams \cap {0, WakeUp, Aborted, Failed} = {}
      /\ Early => kernel \in Seq(Datagrams) /\ kernel \in Seq(Nat)
    BY BoundAssumption, PacketAssumption
       DEF Data, Types, Genuine, Packets, Datagrams, BeforeWakeUp
\* Nothing of the incoming side changes.
<1>2. ASSUME UNCHANGED <<handled, incoming, kernel, arrivals>>,
             inHand'["process"] = inHand["process"],
             \/ inHand'["recv"] = inHand["recv"]
             \/ inHand'["recv"] \notin Datagrams,
             Early' => Early
      PROVE  Incoming'
    BY <1>2 DEF Incoming, Ordered, Newer, Increasing, Below, Above, Datagrams
\* Only the end near the handler changes.
<1>3. ASSUME UNCHANGED <<kernel, arrivals>>,
             inHand'["recv"] = inHand["recv"], Early' => Early,
             Ordered(handled', inHand'["process"], incoming'),
             \A n \in Nat \ {0} : Newer(n) =>
                 handled' < n /\ inHand'["process"] < n /\ Above(n, incoming')
      PROVE  Incoming'
    <2>1. \A i \in 1 .. Len(kernel) : Early => kernel[i] \in Nat \ {0}
        BY <1>1
    <2>2. arrivals + 1 \in Nat \ {0}
        BY <1>1
    <2>3. CASE ~Early'
        BY <1>3, <2>3 DEF Incoming, Ordered, Increasing, Below
    <2>4. CASE Early'
        BY <1>1, <1>3, <2>1, <2>2, <2>4
           DEF Incoming, Ordered, Newer, Increasing, Below, Above, Datagrams
    <2>5. QED
        BY <2>3, <2>4
\* After the stop only the order in the buffer is left to show.
<1>4. ASSUME ~Early', Ordered(handled', inHand'["process"], incoming')
      PROVE  Incoming'
    BY <1>4 DEF Incoming, Ordered, Increasing, Below
<1>5. ASSUME NEW packet \in Packets, NEW t \in Workers, Obtain(t, packet)
      PROVE  /\ inHand'[t] = packet
             /\ \A u \in Workers : u /= t => inHand'[u] = inHand[u]
    BY <1>5, HandsKept
<1>6. CASE Arrive
    <2>1. /\ UNCHANGED <<handled, incoming, pc, inHand>>
          /\ kernel' = Append(kernel, arrivals + 1)
          /\ arrivals' = arrivals + 1 /\ arrivals + 1 \in Nat
          /\ arrivals + 1 < arrivals' + 1
        BY <1>1, <1>6 DEF Arrive
    <2>2. CASE ~Early
        BY <1>4, <2>1, <2>2 DEF Incoming
    <2>3. CASE Early
        <3>1. /\ Newer(arrivals + 1) /\ Increasing(kernel)
              /\ Above(arrivals + 1, kernel)
              /\ \A i \in 1 .. Len(kernel) : Newer(kernel[i])
              /\ kernel \in Seq(Nat)
            BY <1>1, <2>3 DEF Incoming
        <3>2. Newer(arrivals' + 1) /\ Above(arrivals' + 1, kernel)
            <4>1. /\ \A i \in 1 .. Len(kernel) : kernel[i] \in Nat
                  /\ \A i \in 1 .. Len(incoming) : incoming[i] \in Nat
                BY <1>1, <3>1
            <4>2. QED
                BY <1>1, <2>1, <3>1, <4>1 DEF Newer, Above
        <3>3. Increasing(kernel') /\ Above(arrivals' + 1, kernel')
            BY <2>1, <3>1, <3>2, AppendOrdered
        <3>4. \A i \in 1 .. Len(kernel') : Newer(kernel'[i])
            <4>1. /\ Len(kernel') = Len(kernel) + 1 /\ Len(kernel) \in Nat
                  /\ kernel'[Len(kernel) + 1] = arrivals + 1
                  /\ \A i \in 1 .. Len(kernel) : kernel'[i] = kernel[i]
                BY <2>1, <3>1
            <4>2. \A i \in 1 .. Len(kernel') :
                      i \in 1 .. Len(kernel) \/ i = Len(kernel) + 1
                BY <4>1
            <4>3. QED
                BY <3>1, <4>1, <4>2
        <3>5. inHand["recv"] \in Datagrams =>
                  /\ Newer(inHand["recv"])
                  /\ inHand["recv"] < arrivals' + 1
                  /\ Below(inHand["recv"], kernel')
            <4> SUFFICES ASSUME inHand["recv"] \in Datagrams
                         PROVE  /\ Newer(inHand["recv"])
                                /\ inHand["recv"] < arrivals' + 1
                                /\ Below(inHand["recv"], kernel')
                OBVIOUS
            <4>1. /\ Newer(inHand["recv"]) /\ inHand["recv"] < arrivals + 1
                  /\ Below(inHand["recv"], kernel) /\ inHand["recv"] \in Nat
                BY <1>1, <2>3 DEF Incoming
            <4>2. Below(inHand["recv"], kernel')
                BY <2>1, <3>1, <4>1, AppendOrdered
            <4>3. QED
                BY <1>1, <2>1, <4>1, <4>2
        <3> HIDE DEF Early
        <3>6. QED
            BY <2>1, <3>2, <3>3, <3>4, <3>5 DEF Incoming, Newer, Ordered,
               Increasing, Below, Above
    <2>4. QED
        BY <2>2, <2>3
<1>7. CASE RecvDatagram
    <2>1. Head(kernel) \in Packets
        BY <1>1, <1>7 DEF RecvDatagram, Data, Types, Packets, Datagrams
    <2>2. /\ UNCHANGED <<handled, incoming, arrivals>> /\ kernel /= << >>
          /\ kernel' \in {Tail(kernel), << >>}
          /\ inHand'["recv"] = Head(kernel)
          /\ inHand'["process"] = inHand["process"]
          /\ Early' <=> Early
        BY <1>5, <1>7, <2>1 DEF RecvDatagram, Workers, Goto, Control, Threads
    <2>3. CASE ~Early
        BY <1>4, <2>2, <2>3 DEF Incoming
    <2>4. CASE Early
        <3>1. /\ Newer(arrivals + 1) /\ Increasing(kernel)
              /\ Above(arrivals + 1, kernel)
              /\ \A i \in 1 .. Len(kernel) : Newer(kernel[i])
              /\ kernel \in Seq(Nat)
            BY <1>1, <2>4 DEF Incoming
        <3>2. Newer(Head(kernel))
            BY <2>2, <3>1
        <3>3. /\ Increasing(Tail(kernel)) /\ Below(Head(kernel), Tail(kernel))
              /\ Head(kernel) < arrivals + 1
              /\ Above(arrivals + 1, Tail(kernel))
            BY <2>2, <3>1, TailOrdered
        <3>4. \A i \in 1 .. Len(Tail(kernel)) : Newer(Tail(kernel)[i])
            <4>1. /\ Len(kernel) \in Nat \ {0}
                  /\ Len(Tail(kernel)) = Len(kernel) - 1
                  /\ \A i \in 1 .. Len(kernel) - 1 :
                         Tail(kernel)[i] = kernel[i + 1]
                BY <2>2, <3>1
            <4>2. QED
                BY <3>1, <4>1
        <3>5. /\ Increasing(kernel') /\ Below(Head(kernel), kernel')
              /\ Above(arrivals + 1, kernel')
              /\ \A i \in 1 .. Len(kernel') : Newer(kernel'[i])
            <4>1. CASE kernel' = << >>
                BY <4>1 DEF Increasing, Below, Above
            <4>2. CASE kernel' = Tail(kernel)
                BY <3>3, <3>4, <4>2
            <4>3. QED
                BY <2>2, <4>1, <4>2
        <3> HIDE DEF Early
        <3>6. QED
            BY <2>2, <3>1, <3>2, <3>3, <3>5 DEF Incoming, Newer, Ordered,
               Increasing, Below, Above
    <2>5. QED
        BY <2>3, <2>4
<1>8. CASE RecvError
    <2>1. PICK packet \in {Aborted, Failed} : Obtain("recv", packet)
        BY <1>8 DEF RecvError
    <2>2. /\ UNCHANGED <<handled, incoming, arrivals>>
          /\ kernel' \in {kernel, << >>}
          /\ inHand'["recv"] \notin Datagrams
          /\ inHand'["process"] = inHand["process"]
          /\ Early' <=> Early
        BY <1>1, <1>5, <1>8, <2>1
           DEF RecvError, Workers, Goto, Control, Threads
    <2>3. CASE kernel' = kernel
        BY <1>2, <2>2, <2>3
    <2>4. CASE kernel' = << >>
        BY <2>2, <2>4 DEF Incoming, Ordered, Newer, Increasing, Below, Above,
                          Datagrams
    <2>5. QED
        BY <2>2, <2>3, <2>4
<1>9. CASE RecvReturn
    <2>1. /\ UNCHANGED <<handled, kernel, arrivals>>
          /\ inHand'["recv"] = 0
          /\ inHand'["process"] = inHand["process"]
          /\ Early' <=> Early
        BY <1>1, <1>5, <1>9 DEF RecvReturn, Workers, Goto, Control, Threads,
                                Nothing
    <2>2. CASE UNCHANGED incoming
        BY <1>1, <1>2, <2>1, <2>2
    <2>3. CASE /\ running /\ inHand["recv"] \notin {Aborted, Failed}
               /\ pc["recv"] = "received"
               /\ incoming' = Offer(incoming, inHand["recv"])
        <3> DEFINE d == inHand["recv"]
        <3>1. Early /\ d \in Datagrams
            BY <2>3 DEF Control, Data, Types, Genuine, BeforeWakeUp, Nothing
        <3>2. /\ d \in Nat /\ Newer(d) /\ d < arrivals + 1 /\ Below(d, kernel)
              /\ Newer(arrivals + 1) /\ Increasing(kernel)
              /\ Above(arrivals + 1, kernel)
              /\ \A i \in 1 .. Len(kernel) : Newer(kernel[i])
            BY <1>1, <3>1 DEF Incoming
        <3> HIDE DEF d
        <3>3. /\ Ordered(handled, inHand["process"], incoming')
              /\ \A m : Above(m, incoming) /\ d < m => Above(m, incoming')
            BY <1>1, <2>3, <3>2, OfferOrdered DEF Incoming, Newer, d
        <3>4. /\ Above(arrivals + 1, incoming')
              /\ \A i \in 1 .. Len(kernel) : Above(kernel[i], incoming')
            BY <3>2, <3>3 DEF Newer, Below
        <3> HIDE DEF Early
        <3>5. 0 \notin Datagrams
            BY <1>1
        <3>6. QED
            BY <2>1, <3>2, <3>3, <3>4, <3>5 DEF Incoming, Newer, Ordered,
               Increasing, Below, Above
    <2>4. QED
        BY <1>9, <2>2, <2>3 DEF RecvReturn, Goto
<1>10. CASE ProcessPop
    <2>1. /\ UNCHANGED <<handled, kernel, arrivals>>
          /\ Early' <=> Early
          /\ incoming /= << >> /\ incoming' = Tail(incoming)
          /\ Obtain("process", Head(incoming))
        BY <1>10 DEF ProcessPop, Goto, Control, Threads, Data, Genuine
    <2>2. Head(incoming) \in Packets
        BY <1>1, <2>1
    <2>3. /\ inHand'["process"] = Head(incoming)
          /\ inHand'["recv"] = inHand["recv"]
        BY <1>5, <2>1, <2>2 DEF Workers
    <2>4. Ordered(handled', inHand'["process"], incoming')
        BY <1>1, <2>1, <2>3, PopOrdered DEF Incoming
    <2> HIDE DEF Early
    <2>5. QED
        BY <1>3, <2>1, <2>3, <2>4, NewerKept
<1>11. CASE Handle
    <2>1. /\ UNCHANGED <<incoming, kernel, arrivals>>
          /\ Early' <=> Early
          /\ handled' = inHand["process"] /\ Obtain("process", 0)
        BY <1>11 DEF Handle, Goto, Control, Threads, Nothing
    <2>2. /\ inHand'["process"] = 0 /\ inHand'["recv"] = inHand["recv"]
        BY <1>1, <1>5, <2>1 DEF Workers
    <2>3. Below(0, incoming)
        BY <1>1 DEF Below
    <2>4. Ordered(handled', inHand'["process"], incoming')
        BY <2>1, <2>2, <2>3 DEF Incoming, Ordered, Nothing, Increasing, Below
    <2> HIDE DEF Early
    <2>5. QED
        BY <1>3, <2>1, <2>2, <2>4, NewerKept
<1>12. CASE CloseSocket \/ SendWakeUp \/ LoseWakeUp
    BY <1>4, <1>12 DEF CloseSocket, SendWakeUp, LoseWakeUp, Goto, Control,
                       Incoming
<1>13. CASE RecvCall \/ RecvEnter
    <2>1. /\ UNCHANGED <<handled, incoming, kernel, arrivals>>
          /\ Early' <=> Early
          /\ \/ UNCHANGED inHand
             \/ \E packet \in {Aborted, Failed} : Obtain("recv", packet)
        BY <1>13 DEF RecvCall, RecvEnter, Goto, Control, Threads
    <2>2. CASE UNCHANGED inHand
        BY <1>2, <2>1, <2>2
    <2>3. ASSUME NEW packet \in {Aborted, Failed}, Obtain("recv", packet)
          PROVE  Incoming'
        <3>1. /\ inHand'["recv"] \notin Datagrams
              /\ inHand'["process"] = inHand["process"]
            BY <1>1, <1>5, <2>3 DEF Workers
        <3> HIDE DEF Early
        <3>2. QED
            BY <1>2, <2>1, <3>1
    <2>4. QED
        BY <2>1, <2>2, <2>3
<1>14. CASE SendPop \/ SendTo
    <2>1. /\ UNCHANGED <<handled, incoming, kernel, arrivals>>
          /\ Early' <=> Early
          /\ \/ UNCHANGED inHand
             \/ \E packet \in Packets : Obtain("send", packet)
        BY <1>1, <1>14 DEF SendPop, SendTo, Goto, Control, Threads, Nothing,
                           Data, Types
    <2>2. CASE UNCHANGED inHand
        BY <1>2, <2>1, <2>2
    <2>3. ASSUME NEW packet \in Packets, Obtain("send", packet)
          PROVE  Incoming'
        <3>1. UNCHANGED <<inHand["recv"], inHand["process"]>>
            BY <1>5, <2>3 DEF Workers
        <3> HIDE DEF Early
        <3>2. QED
            BY <1>2, <2>1, <3>1
    <2>4. QED
        BY <2>1, <2>2, <2>3
<1>15. ASSUME NEW t \in Workers, NEW next, CheckRunning(t, next)
       PROVE  Incoming'
    BY <1>2, <1>15 DEF CheckRunning, Goto, Control, Threads, Workers
<1>16. CASE Start \/ StopBegins \/ Joins
    BY <1>2, <1>16 DEF Start, StopBegins, Joins, Join, Goto, Control, Threads
<1>17. CASE GameLoopQueues \/ SendLook \/ ProcessLook \/ UNCHANGED vars
    BY <1>2, <1>17 DEF GameLoopQueues, SendLook, ProcessLook, Goto, Control,
                       Threads, vars
<1>18. QED
    BY <1>6, <1>7, <1>8, <1>9, <1>10, <1>11, <1>12, <1>13, <1>14, <1>15,
       <1>16, <1>17
       DEF Next, Stop, RecvLoop, SendLoop, ProcessLoop, Workers

LEMMA OrderInvariant == Spec => [](Outgoing /\ Incoming)
<1>1. Init => Outgoing /\ Incoming
    BY BoundAssumption DEF Init, Outgoing, Incoming, Ordered, Newer, Nothing,
       Increasing, Below, Above, Workers, Threads, Datagrams
<1>2. QED
    BY <1>1, OutgoingStep, IncomingStep, ControlInvariant, DataInvariant, PTL
       DEF Spec

\* Packets are neither duplicated nor reordered on the way to the handler
\* and to the network.
THEOREM OrderKept == Spec => []InOrder
<1>1. Data /\ Outgoing /\ Incoming => InOrder
    <2> SUFFICES ASSUME Data, Outgoing, Incoming PROVE InOrder
        OBVIOUS
    <2>1. /\ handled \in Nat /\ inHand["process"] \in Nat
          /\ incoming \in Seq(Nat) /\ sent \in Nat /\ inHand["send"] \in Nat
          /\ outgoing \in Seq(Nat)
        BY DEF Data, Types
    <2>2. Increasing(<<handled>> \o Taken("process") \o incoming)
        BY <2>1, OrderedIsIncreasing DEF Incoming, Taken
    <2>3. Increasing(<<sent>> \o Taken("send") \o outgoing)
        BY <2>1, OrderedIsIncreasing DEF Outgoing, Taken
    <2>4. QED
        BY <2>2, <2>3 DEF InOrder
<1>2. QED
    BY <1>1, DataInvariant, OrderInvariant, PTL
=============================================================================
