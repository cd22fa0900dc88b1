---------------------------- MODULE BoundedFifo ----------------------------
(***************************************************************************)
(* What Network::RingBuffer promises its callers: a FIFO queue of at most  *)
(* Capacity items, whose push refuses (and forgets) an item when the queue *)
(* is full and whose pop answers with nothing when it is empty.            *)
(*                                                                         *)
(* "result" is the value the last call returned: it is part of the promise *)
(* and so part of the refinement that RingBuffer.tla shows.                *)
(***************************************************************************)
EXTENDS Naturals, Sequences

CONSTANTS
    Items,      \* the element type T of the buffer
    Capacity,   \* its capacity, 1024 in both uses by UDPServer
    Nothing     \* std::nullopt

VARIABLES
    queue,      \* the items held, oldest first
    result      \* what the last call returned

vars == <<queue, result>>

Results ==
    [op : {"new"}]
        \cup [op : {"push", "isEmpty", "isFull"}, is : BOOLEAN]
        \cup [op : {"pop"}, item : Items \cup {Nothing}]
        \cup [op : {"count"}, n : 0 .. Capacity]

TypeOK ==
    /\ queue \in Seq(Items)
    /\ Len(queue) <= Capacity
    /\ result \in Results

Init ==
    /\ queue = << >>
    /\ result = [op |-> "new"]

Push(item) ==
    \/ /\ Len(queue) < Capacity
       /\ queue' = Append(queue, item)
       /\ result' = [op |-> "push", is |-> TRUE]
    \/ /\ Len(queue) = Capacity
       /\ result' = [op |-> "push", is |-> FALSE]
       /\ UNCHANGED queue

Pop ==
    \/ /\ queue /= << >>
       /\ queue' = Tail(queue)
       /\ result' = [op |-> "pop", item |-> Head(queue)]
    \/ /\ queue = << >>
       /\ result' = [op |-> "pop", item |-> Nothing]
       /\ UNCHANGED queue

Observe ==
    /\ result' \in {[op |-> "isEmpty", is |-> queue = << >>],
                    [op |-> "isFull",  is |-> Len(queue) = Capacity],
                    [op |-> "count",   n  |-> Len(queue)]}
    /\ UNCHANGED queue

Next ==
    \/ \E item \in Items : Push(item)
    \/ Pop
    \/ Observe

Spec == Init /\ [][Next]_vars
=============================================================================
