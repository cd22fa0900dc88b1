----------------------------- MODULE RingBuffer -----------------------------
(***************************************************************************)
(* Network::RingBuffer<T, Capacity> (Include/Network/RingBuffer.hpp): an   *)
(* array, the index _head of the next slot to write, the index _tail of    *)
(* the next slot to read, and the number _count of items between them.     *)
(* Every member function holds the buffer's own mutex from its first line  *)
(* to its last, so each one is a single action.                            *)
(***************************************************************************)
EXTENDS Naturals, Sequences

CONSTANTS Items, Capacity, Nothing

ASSUME CapacityAssumption == Capacity \in Nat \ {0}
ASSUME NothingAssumption  == Nothing \notin Items

VARIABLES
    buffer,     \* _buffer: what each slot holds, stale items included
    head,       \* _head
    tail,       \* _tail
    count,      \* _count
    result      \* the value returned by the last call

vars == <<buffer, head, tail, count, result>>

Slots == 0 .. Capacity - 1

\* The slot that follows slot s.
NextSlot(s) == (s + 1) % Capacity

TypeOK ==
    /\ buffer \in [Slots -> Items \cup {Nothing}]
    /\ head \in Slots
    /\ tail \in Slots
    /\ count \in 0 .. Capacity

-----------------------------------------------------------------------------
Init ==
    /\ buffer = [s \in Slots |-> Nothing]
    /\ head = 0
    /\ tail = 0
    /\ count = 0
    /\ result = [op |-> "new"]

\* Mutant: the fullness test is missing, so that a push into a full buffer
\* overwrites the oldest item.
PushOverwrites(item) ==
    /\ buffer' = [buffer EXCEPT ![head] = item]
    /\ head' = NextSlot(head)
    /\ count' = IF count = Capacity THEN count ELSE count + 1
    /\ result' = [op |-> "push", is |-> TRUE]
    /\ UNCHANGED tail

Push(item) ==
    \/ /\ count = Capacity
       /\ result' = [op |-> "push", is |-> FALSE]
       /\ UNCHANGED <<buffer, head, tail, count>>
    \/ /\ count /= Capacity
       /\ buffer' = [buffer EXCEPT ![head] = item]
       /\ head' = NextSlot(head)
       /\ count' = count + 1
       /\ result' = [op |-> "push", is |-> TRUE]
       /\ UNCHANGED tail

Pop ==
    \/ /\ count = 0
       /\ result' = [op |-> "pop", item |-> Nothing]
       /\ UNCHANGED <<buffer, head, tail, count>>
    \/ /\ count /= 0
       /\ result' = [op |-> "pop", item |-> buffer[tail]]
       /\ tail' = NextSlot(tail)
       /\ count' = count - 1
       /\ UNCHANGED <<buffer, head>>

IsEmpty ==
    /\ result' = [op |-> "isEmpty", is |-> count = 0]
    /\ UNCHANGED <<buffer, head, tail, count>>

IsFull ==
    /\ result' = [op |-> "isFull", is |-> count = Capacity]
    /\ UNCHANGED <<buffer, head, tail, count>>

Count ==
    /\ result' = [op |-> "count", n |-> count]
    /\ UNCHANGED <<buffer, head, tail, count>>

Next ==
    \/ \E item \in Items : Push(item)
    \/ Pop
    \/ IsEmpty
    \/ IsFull
    \/ Count

Spec == Init /\ [][Next]_vars

-----------------------------------------------------------------------------
\* The items in the buffer, oldest first: the abstract queue it stands for.
Contents == [i \in 1 .. count |-> buffer[(tail + (i - 1)) % Capacity]]

\* The write index is always _count slots ahead of the read index. _head,
\* _tail and _count are updated separately by push and pop, so the three
\* could drift apart; once they had, pop would return overwritten or
\* never-written slots without any test of _count noticing.
IndexInv == head = (tail + count) % Capacity

\* The slots between _tail and _head hold items, never a slot that was not
\* written since construction.
ContentsInv == \A i \in 1 .. count : Contents[i] \in Items

\* The buffer with its wrap-around indices behaves, results included, as a
\* bounded FIFO queue.
Fifo == INSTANCE BoundedFifo WITH queue <- Contents
FifoSpec == Fifo!Spec
=============================================================================
