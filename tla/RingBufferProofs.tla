--------------------------- MODULE RingBufferProofs ---------------------------
(***************************************************************************)
(* Network::RingBuffer is a bounded FIFO queue for every capacity and every *)
(* element type: its index arithmetic never leaves the array, and every    *)
(* call answers what the queue of BoundedFifo.tla would.                   *)
(***************************************************************************)
EXTENDS RingBuffer, SequenceTheorems, TLAPS

\* Moving at most one whole turn around the ring from slot s: reduction
\* modulo Capacity is at most one subtraction.
LEMMA ModuloOneTurn ==
    ASSUME NEW s \in Slots, NEW n \in 0 .. Capacity
    PROVE  /\ (s + n) % Capacity = IF s + n < Capacity THEN s + n
                                                       ELSE s + n - Capacity
           /\ (s + n) % Capacity \in Slots
<1>1. Capacity \in Nat /\ Capacity > 0 /\ s \in 0 .. Capacity - 1
    BY CapacityAssumption DEF Slots
<1>2. CASE s + n < Capacity
    BY <1>1, <1>2 DEF Slots
<1>3. CASE s + n >= Capacity
    BY <1>1, <1>3 DEF Slots
<1>4. QED
    BY <1>1, <1>2, <1>3

-----------------------------------------------------------------------------
\* The invariant that carries the proof: the indices are in range, head is
\* count slots ahead of tail, and the slots between them hold items.
Inv == TypeOK /\ IndexInv /\ ContentsInv

\* The slot of the i-th oldest item.
SlotOf(i) == (tail + (i - 1)) % Capacity

LEMMA InitInv == Init => Inv
<1> SUFFICES ASSUME Init PROVE Inv
    OBVIOUS
<1>1. TypeOK
    BY CapacityAssumption DEF Init, TypeOK, Slots
<1>2. IndexInv
    <2>1. (0 + 0) % Capacity = 0
        BY CapacityAssumption, ModuloOneTurn DEF Slots
    <2>2. QED
        BY <2>1 DEF Init, IndexInv
<1>3. ContentsInv
    BY DEF Init, ContentsInv
<1>4. QED
    BY <1>1, <1>2, <1>3 DEF Inv

\* The slot the next push writes is none of those that hold items, unless
\* the buffer is full.
LEMMA HeldSlotIsNotHead ==
    ASSUME TypeOK, IndexInv, count /= Capacity, NEW i \in 1 .. count
    PROVE  SlotOf(i) \in Slots /\ SlotOf(i) /= head
<1>1. /\ tail \in Slots /\ Capacity \in Nat \ {0}
      /\ count \in 0 .. Capacity /\ count < Capacity
      /\ i - 1 \in 0 .. Capacity
    BY CapacityAssumption DEF TypeOK
<1>2. head = IF tail + count < Capacity THEN tail + count
                                        ELSE tail + count - Capacity
    <2>1. (tail + count) % Capacity
            = IF tail + count < Capacity THEN tail + count
                                         ELSE tail + count - Capacity
        BY <1>1, ModuloOneTurn
    <2>2. QED
        BY <2>1 DEF IndexInv
<1>3. /\ SlotOf(i) \in Slots
      /\ SlotOf(i) = IF tail + (i - 1) < Capacity
                     THEN tail + (i - 1) ELSE tail + (i - 1) - Capacity
    BY <1>1, ModuloOneTurn DEF SlotOf
<1>4. QED
    BY <1>1, <1>2, <1>3 DEF Slots

\* A full buffer refuses; any other one stores the item one slot ahead.
LEMMA PushInv ==
    ASSUME Inv, NEW item \in Items, Push(item)
    PROVE  Inv'
<1>1. CASE count = Capacity
    BY <1>1 DEF Inv, TypeOK, IndexInv, ContentsInv, Contents, Push
<1>2. CASE count /= Capacity
    <2>1. /\ buffer' = [buffer EXCEPT ![head] = item]
          /\ head' = NextSlot(head)
          /\ count' = count + 1
          /\ tail' = tail
        BY <1>2 DEF Push
    <2>2. /\ head \in Slots /\ tail \in Slots
          /\ count \in 0 .. Capacity - 1
          /\ buffer \in [Slots -> Items \cup {Nothing}]
          /\ head = (tail + count) % Capacity
          /\ Capacity \in Nat \ {0}
        BY <1>2, CapacityAssumption DEF Inv, TypeOK, IndexInv
    <2>3. head = IF tail + count < Capacity THEN tail + count
                                            ELSE tail + count - Capacity
        <3>1. count \in 0 .. Capacity
            BY <2>2
        <3>2. (tail + count) % Capacity
                = IF tail + count < Capacity THEN tail + count
                                             ELSE tail + count - Capacity
            BY <3>1, <2>2, ModuloOneTurn
        <3>3. QED
            BY <3>2, <2>2
    <2>4. NextSlot(head) = IF head + 1 < Capacity THEN head + 1
                                                  ELSE head + 1 - Capacity
        BY <2>2, ModuloOneTurn DEF NextSlot
    <2>5. TypeOK'
        BY <2>1, <2>2, <2>4 DEF TypeOK, Slots
    <2>6. IndexInv'
        <3>1. (tail + (count + 1)) % Capacity
                = IF tail + (count + 1) < Capacity
                  THEN tail + (count + 1) ELSE tail + (count + 1) - Capacity
            <4>1. count + 1 \in 0 .. Capacity
                BY <2>2
            <4>2. QED
                BY <4>1, <2>2, ModuloOneTurn
        <3>2. QED
            BY <3>1, <2>1, <2>2, <2>3, <2>4 DEF IndexInv, Slots
    <2>7. ContentsInv'
        <3> SUFFICES ASSUME NEW i \in 1 .. count + 1
                     PROVE  buffer'[SlotOf(i)] \in Items
            BY <2>1 DEF ContentsInv, Contents, SlotOf
        <3>1. CASE i = count + 1
            <4>1. SlotOf(i) = head
                BY <3>1, <2>2 DEF SlotOf
            <4>2. QED
                BY <4>1, <2>1, <2>2
        <3>2. CASE i \in 1 .. count
            <4>1. SlotOf(i) \in Slots /\ SlotOf(i) /= head
                BY <3>2, <1>2, HeldSlotIsNotHead DEF Inv
            <4>2. buffer[SlotOf(i)] \in Items
                BY <3>2 DEF Inv, ContentsInv, Contents, SlotOf
            <4>3. QED
                BY <4>1, <4>2, <2>1, <2>2
        <3>3. QED
            BY <3>1, <3>2, <2>2
    <2>8. QED
        BY <2>5, <2>6, <2>7 DEF Inv
<1>3. QED
    BY <1>1, <1>2

\* n slots after the slot that follows s is n + 1 slots after s.
LEMMA NextSlotShifts ==
    ASSUME NEW s \in Slots, NEW n \in 0 .. Capacity - 1
    PROVE  (NextSlot(s) + n) % Capacity = (s + (n + 1)) % Capacity
<1>1. /\ Capacity \in Nat \ {0}
      /\ 1 \in 0 .. Capacity
      /\ n \in 0 .. Capacity /\ n + 1 \in 0 .. Capacity
    BY CapacityAssumption
<1>2. /\ NextSlot(s) = IF s + 1 < Capacity THEN s + 1 ELSE s + 1 - Capacity
      /\ NextSlot(s) \in Slots
    BY <1>1, ModuloOneTurn DEF NextSlot
<1>3. (NextSlot(s) + n) % Capacity
        = IF NextSlot(s) + n < Capacity
          THEN NextSlot(s) + n ELSE NextSlot(s) + n - Capacity
    BY <1>1, <1>2, ModuloOneTurn
<1>4. (s + (n + 1)) % Capacity
        = IF s + (n + 1) < Capacity
          THEN s + (n + 1) ELSE s + (n + 1) - Capacity
    BY <1>1, ModuloOneTurn
<1>5. QED
    BY <1>1, <1>2, <1>3, <1>4 DEF Slots

\* Reading moves tail towards head: the window of held slots shrinks by its
\* first slot, and SlotOf(i) becomes what SlotOf(i + 1) was.
LEMMA PopInv ==
    ASSUME Inv, Pop
    PROVE  Inv'
<1>1. CASE count = 0
    BY <1>1 DEF Inv, TypeOK, IndexInv, ContentsInv, Contents, Pop
<1>2. CASE count /= 0
    <2>1. /\ tail' = NextSlot(tail)
          /\ count' = count - 1
          /\ buffer' = buffer
          /\ head' = head
        BY <1>2 DEF Pop
    <2>2. /\ head \in Slots /\ tail \in Slots
          /\ count \in 1 .. Capacity
          /\ buffer \in [Slots -> Items \cup {Nothing}]
          /\ head = (tail + count) % Capacity
          /\ Capacity \in Nat \ {0}
        BY <1>2, CapacityAssumption DEF Inv, TypeOK, IndexInv
    <2>3. head = IF tail + count < Capacity THEN tail + count
                                            ELSE tail + count - Capacity
        <3>1. count \in 0 .. Capacity
            BY <2>2
        <3>2. (tail + count) % Capacity
                = IF tail + count < Capacity THEN tail + count
                                             ELSE tail + count - Capacity
            BY <3>1, <2>2, ModuloOneTurn
        <3>3. QED
            BY <3>2, <2>2
    <2>4. /\ NextSlot(tail) = IF tail + 1 < Capacity THEN tail + 1
                                                     ELSE tail + 1 - Capacity
          /\ NextSlot(tail) \in Slots
        BY <2>2, ModuloOneTurn DEF NextSlot
    <2>5. TypeOK'
        BY <2>1, <2>2, <2>4 DEF TypeOK, Slots
    <2>6. \A n \in 0 .. Capacity - 1 :
            (NextSlot(tail) + n) % Capacity = (tail + (n + 1)) % Capacity
        BY <2>2, NextSlotShifts
    <2>7. IndexInv'
        <3>1. /\ count - 1 \in 0 .. Capacity - 1
              /\ (count - 1) + 1 = count
            BY <2>2
        <3>2. (NextSlot(tail) + (count - 1)) % Capacity
                = (tail + count) % Capacity
            BY <3>1, <2>6
        <3>3. QED
            BY <3>2, <2>1, <2>2 DEF IndexInv
    <2>8. ContentsInv'
        <3> SUFFICES ASSUME NEW i \in 1 .. count - 1
                     PROVE  buffer[(NextSlot(tail) + (i - 1)) % Capacity]
                              \in Items
            BY <2>1 DEF ContentsInv, Contents
        <3>1. /\ i - 1 \in 0 .. Capacity - 1
              /\ i + 1 \in 1 .. count
              /\ (i - 1) + 1 = i /\ (i + 1) - 1 = i
            BY <2>2
        <3>2. (NextSlot(tail) + (i - 1)) % Capacity = (tail + i) % Capacity
            BY <3>1, <2>6
        <3>3. buffer[(tail + ((i + 1) - 1)) % Capacity] \in Items
            BY <3>1 DEF Inv, ContentsInv, Contents
        <3>4. QED
            BY <3>1, <3>2, <3>3
    <2>9. QED
        BY <2>5, <2>7, <2>8 DEF Inv
<1>3. QED
    BY <1>1, <1>2

\* Only push and pop write the indices and the array.
LEMMA NextInv ==
    ASSUME Inv, [Next]_vars
    PROVE  Inv'
<1> USE DEF Inv, TypeOK, IndexInv, ContentsInv, Contents
<1>1. ASSUME NEW item \in Items, Push(item) PROVE Inv'
    BY <1>1, PushInv
<1>2. CASE Pop
    BY <1>2, PopInv
<1>3. CASE IsEmpty
    BY <1>3 DEF IsEmpty
<1>4. CASE IsFull
    BY <1>4 DEF IsFull
<1>5. CASE Count
    BY <1>5 DEF Count
<1>6. CASE UNCHANGED vars
    BY <1>6 DEF vars
<1>7. QED
    BY <1>1, <1>2, <1>3, <1>4, <1>5, <1>6 DEF Next

\* Whatever its capacity, the buffer's indices stay inside the array.
THEOREM TypeCorrect == Spec => []TypeOK
<1>1. Inv /\ [Next]_vars => Inv'
    BY NextInv
<1>2. QED
    BY InitInv, <1>1, PTL DEF Spec, Inv

\* Whatever its capacity, the write index is count slots ahead of the read
\* index: push and pop never let the three drift apart.
THEOREM IndexCorrect == Spec => []IndexInv
<1>1. Inv /\ [Next]_vars => Inv'
    BY NextInv
<1>2. QED
    BY InitInv, <1>1, PTL DEF Spec, Inv

\* Whatever its capacity, the slots between the indices were written by a
\* push and not overwritten since.
THEOREM ContentsCorrect == Spec => []ContentsInv
<1>1. Inv /\ [Next]_vars => Inv'
    BY NextInv
<1>2. QED
    BY InitInv, <1>1, PTL DEF Spec, Inv
-----------------------------------------------------------------------------
\* The mapped queue is a sequence of items of length count.
QueueFacts ==
    /\ Contents \in Seq(Items)
    /\ Len(Contents) = count
    /\ \A i \in 1 .. count : Contents[i] = buffer[SlotOf(i)]

LEMMA ContentsIsQueue == Inv => QueueFacts
<1> SUFFICES ASSUME Inv PROVE QueueFacts
    OBVIOUS
<1>1. count \in Nat
    BY CapacityAssumption DEF Inv, TypeOK
<1>2. Contents \in [1 .. count -> Items]
    BY DEF Inv, ContentsInv, Contents
<1>3. Contents \in Seq(Items) /\ Len(Contents) = count
    BY <1>1, <1>2
<1>4. QED
    BY <1>3 DEF QueueFacts, Contents, SlotOf

\* A push that finds room appends to the mapped queue.
LEMMA PushAppends ==
    ASSUME Inv, NEW item \in Items, Push(item), count /= Capacity
    PROVE  Contents' = Append(Contents, item)
<1>1. /\ buffer' = [buffer EXCEPT ![head] = item]
      /\ count' = count + 1
      /\ tail' = tail
    BY DEF Push
<1>2. /\ head \in Slots /\ tail \in Slots
      /\ count \in 0 .. Capacity - 1
      /\ buffer \in [Slots -> Items \cup {Nothing}]
      /\ Capacity \in Nat \ {0}
    BY CapacityAssumption DEF Inv, TypeOK
<1>3. Inv'
    BY PushInv
<1>4. /\ Contents' \in Seq(Items) /\ Len(Contents') = count + 1
      /\ \A i \in 1 .. count + 1 : Contents'[i] = buffer'[SlotOf(i)]
    <2>1. QueueFacts'
        BY <1>3, ContentsIsQueue, PTL
    <2>2. QED
        BY <2>1, <1>1 DEF QueueFacts, SlotOf
<1>5. /\ Append(Contents, item) \in Seq(Items)
      /\ Len(Append(Contents, item)) = count + 1
      /\ \A i \in 1 .. count + 1 :
            Append(Contents, item)[i] = IF i = count + 1 THEN item
                                                         ELSE Contents[i]
    BY <1>2, ContentsIsQueue DEF QueueFacts
<1>6. \A i \in 1 .. count + 1 : Contents'[i] = Append(Contents, item)[i]
    <2> SUFFICES ASSUME NEW i \in 1 .. count + 1
                 PROVE  Contents'[i] = Append(Contents, item)[i]
        OBVIOUS
    <2>1. CASE i = count + 1
        <3>1. SlotOf(i) = head
            BY <2>1, <1>2 DEF SlotOf, Inv, IndexInv
        <3>2. QED
            BY <3>1, <2>1, <1>1, <1>2, <1>4, <1>5
    <2>2. CASE i \in 1 .. count
        <3>1. SlotOf(i) \in Slots /\ SlotOf(i) /= head
            BY <2>2, <1>2, HeldSlotIsNotHead DEF Inv
        <3>2. buffer'[SlotOf(i)] = buffer[SlotOf(i)]
            BY <3>1, <1>1, <1>2
        <3>3. QED
            BY <3>2, <2>2, <1>2, <1>4, <1>5, ContentsIsQueue DEF QueueFacts
    <2>3. i = count + 1 \/ i \in 1 .. count
        BY <1>2
    <2>4. QED
        BY <2>1, <2>2, <2>3
<1>7. QED
    BY <1>4, <1>5, <1>6, SeqEqual

\* A pop that finds an item takes the head of the mapped queue.
LEMMA PopTakesHead ==
    ASSUME Inv, Pop, count /= 0
    PROVE  /\ Contents /= << >>
           /\ buffer[tail] = Head(Contents)
           /\ Contents' = Tail(Contents)
<1>1. /\ tail' = NextSlot(tail)
      /\ count' = count - 1
      /\ buffer' = buffer
    BY DEF Pop
<1>2. /\ tail \in Slots
      /\ count \in 1 .. Capacity
      /\ Capacity \in Nat \ {0}
    BY CapacityAssumption DEF Inv, TypeOK
<1>3. /\ Contents \in Seq(Items) /\ Len(Contents) = count
      /\ \A i \in 1 .. count : Contents[i] = buffer[SlotOf(i)]
    BY ContentsIsQueue DEF QueueFacts
<1>4. Contents /= << >>
    BY <1>2, <1>3
<1>5. buffer[tail] = Head(Contents)
    <2>1. tail % Capacity = tail
        BY <1>2 DEF Slots
    <2>2. SlotOf(1) = tail
        BY <2>1, <1>2 DEF SlotOf, Slots
    <2>3. QED
        BY <2>2, <1>2, <1>3
<1>6. /\ Contents' \in Seq(Items) /\ Len(Contents') = count - 1
      /\ \A i \in 1 .. count - 1 :
            Contents'[i] = buffer[(NextSlot(tail) + (i - 1)) % Capacity]
    <2>1. Inv'
        BY PopInv
    <2>2. QueueFacts'
        BY <2>1, ContentsIsQueue, PTL
    <2>3. QED
        BY <2>2, <1>1 DEF QueueFacts, SlotOf
<1>7. /\ Tail(Contents) \in Seq(Items) /\ Len(Tail(Contents)) = count - 1
      /\ \A i \in 1 .. count - 1 : Tail(Contents)[i] = Contents[i + 1]
    BY <1>2, <1>3, <1>4, HeadTailProperties
<1>8. \A i \in 1 .. count - 1 : Contents'[i] = Tail(Contents)[i]
    <2> SUFFICES ASSUME NEW i \in 1 .. count - 1
                 PROVE  Contents'[i] = Tail(Contents)[i]
        OBVIOUS
    <2>1. /\ i + 1 \in 1 .. count
          /\ i - 1 \in 0 .. Capacity - 1
          /\ (i - 1) + 1 = i /\ (i + 1) - 1 = i
        BY <1>2
    <2>2. (NextSlot(tail) + (i - 1)) % Capacity = SlotOf(i + 1)
        BY <2>1, <1>2, NextSlotShifts DEF SlotOf
    <2>3. QED
        BY <2>1, <2>2, <1>3, <1>6, <1>7
<1>9. QED
    BY <1>4, <1>5, <1>6, <1>7, <1>8, SeqEqual

LEMMA InitRefines == Init => Fifo!Init
<1> SUFFICES ASSUME Init PROVE Fifo!Init
    OBVIOUS
<1>1. Contents \in Seq(Items) /\ Len(Contents) = 0
    BY InitInv, ContentsIsQueue DEF QueueFacts, Init
<1>2. Contents = << >>
    BY <1>1
<1>3. QED
    BY <1>2 DEF Init, Fifo!Init

LEMMA StepRefines ==
    ASSUME Inv, [Next]_vars
    PROVE  [Fifo!Next]_(Fifo!vars)
<1>1. /\ Contents \in Seq(Items) /\ Len(Contents) = count
      /\ count \in Nat /\ count <= Capacity
    BY ContentsIsQueue, CapacityAssumption DEF QueueFacts, Inv, TypeOK
<1>2. ASSUME NEW item \in Items, Push(item) PROVE Fifo!Push(item)
    <2>1. CASE count = Capacity
        <3>1. Contents' = Contents
            BY <1>2, <2>1 DEF Push, Contents
        <3>2. QED
            BY <3>1, <1>1, <1>2, <2>1 DEF Push, Fifo!Push
    <2>2. CASE count /= Capacity
        <3>1. Contents' = Append(Contents, item)
            BY <1>2, <2>2, PushAppends
        <3>2. QED
            BY <3>1, <1>1, <1>2, <2>2, CapacityAssumption DEF Push, Fifo!Push
    <2>3. QED
        BY <2>1, <2>2
<1>3. CASE Pop
    <2>1. CASE count = 0
        <3>1. Contents' = Contents
            BY <1>3, <2>1 DEF Pop, Contents
        <3>2. QED
            BY <3>1, <1>1, <1>3, <2>1 DEF Pop, Fifo!Pop, Fifo!Next
    <2>2. CASE count /= 0
        <3>1. /\ Contents /= << >>
              /\ buffer[tail] = Head(Contents)
              /\ Contents' = Tail(Contents)
            BY <1>3, <2>2, PopTakesHead
        <3>2. QED
            BY <3>1, <1>3, <2>2 DEF Pop, Fifo!Pop, Fifo!Next
    <2>3. QED
        BY <2>1, <2>2
<1>4. Contents = << >> <=> count = 0
    BY <1>1
<1>5. ASSUME IsEmpty \/ IsFull \/ Count PROVE Fifo!Observe
    <2>1. Contents' = Contents
        BY <1>5 DEF IsEmpty, IsFull, Count, Contents
    <2>2. QED
        BY <2>1, <1>1, <1>4, <1>5 DEF IsEmpty, IsFull, Count, Fifo!Observe
<1>6. CASE UNCHANGED vars
    BY <1>6 DEF vars, Fifo!vars, Contents
<1>7. QED
    BY <1>2, <1>3, <1>5, <1>6 DEF Next, Fifo!Next

\* The ring buffer, results included, is a FIFO queue bounded by its capacity,
\* whatever the capacity and the items: no caller can tell _head, _tail and
\* _count from a queue.
THEOREM ImplementsFifo == Spec => FifoSpec
<1>1. Inv /\ [Next]_vars => Inv'
    BY NextInv
<1>2. Inv /\ [Next]_vars => [Fifo!Next]_(Fifo!vars)
    BY StepRefines
<1>3. QED
    BY InitInv, InitRefines, <1>1, <1>2, PTL DEF Spec, FifoSpec, Fifo!Spec
=============================================================================
