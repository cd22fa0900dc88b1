-------------------------- MODULE GameLocksProofs --------------------------
(***************************************************************************)
(* GameLocks for any number of clients. The programs keep two disciplines: *)
(* mutexes are taken in one order, and most objects have a mutex that      *)
(* whoever uses them holds. From the first alone follow that there is no   *)
(* deadlock and that no chat holds up the game; races are confined by the  *)
(* second and by mutual exclusion, which is inductive.                     *)
(***************************************************************************)
EXTENDS GameLocks, TLAPS

\* From holding h a thread may go on to hold g.
InOrder(h, g) ==
    /\ "A" \in g \ h => h = {}
    /\ "E" \in g \ h => h \subseteq {"A"}
    /\ "P" \in g \ h => h \subseteq {"A", "E"}
    /\ "B" \in g => g = {"B"} /\ h \in {{}, {"B"}}

Fits(h, g) == g \subseteq Locks /\ InOrder(h, g)

Orderly(p) ==
    /\ Len(p) \in Nat
    /\ Len(p) > 0 => Fits({}, p[1].held)
    /\ \A i \in 1 .. Len(p) - 1 : Fits(p[i].held, p[i + 1].held)

Names == Shared \cup Locks \cup {"own_socket", "other_sockets"}

Named(x) == \A y \in x.uses : y.object \in Names

\* The objects that are under the same mutex for all threads.
Guarded(x) ==
    \A y \in x.uses :
        /\ y.object = "status" => "A" \in x.held
        /\ y.object \in {"sockets", "other_sockets"} => "B" \in x.held
        /\ y.object \in {"A", "B"} => y.op = "read"
        /\ y.op = "send" => "A" \notin x.held /\ "E" \notin x.held
                            /\ "P" \notin x.held

\* The objects that all threads but "udp" use under the server's mutex.
Serial(x) ==
    \A y \in x.uses :
        y.object \in {"rooms", "players", "entities", "E", "P"}
        => "A" \in x.held

\* What is so in a Game as long as it is not deleted.
Intact(x) ==
    \A y \in x.uses :
        /\ y.object = "entities" => "E" \in x.held
        /\ y.object \in {"E", "P"} => y.op = "read" /\ y.object \in x.held

OffClients(x) == "B" \notin x.held /\ \A y \in x.uses : y.op /= "send"

NotOfClients(x) ==
    \A y \in x.uses : y.object \notin {"nextPlayerId", "own_socket"}

NotOfStop(x) == \A y \in x.uses : y.object /= "acceptor"

-----------------------------------------------------------------------------
(* The programs, one by one.                                               *)

LEMMA GameUpdateOrderly ==
    /\ Orderly(GameUpdate)
    /\ \A i \in 1 .. Len(GameUpdate) :
         /\ Named(GameUpdate[i])
         /\ Guarded(GameUpdate[i])
         /\ Serial(GameUpdate[i])
         /\ Intact(GameUpdate[i])
         /\ OffClients(GameUpdate[i])
         /\ NotOfClients(GameUpdate[i])
         /\ NotOfStop(GameUpdate[i])
<1>1. Len(GameUpdate) = 14
  BY DEF GameUpdate
<1>2. /\ Fits({}, GameUpdate[1].held)
      /\ Fits(GameUpdate[1].held, GameUpdate[2].held)
      /\ Fits(GameUpdate[2].held, GameUpdate[3].held)
      /\ Fits(GameUpdate[3].held, GameUpdate[4].held)
      /\ Fits(GameUpdate[4].held, GameUpdate[5].held)
      /\ Fits(GameUpdate[5].held, GameUpdate[6].held)
      /\ Fits(GameUpdate[6].held, GameUpdate[7].held)
      /\ Fits(GameUpdate[7].held, GameUpdate[8].held)
      /\ Fits(GameUpdate[8].held, GameUpdate[9].held)
      /\ Fits(GameUpdate[9].held, GameUpdate[10].held)
      /\ Fits(GameUpdate[10].held, GameUpdate[11].held)
      /\ Fits(GameUpdate[11].held, GameUpdate[12].held)
      /\ Fits(GameUpdate[12].held, GameUpdate[13].held)
      /\ Fits(GameUpdate[13].held, GameUpdate[14].held)
  BY DEF GameUpdate, At, Fits, InOrder, Locks
<1>3. \A i \in 1 .. 14 : Named(GameUpdate[i])
  <2>1. Named(GameUpdate[1])
    BY DEF GameUpdate, At, Read, Write, Send, Use, Named, Names,
         Shared, Locks
  <2>2. Named(GameUpdate[2])
    BY DEF GameUpdate, At, Read, Write, Send, Use, Named, Names,
         Shared, Locks
  <2>3. Named(GameUpdate[3])
    BY DEF GameUpdate, At, Read, Write, Send, Use, Named, Names,
         Shared, Locks
  <2>4. Named(GameUpdate[4])
    BY DEF GameUpdate, At, Read, Write, Send, Use, Named, Names,
         Shared, Locks
  <2>5. Named(GameUpdate[5])
    BY DEF GameUpdate, At, Read, Write, Send, Use, Named, Names,
         Shared, Locks
  <2>6. Named(GameUpdate[6])
    BY DEF GameUpdate, At, Read, Write, Send, Use, Named, Names,
         Shared, Locks
  <2>7. Named(GameUpdate[7])
    BY DEF GameUpdate, At, Read, Write, Send, Use, Named, Names,
         Shared, Locks
  <2>8. Named(GameUpdate[8])
    BY DEF GameUpdate, At, Read, Write, Send, Use, Named, Names,
         Shared, Locks
  <2>9. Named(GameUpdate[9])
    BY DEF GameUpdate, At, Read, Write, Send, Use, Named, Names,
         Shared, Locks
  <2>10. Named(GameUpdate[10])
    BY DEF GameUpdate, At, Read, Write, Send, Use, Named, Names,
         Shared, Locks
  <2>11. Named(GameUpdate[11])
    BY DEF GameUpdate, At, Read, Write, Send, Use, Named, Names,
         Shared, Locks
  <2>12. Named(GameUpdate[12])
    BY DEF GameUpdate, At, Read, Write, Send, Use, Named, Names,
         Shared, Locks
  <2>13. Named(GameUpdate[13])
    BY DEF GameUpdate, At, Read, Write, Send, Use, Named, Names,
         Shared, Locks
  <2>14. Named(GameUpdate[14])
    BY DEF GameUpdate, At, Read, Write, Send, Use, Named, Names,
         Shared, Locks
  <2> QED
    BY <2>1, <2>2, <2>3, <2>4, <2>5, <2>6, <2>7, <2>8, <2>9, <2>10, <2>11, <2>12, <2>13, <2>14
<1>4. \A i \in 1 .. 14 : Guarded(GameUpdate[i])
  <2>1. Guarded(GameUpdate[1])
    BY DEF GameUpdate, At, Read, Write, Send, Use, Guarded
  <2>2. Guarded(GameUpdate[2])
    BY DEF GameUpdate, At, Read, Write, Send, Use, Guarded
  <2>3. Guarded(GameUpdate[3])
    BY DEF GameUpdate, At, Read, Write, Send, Use, Guarded
  <2>4. Guarded(GameUpdate[4])
    BY DEF GameUpdate, At, Read, Write, Send, Use, Guarded
  <2>5. Guarded(GameUpdate[5])
    BY DEF GameUpdate, At, Read, Write, Send, Use, Guarded
  <2>6. Guarded(GameUpdate[6])
    BY DEF GameUpdate, At, Read, Write, Send, Use, Guarded
  <2>7. Guarded(GameUpdate[7])
    BY DEF GameUpdate, At, Read, Write, Send, Use, Guarded
  <2>8. Guarded(GameUpdate[8])
    BY DEF GameUpdate, At, Read, Write, Send, Use, Guarded
  <2>9. Guarded(GameUpdate[9])
    BY DEF GameUpdate, At, Read, Write, Send, Use, Guarded
  <2>10. Guarded(GameUpdate[10])
    BY DEF GameUpdate, At, Read, Write, Send, Use, Guarded
  <2>11. Guarded(GameUpdate[11])
    BY DEF GameUpdate, At, Read, Write, Send, Use, Guarded
  <2>12. Guarded(GameUpdate[12])
    BY DEF GameUpdate, At, Read, Write, Send, Use, Guarded
  <2>13. Guarded(GameUpdate[13])
    BY DEF GameUpdate, At, Read, Write, Send, Use, Guarded
  <2>14. Guarded(GameUpdate[14])
    BY DEF GameUpdate, At, Read, Write, Send, Use, Guarded
  <2> QED
    BY <2>1, <2>2, <2>3, <2>4, <2>5, <2>6, <2>7, <2>8, <2>9, <2>10, <2>11, <2>12, <2>13, <2>14
<1>5. \A i \in 1 .. 14 : Serial(GameUpdate[i])
  <2>1. Serial(GameUpdate[1])
    BY DEF GameUpdate, At, Read, Write, Send, Use, Serial
  <2>2. Serial(GameUpdate[2])
    BY DEF GameUpdate, At, Read, Write, Send, Use, Serial
  <2>3. Serial(GameUpdate[3])
    BY DEF GameUpdate, At, Read, Write, Send, Use, Serial
  <2>4. Serial(GameUpdate[4])
    BY DEF GameUpdate, At, Read, Write, Send, Use, Serial
  <2>5. Serial(GameUpdate[5])
    BY DEF GameUpdate, At, Read, Write, Send, Use, Serial
  <2>6. Serial(GameUpdate[6])
    BY DEF GameUpdate, At, Read, Write, Send, Use, Serial
  <2>7. Serial(GameUpdate[7])
    BY DEF GameUpdate, At, Read, Write, Send, Use, Serial
  <2>8. Serial(GameUpdate[8])
    BY DEF GameUpdate, At, Read, Write, Send, Use, Serial
  <2>9. Serial(GameUpdate[9])
    BY DEF GameUpdate, At, Read, Write, Send, Use, Serial
  <2>10. Serial(GameUpdate[10])
    BY DEF GameUpdate, At, Read, Write, Send, Use, Serial
  <2>11. Serial(GameUpdate[11])
    BY DEF GameUpdate, At, Read, Write, Send, Use, Serial
  <2>12. Serial(GameUpdate[12])
    BY DEF GameUpdate, At, Read, Write, Send, Use, Serial
  <2>13. Serial(GameUpdate[13])
    BY DEF GameUpdate, At, Read, Write, Send, Use, Serial
  <2>14. Serial(GameUpdate[14])
    BY DEF GameUpdate, At, Read, Write, Send, Use, Serial
  <2> QED
    BY <2>1, <2>2, <2>3, <2>4, <2>5, <2>6, <2>7, <2>8, <2>9, <2>10, <2>11, <2>12, <2>13, <2>14
<1>6. \A i \in 1 .. 14 : Intact(GameUpdate[i])
  <2>1. Intact(GameUpdate[1])
    BY DEF GameUpdate, At, Read, Write, Send, Use, Intact
  <2>2. Intact(GameUpdate[2])
    BY DEF GameUpdate, At, Read, Write, Send, Use, Intact
  <2>3. Intact(GameUpdate[3])
    BY DEF GameUpdate, At, Read, Write, Send, Use, Intact
  <2>4. Intact(GameUpdate[4])
    BY DEF GameUpdate, At, Read, Write, Send, Use, Intact
  <2>5. Intact(GameUpdate[5])
    BY DEF GameUpdate, At, Read, Write, Send, Use, Intact
  <2>6. Intact(GameUpdate[6])
    BY DEF GameUpdate, At, Read, Write, Send, Use, Intact
  <2>7. Intact(GameUpdate[7])
    BY DEF GameUpdate, At, Read, Write, Send, Use, Intact
  <2>8. Intact(GameUpdate[8])
    BY DEF GameUpdate, At, Read, Write, Send, Use, Intact
  <2>9. Intact(GameUpdate[9])
    BY DEF GameUpdate, At, Read, Write, Send, Use, Intact
  <2>10. Intact(GameUpdate[10])
    BY DEF GameUpdate, At, Read, Write, Send, Use, Intact
  <2>11. Intact(GameUpdate[11])
    BY DEF GameUpdate, At, Read, Write, Send, Use, Intact
  <2>12. Intact(GameUpdate[12])
    BY DEF GameUpdate, At, Read, Write, Send, Use, Intact
  <2>13. Intact(GameUpdate[13])
    BY DEF GameUpdate, At, Read, Write, Send, Use, Intact
  <2>14. Intact(GameUpdate[14])
    BY DEF GameUpdate, At, Read, Write, Send, Use, Intact
  <2> QED
    BY <2>1, <2>2, <2>3, <2>4, <2>5, <2>6, <2>7, <2>8, <2>9, <2>10, <2>11, <2>12, <2>13, <2>14
<1>7. \A i \in 1 .. 14 : OffClients(GameUpdate[i])
  <2>1. OffClients(GameUpdate[1])
    BY DEF GameUpdate, At, Read, Write, Send, Use, OffClients
  <2>2. OffClients(GameUpdate[2])
    BY DEF GameUpdate, At, Read, Write, Send, Use, OffClients
  <2>3. OffClients(GameUpdate[3])
    BY DEF GameUpdate, At, Read, Write, Send, Use, OffClients
  <2>4. OffClients(GameUpdate[4])
    BY DEF GameUpdate, At, Read, Write, Send, Use, OffClients
  <2>5. OffClients(GameUpdate[5])
    BY DEF GameUpdate, At, Read, Write, Send, Use, OffClients
  <2>6. OffClients(GameUpdate[6])
    BY DEF GameUpdate, At, Read, Write, Send, Use, OffClients
  <2>7. OffClients(GameUpdate[7])
    BY DEF GameUpdate, At, Read, Write, Send, Use, OffClients
  <2>8. OffClients(GameUpdate[8])
    BY DEF GameUpdate, At, Read, Write, Send, Use, OffClients
  <2>9. OffClients(GameUpdate[9])
    BY DEF GameUpdate, At, Read, Write, Send, Use, OffClients
  <2>10. OffClients(GameUpdate[10])
    BY DEF GameUpdate, At, Read, Write, Send, Use, OffClients
  <2>11. OffClients(GameUpdate[11])
    BY DEF GameUpdate, At, Read, Write, Send, Use, OffClients
  <2>12. OffClients(GameUpdate[12])
    BY DEF GameUpdate, At, Read, Write, Send, Use, OffClients
  <2>13. OffClients(GameUpdate[13])
    BY DEF GameUpdate, At, Read, Write, Send, Use, OffClients
  <2>14. OffClients(GameUpdate[14])
    BY DEF GameUpdate, At, Read, Write, Send, Use, OffClients
  <2> QED
    BY <2>1, <2>2, <2>3, <2>4, <2>5, <2>6, <2>7, <2>8, <2>9, <2>10, <2>11, <2>12, <2>13, <2>14
<1>8. \A i \in 1 .. 14 : NotOfClients(GameUpdate[i])
  <2>1. NotOfClients(GameUpdate[1])
    BY DEF GameUpdate, At, Read, Write, Send, Use, NotOfClients
  <2>2. NotOfClients(GameUpdate[2])
    BY DEF GameUpdate, At, Read, Write, Send, Use, NotOfClients
  <2>3. NotOfClients(GameUpdate[3])
    BY DEF GameUpdate, At, Read, Write, Send, Use, NotOfClients
  <2>4. NotOfClients(GameUpdate[4])
    BY DEF GameUpdate, At, Read, Write, Send, Use, NotOfClients
  <2>5. NotOfClients(GameUpdate[5])
    BY DEF GameUpdate, At, Read, Write, Send, Use, NotOfClients
  <2>6. NotOfClients(GameUpdate[6])
    BY DEF GameUpdate, At, Read, Write, Send, Use, NotOfClients
  <2>7. NotOfClients(GameUpdate[7])
    BY DEF GameUpdate, At, Read, Write, Send, Use, NotOfClients
  <2>8. NotOfClients(GameUpdate[8])
    BY DEF GameUpdate, At, Read, Write, Send, Use, NotOfClients
  <2>9. NotOfClients(GameUpdate[9])
    BY DEF GameUpdate, At, Read, Write, Send, Use, NotOfClients
  <2>10. NotOfClients(GameUpdate[10])
    BY DEF GameUpdate, At, Read, Write, Send, Use, NotOfClients
  <2>11. NotOfClients(GameUpdate[11])
    BY DEF GameUpdate, At, Read, Write, Send, Use, NotOfClients
  <2>12. NotOfClients(GameUpdate[12])
    BY DEF GameUpdate, At, Read, Write, Send, Use, NotOfClients
  <2>13. NotOfClients(GameUpdate[13])
    BY DEF GameUpdate, At, Read, Write, Send, Use, NotOfClients
  <2>14. NotOfClients(GameUpdate[14])
    BY DEF GameUpdate, At, Read, Write, Send, Use, NotOfClients
  <2> QED
    BY <2>1, <2>2, <2>3, <2>4, <2>5, <2>6, <2>7, <2>8, <2>9, <2>10, <2>11, <2>12, <2>13, <2>14
<1>9. \A i \in 1 .. 14 : NotOfStop(GameUpdate[i])
  <2>1. NotOfStop(GameUpdate[1])
    BY DEF GameUpdate, At, Read, Write, Send, Use, NotOfStop
  <2>2. NotOfStop(GameUpdate[2])
    BY DEF GameUpdate, At, Read, Write, Send, Use, NotOfStop
  <2>3. NotOfStop(GameUpdate[3])
    BY DEF GameUpdate, At, Read, Write, Send, Use, NotOfStop
  <2>4. NotOfStop(GameUpdate[4])
    BY DEF GameUpdate, At, Read, Write, Send, Use, NotOfStop
  <2>5. NotOfStop(GameUpdate[5])
    BY DEF GameUpdate, At, Read, Write, Send, Use, NotOfStop
  <2>6. NotOfStop(GameUpdate[6])
    BY DEF GameUpdate, At, Read, Write, Send, Use, NotOfStop
  <2>7. NotOfStop(GameUpdate[7])
    BY DEF GameUpdate, At, Read, Write, Send, Use, NotOfStop
  <2>8. NotOfStop(GameUpdate[8])
    BY DEF GameUpdate, At, Read, Write, Send, Use, NotOfStop
  <2>9. NotOfStop(GameUpdate[9])
    BY DEF GameUpdate, At, Read, Write, Send, Use, NotOfStop
  <2>10. NotOfStop(GameUpdate[10])
    BY DEF GameUpdate, At, Read, Write, Send, Use, NotOfStop
  <2>11. NotOfStop(GameUpdate[11])
    BY DEF GameUpdate, At, Read, Write, Send, Use, NotOfStop
  <2>12. NotOfStop(GameUpdate[12])
    BY DEF GameUpdate, At, Read, Write, Send, Use, NotOfStop
  <2>13. NotOfStop(GameUpdate[13])
    BY DEF GameUpdate, At, Read, Write, Send, Use, NotOfStop
  <2>14. NotOfStop(GameUpdate[14])
    BY DEF GameUpdate, At, Read, Write, Send, Use, NotOfStop
  <2> QED
    BY <2>1, <2>2, <2>3, <2>4, <2>5, <2>6, <2>7, <2>8, <2>9, <2>10, <2>11, <2>12, <2>13, <2>14
<1> QED
  BY <1>1, <1>2, <1>3, <1>4, <1>5, <1>6, <1>7, <1>8, <1>9 DEF Orderly

LEMMA StopOrderly ==
    /\ Orderly(Stop)
    /\ \A i \in 1 .. Len(Stop) :
         /\ Named(Stop[i])
         /\ Guarded(Stop[i])
         /\ Serial(Stop[i])
         /\ Intact(Stop[i])
         /\ NotOfClients(Stop[i])
<1>1. Len(Stop) = 2
  BY DEF Stop
<1>2. /\ Fits({}, Stop[1].held)
      /\ Fits(Stop[1].held, Stop[2].held)
  BY DEF Stop, At, Fits, InOrder, Locks
<1>3. /\ Named(Stop[1])
      /\ Named(Stop[2])
  BY DEF Stop, At, Read, Write, Send, Use, Named, Names,
         Shared, Locks
<1>4. /\ Guarded(Stop[1])
      /\ Guarded(Stop[2])
  BY DEF Stop, At, Read, Write, Send, Use, Guarded
<1>5. /\ Serial(Stop[1])
      /\ Serial(Stop[2])
  BY DEF Stop, At, Read, Write, Send, Use, Serial
<1>6. /\ Intact(Stop[1])
      /\ Intact(Stop[2])
  BY DEF Stop, At, Read, Write, Send, Use, Intact
<1>7. /\ NotOfClients(Stop[1])
      /\ NotOfClients(Stop[2])
  BY DEF Stop, At, Read, Write, Send, Use, NotOfClients
<1> QED
  BY <1>1, <1>2, <1>3, <1>4, <1>5, <1>6, <1>7 DEF Orderly

LEMMA HandleInputOrderly ==
    /\ Orderly(HandleInput)
    /\ \A i \in 1 .. Len(HandleInput) :
         /\ Named(HandleInput[i])
         /\ Guarded(HandleInput[i])
         /\ Intact(HandleInput[i])
         /\ OffClients(HandleInput[i])
         /\ NotOfClients(HandleInput[i])
         /\ NotOfStop(HandleInput[i])
<1>1. Len(HandleInput) = 13
  BY DEF HandleInput
<1>2. /\ Fits({}, HandleInput[1].held)
      /\ Fits(HandleInput[1].held, HandleInput[2].held)
      /\ Fits(HandleInput[2].held, HandleInput[3].held)
      /\ Fits(HandleInput[3].held, HandleInput[4].held)
      /\ Fits(HandleInput[4].held, HandleInput[5].held)
      /\ Fits(HandleInput[5].held, HandleInput[6].held)
      /\ Fits(HandleInput[6].held, HandleInput[7].held)
      /\ Fits(HandleInput[7].held, HandleInput[8].held)
      /\ Fits(HandleInput[8].held, HandleInput[9].held)
      /\ Fits(HandleInput[9].held, HandleInput[10].held)
      /\ Fits(HandleInput[10].held, HandleInput[11].held)
      /\ Fits(HandleInput[11].held, HandleInput[12].held)
      /\ Fits(HandleInput[12].held, HandleInput[13].held)
  BY DEF HandleInput, At, Fits, InOrder, Locks
<1>3. \A i \in 1 .. 13 : Named(HandleInput[i])
  <2>1. Named(HandleInput[1])
    BY DEF HandleInput, At, Read, Write, Send, Use, Named, Names,
         Shared, Locks
  <2>2. Named(HandleInput[2])
    BY DEF HandleInput, At, Read, Write, Send, Use, Named, Names,
         Shared, Locks
  <2>3. Named(HandleInput[3])
    BY DEF HandleInput, At, Read, Write, Send, Use, Named, Names,
         Shared, Locks
  <2>4. Named(HandleInput[4])
    BY DEF HandleInput, At, Read, Write, Send, Use, Named, Names,
         Shared, Locks
  <2>5. Named(HandleInput[5])
    BY DEF HandleInput, At, Read, Write, Send, Use, Named, Names,
         Shared, Locks
  <2>6. Named(HandleInput[6])
    BY DEF HandleInput, At, Read, Write, Send, Use, Named, Names,
         Shared, Locks
  <2>7. Named(HandleInput[7])
    BY DEF HandleInput, At, Read, Write, Send, Use, Named, Names,
         Shared, Locks
  <2>8. Named(HandleInput[8])
    BY DEF HandleInput, At, Read, Write, Send, Use, Named, Names,
         Shared, Locks
  <2>9. Named(HandleInput[9])
    BY DEF HandleInput, At, Read, Write, Send, Use, Named, Names,
         Shared, Locks
  <2>10. Named(HandleInput[10])
    BY DEF HandleInput, At, Read, Write, Send, Use, Named, Names,
         Shared, Locks
  <2>11. Named(HandleInput[11])
    BY DEF HandleInput, At, Read, Write, Send, Use, Named, Names,
         Shared, Locks
  <2>12. Named(HandleInput[12])
    BY DEF HandleInput, At, Read, Write, Send, Use, Named, Names,
         Shared, Locks
  <2>13. Named(HandleInput[13])
    BY DEF HandleInput, At, Read, Write, Send, Use, Named, Names,
         Shared, Locks
  <2> QED
    BY <2>1, <2>2, <2>3, <2>4, <2>5, <2>6, <2>7, <2>8, <2>9, <2>10, <2>11, <2>12, <2>13
<1>4. \A i \in 1 .. 13 : Guarded(HandleInput[i])
  <2>1. Guarded(HandleInput[1])
    BY DEF HandleInput, At, Read, Write, Send, Use, Guarded
  <2>2. Guarded(HandleInput[2])
    BY DEF HandleInput, At, Read, Write, Send, Use, Guarded
  <2>3. Guarded(HandleInput[3])
    BY DEF HandleInput, At, Read, Write, Send, Use, Guarded
  <2>4. Guarded(HandleInput[4])
    BY DEF HandleInput, At, Read, Write, Send, Use, Guarded
  <2>5. Guarded(HandleInput[5])
    BY DEF HandleInput, At, Read, Write, Send, Use, Guarded
  <2>6. Guarded(HandleInput[6])
    BY DEF HandleInput, At, Read, Write, Send, Use, Guarded
  <2>7. Guarded(HandleInput[7])
    BY DEF HandleInput, At, Read, Write, Send, Use, Guarded
  <2>8. Guarded(HandleInput[8])
    BY DEF HandleInput, At, Read, Write, Send, Use, Guarded
  <2>9. Guarded(HandleInput[9])
    BY DEF HandleInput, At, Read, Write, Send, Use, Guarded
  <2>10. Guarded(HandleInput[10])
    BY DEF HandleInput, At, Read, Write, Send, Use, Guarded
  <2>11. Guarded(HandleInput[11])
    BY DEF HandleInput, At, Read, Write, Send, Use, Guarded
  <2>12. Guarded(HandleInput[12])
    BY DEF HandleInput, At, Read, Write, Send, Use, Guarded
  <2>13. Guarded(HandleInput[13])
    BY DEF HandleInput, At, Read, Write, Send, Use, Guarded
  <2> QED
    BY <2>1, <2>2, <2>3, <2>4, <2>5, <2>6, <2>7, <2>8, <2>9, <2>10, <2>11, <2>12, <2>13
<1>5. \A i \in 1 .. 13 : Intact(HandleInput[i])
  <2>1. Intact(HandleInput[1])
    BY DEF HandleInput, At, Read, Write, Send, Use, Intact
  <2>2. Intact(HandleInput[2])
    BY DEF HandleInput, At, Read, Write, Send, Use, Intact
  <2>3. Intact(HandleInput[3])
    BY DEF HandleInput, At, Read, Write, Send, Use, Intact
  <2>4. Intact(HandleInput[4])
    BY DEF HandleInput, At, Read, Write, Send, Use, Intact
  <2>5. Intact(HandleInput[5])
    BY DEF HandleInput, At, Read, Write, Send, Use, Intact
  <2>6. Intact(HandleInput[6])
    BY DEF HandleInput, At, Read, Write, Send, Use, Intact
  <2>7. Intact(HandleInput[7])
    BY DEF HandleInput, At, Read, Write, Send, Use, Intact
  <2>8. Intact(HandleInput[8])
    BY DEF HandleInput, At, Read, Write, Send, Use, Intact
  <2>9. Intact(HandleInput[9])
    BY DEF HandleInput, At, Read, Write, Send, Use, Intact
  <2>10. Intact(HandleInput[10])
    BY DEF HandleInput, At, Read, Write, Send, Use, Intact
  <2>11. Intact(HandleInput[11])
    BY DEF HandleInput, At, Read, Write, Send, Use, Intact
  <2>12. Intact(HandleInput[12])
    BY DEF HandleInput, At, Read, Write, Send, Use, Intact
  <2>13. Intact(HandleInput[13])
    BY DEF HandleInput, At, Read, Write, Send, Use, Intact
  <2> QED
    BY <2>1, <2>2, <2>3, <2>4, <2>5, <2>6, <2>7, <2>8, <2>9, <2>10, <2>11, <2>12, <2>13
<1>6. \A i \in 1 .. 13 : OffClients(HandleInput[i])
  <2>1. OffClients(HandleInput[1])
    BY DEF HandleInput, At, Read, Write, Send, Use, OffClients
  <2>2. OffClients(HandleInput[2])
    BY DEF HandleInput, At, Read, Write, Send, Use, OffClients
  <2>3. OffClients(HandleInput[3])
    BY DEF HandleInput, At, Read, Write, Send, Use, OffClients
  <2>4. OffClients(HandleInput[4])
    BY DEF HandleInput, At, Read, Write, Send, Use, OffClients
  <2>5. OffClients(HandleInput[5])
    BY DEF HandleInput, At, Read, Write, Send, Use, OffClients
  <2>6. OffClients(HandleInput[6])
    BY DEF HandleInput, At, Read, Write, Send, Use, OffClients
  <2>7. OffClients(HandleInput[7])
    BY DEF HandleInput, At, Read, Write, Send, Use, OffClients
  <2>8. OffClients(HandleInput[8])
    BY DEF HandleInput, At, Read, Write, Send, Use, OffClients
  <2>9. OffClients(HandleInput[9])
    BY DEF HandleInput, At, Read, Write, Send, Use, OffClients
  <2>10. OffClients(HandleInput[10])
    BY DEF HandleInput, At, Read, Write, Send, Use, OffClients
  <2>11. OffClients(HandleInput[11])
    BY DEF HandleInput, At, Read, Write, Send, Use, OffClients
  <2>12. OffClients(HandleInput[12])
    BY DEF HandleInput, At, Read, Write, Send, Use, OffClients
  <2>13. OffClients(HandleInput[13])
    BY DEF HandleInput, At, Read, Write, Send, Use, OffClients
  <2> QED
    BY <2>1, <2>2, <2>3, <2>4, <2>5, <2>6, <2>7, <2>8, <2>9, <2>10, <2>11, <2>12, <2>13
<1>7. \A i \in 1 .. 13 : NotOfClients(HandleInput[i])
  <2>1. NotOfClients(HandleInput[1])
    BY DEF HandleInput, At, Read, Write, Send, Use, NotOfClients
  <2>2. NotOfClients(HandleInput[2])
    BY DEF HandleInput, At, Read, Write, Send, Use, NotOfClients
  <2>3. NotOfClients(HandleInput[3])
    BY DEF HandleInput, At, Read, Write, Send, Use, NotOfClients
  <2>4. NotOfClients(HandleInput[4])
    BY DEF HandleInput, At, Read, Write, Send, Use, NotOfClients
  <2>5. NotOfClients(HandleInput[5])
    BY DEF HandleInput, At, Read, Write, Send, Use, NotOfClients
  <2>6. NotOfClients(HandleInput[6])
    BY DEF HandleInput, At, Read, Write, Send, Use, NotOfClients
  <2>7. NotOfClients(HandleInput[7])
    BY DEF HandleInput, At, Read, Write, Send, Use, NotOfClients
  <2>8. NotOfClients(HandleInput[8])
    BY DEF HandleInput, At, Read, Write, Send, Use, NotOfClients
  <2>9. NotOfClients(HandleInput[9])
    BY DEF HandleInput, At, Read, Write, Send, Use, NotOfClients
  <2>10. NotOfClients(HandleInput[10])
    BY DEF HandleInput, At, Read, Write, Send, Use, NotOfClients
  <2>11. NotOfClients(HandleInput[11])
    BY DEF HandleInput, At, Read, Write, Send, Use, NotOfClients
  <2>12. NotOfClients(HandleInput[12])
    BY DEF HandleInput, At, Read, Write, Send, Use, NotOfClients
  <2>13. NotOfClients(HandleInput[13])
    BY DEF HandleInput, At, Read, Write, Send, Use, NotOfClients
  <2> QED
    BY <2>1, <2>2, <2>3, <2>4, <2>5, <2>6, <2>7, <2>8, <2>9, <2>10, <2>11, <2>12, <2>13
<1>8. \A i \in 1 .. 13 : NotOfStop(HandleInput[i])
  <2>1. NotOfStop(HandleInput[1])
    BY DEF HandleInput, At, Read, Write, Send, Use, NotOfStop
  <2>2. NotOfStop(HandleInput[2])
    BY DEF HandleInput, At, Read, Write, Send, Use, NotOfStop
  <2>3. NotOfStop(HandleInput[3])
    BY DEF HandleInput, At, Read, Write, Send, Use, NotOfStop
  <2>4. NotOfStop(HandleInput[4])
    BY DEF HandleInput, At, Read, Write, Send, Use, NotOfStop
  <2>5. NotOfStop(HandleInput[5])
    BY DEF HandleInput, At, Read, Write, Send, Use, NotOfStop
  <2>6. NotOfStop(HandleInput[6])
    BY DEF HandleInput, At, Read, Write, Send, Use, NotOfStop
  <2>7. NotOfStop(HandleInput[7])
    BY DEF HandleInput, At, Read, Write, Send, Use, NotOfStop
  <2>8. NotOfStop(HandleInput[8])
    BY DEF HandleInput, At, Read, Write, Send, Use, NotOfStop
  <2>9. NotOfStop(HandleInput[9])
    BY DEF HandleInput, At, Read, Write, Send, Use, NotOfStop
  <2>10. NotOfStop(HandleInput[10])
    BY DEF HandleInput, At, Read, Write, Send, Use, NotOfStop
  <2>11. NotOfStop(HandleInput[11])
    BY DEF HandleInput, At, Read, Write, Send, Use, NotOfStop
  <2>12. NotOfStop(HandleInput[12])
    BY DEF HandleInput, At, Read, Write, Send, Use, NotOfStop
  <2>13. NotOfStop(HandleInput[13])
    BY DEF HandleInput, At, Read, Write, Send, Use, NotOfStop
  <2> QED
    BY <2>1, <2>2, <2>3, <2>4, <2>5, <2>6, <2>7, <2>8, <2>9, <2>10, <2>11, <2>12, <2>13
<1> QED
  BY <1>1, <1>2, <1>3, <1>4, <1>5, <1>6, <1>7, <1>8 DEF Orderly

LEMMA HandleDisconnectOrderly ==
    /\ Orderly(HandleDisconnect)
    /\ \A i \in 1 .. Len(HandleDisconnect) :
         /\ Named(HandleDisconnect[i])
         /\ Guarded(HandleDisconnect[i])
         /\ Intact(HandleDisconnect[i])
         /\ OffClients(HandleDisconnect[i])
         /\ NotOfClients(HandleDisconnect[i])
         /\ NotOfStop(HandleDisconnect[i])
<1>1. Len(HandleDisconnect) = 4
  BY DEF HandleDisconnect
<1>2. /\ Fits({}, HandleDisconnect[1].held)
      /\ Fits(HandleDisconnect[1].held, HandleDisconnect[2].held)
      /\ Fits(HandleDisconnect[2].held, HandleDisconnect[3].held)
      /\ Fits(HandleDisconnect[3].held, HandleDisconnect[4].held)
  BY DEF HandleDisconnect, At, Fits, InOrder, Locks
<1>3. /\ Named(HandleDisconnect[1])
      /\ Named(HandleDisconnect[2])
      /\ Named(HandleDisconnect[3])
      /\ Named(HandleDisconnect[4])
  BY DEF HandleDisconnect, At, Read, Write, Send, Use, Named, Names,
         Shared, Locks
<1>4. /\ Guarded(HandleDisconnect[1])
      /\ Guarded(HandleDisconnect[2])
      /\ Guarded(HandleDisconnect[3])
      /\ Guarded(HandleDisconnect[4])
  BY DEF HandleDisconnect, At, Read, Write, Send, Use, Guarded
<1>5. /\ Intact(HandleDisconnect[1])
      /\ Intact(HandleDisconnect[2])
      /\ Intact(HandleDisconnect[3])
      /\ Intact(HandleDisconnect[4])
  BY DEF HandleDisconnect, At, Read, Write, Send, Use, Intact
<1>6. /\ OffClients(HandleDisconnect[1])
      /\ OffClients(HandleDisconnect[2])
      /\ OffClients(HandleDisconnect[3])
      /\ OffClients(HandleDisconnect[4])
  BY DEF HandleDisconnect, At, Read, Write, Send, Use, OffClients
<1>7. /\ NotOfClients(HandleDisconnect[1])
      /\ NotOfClients(HandleDisconnect[2])
      /\ NotOfClients(HandleDisconnect[3])
      /\ NotOfClients(HandleDisconnect[4])
  BY DEF HandleDisconnect, At, Read, Write, Send, Use, NotOfClients
<1>8. /\ NotOfStop(HandleDisconnect[1])
      /\ NotOfStop(HandleDisconnect[2])
      /\ NotOfStop(HandleDisconnect[3])
      /\ NotOfStop(HandleDisconnect[4])
  BY DEF HandleDisconnect, At, Read, Write, Send, Use, NotOfStop
<1> QED
  BY <1>1, <1>2, <1>3, <1>4, <1>5, <1>6, <1>7, <1>8 DEF Orderly

LEMMA AcceptOrderly ==
    /\ Orderly(Accept)
    /\ \A i \in 1 .. Len(Accept) :
         /\ Named(Accept[i])
         /\ Guarded(Accept[i])
         /\ Serial(Accept[i])
         /\ Intact(Accept[i])
         /\ NotOfClients(Accept[i])
         /\ NotOfStop(Accept[i])
BY DEF Accept, Orderly

LEMMA GreetOrderly ==
    /\ Orderly(Greet)
    /\ \A i \in 1 .. Len(Greet) :
         /\ Named(Greet[i])
         /\ Guarded(Greet[i])
         /\ Serial(Greet[i])
         /\ Intact(Greet[i])
         /\ NotOfStop(Greet[i])
<1>1. Len(Greet) = 3
  BY DEF Greet
<1>2. /\ Fits({}, Greet[1].held)
      /\ Fits(Greet[1].held, Greet[2].held)
      /\ Fits(Greet[2].held, Greet[3].held)
  BY DEF Greet, At, Fits, InOrder, Locks
<1>3. /\ Named(Greet[1])
      /\ Named(Greet[2])
      /\ Named(Greet[3])
  BY DEF Greet, At, Read, Write, Send, Use, Named, Names,
         Shared, Locks
<1>4. /\ Guarded(Greet[1])
      /\ Guarded(Greet[2])
      /\ Guarded(Greet[3])
  BY DEF Greet, At, Read, Write, Send, Use, Guarded
<1>5. /\ Serial(Greet[1])
      /\ Serial(Greet[2])
      /\ Serial(Greet[3])
  BY DEF Greet, At, Read, Write, Send, Use, Serial
<1>6. /\ Intact(Greet[1])
      /\ Intact(Greet[2])
      /\ Intact(Greet[3])
  BY DEF Greet, At, Read, Write, Send, Use, Intact
<1>7. /\ NotOfStop(Greet[1])
      /\ NotOfStop(Greet[2])
      /\ NotOfStop(Greet[3])
  BY DEF Greet, At, Read, Write, Send, Use, NotOfStop
<1> QED
  BY <1>1, <1>2, <1>3, <1>4, <1>5, <1>6, <1>7 DEF Orderly

LEMMA ListRoomsOrderly ==
    /\ Orderly(ListRooms)
    /\ \A i \in 1 .. Len(ListRooms) :
         /\ Named(ListRooms[i])
         /\ Guarded(ListRooms[i])
         /\ Serial(ListRooms[i])
         /\ Intact(ListRooms[i])
         /\ NotOfStop(ListRooms[i])
<1>1. Len(ListRooms) = 3
  BY DEF ListRooms
<1>2. /\ Fits({}, ListRooms[1].held)
      /\ Fits(ListRooms[1].held, ListRooms[2].held)
      /\ Fits(ListRooms[2].held, ListRooms[3].held)
  BY DEF ListRooms, At, Fits, InOrder, Locks
<1>3. /\ Named(ListRooms[1])
      /\ Named(ListRooms[2])
      /\ Named(ListRooms[3])
  BY DEF ListRooms, At, Read, Write, Send, Use, Named, Names,
         Shared, Locks
<1>4. /\ Guarded(ListRooms[1])
      /\ Guarded(ListRooms[2])
      /\ Guarded(ListRooms[3])
  BY DEF ListRooms, At, Read, Write, Send, Use, Guarded
<1>5. /\ Serial(ListRooms[1])
      /\ Serial(ListRooms[2])
      /\ Serial(ListRooms[3])
  BY DEF ListRooms, At, Read, Write, Send, Use, Serial
<1>6. /\ Intact(ListRooms[1])
      /\ Intact(ListRooms[2])
      /\ Intact(ListRooms[3])
  BY DEF ListRooms, At, Read, Write, Send, Use, Intact
<1>7. /\ NotOfStop(ListRooms[1])
      /\ NotOfStop(ListRooms[2])
      /\ NotOfStop(ListRooms[3])
  BY DEF ListRooms, At, Read, Write, Send, Use, NotOfStop
<1> QED
  BY <1>1, <1>2, <1>3, <1>4, <1>5, <1>6, <1>7 DEF Orderly

LEMMA CreateRoomOrderly ==
    /\ Orderly(CreateRoom)
    /\ \A i \in 1 .. Len(CreateRoom) :
         /\ Named(CreateRoom[i])
         /\ Guarded(CreateRoom[i])
         /\ Serial(CreateRoom[i])
         /\ Intact(CreateRoom[i])
         /\ NotOfStop(CreateRoom[i])
<1>1. Len(CreateRoom) = 2
  BY DEF CreateRoom
<1>2. /\ Fits({}, CreateRoom[1].held)
      /\ Fits(CreateRoom[1].held, CreateRoom[2].held)
  BY DEF CreateRoom, At, Fits, InOrder, Locks
<1>3. /\ Named(CreateRoom[1])
      /\ Named(CreateRoom[2])
  BY DEF CreateRoom, At, Read, Write, Send, Use, Named, Names,
         Shared, Locks
<1>4. /\ Guarded(CreateRoom[1])
      /\ Guarded(CreateRoom[2])
  BY DEF CreateRoom, At, Read, Write, Send, Use, Guarded
<1>5. /\ Serial(CreateRoom[1])
      /\ Serial(CreateRoom[2])
  BY DEF CreateRoom, At, Read, Write, Send, Use, Serial
<1>6. /\ Intact(CreateRoom[1])
      /\ Intact(CreateRoom[2])
  BY DEF CreateRoom, At, Read, Write, Send, Use, Intact
<1>7. /\ NotOfStop(CreateRoom[1])
      /\ NotOfStop(CreateRoom[2])
  BY DEF CreateRoom, At, Read, Write, Send, Use, NotOfStop
<1> QED
  BY <1>1, <1>2, <1>3, <1>4, <1>5, <1>6, <1>7 DEF Orderly

LEMMA JoinRoomOrderly ==
    /\ Orderly(JoinRoom)
    /\ \A i \in 1 .. Len(JoinRoom) :
         /\ Named(JoinRoom[i])
         /\ Guarded(JoinRoom[i])
         /\ Serial(JoinRoom[i])
         /\ Intact(JoinRoom[i])
         /\ NotOfStop(JoinRoom[i])
<1>1. Len(JoinRoom) = 4
  BY DEF JoinRoom
<1>2. /\ Fits({}, JoinRoom[1].held)
      /\ Fits(JoinRoom[1].held, JoinRoom[2].held)
      /\ Fits(JoinRoom[2].held, JoinRoom[3].held)
      /\ Fits(JoinRoom[3].held, JoinRoom[4].held)
  BY DEF JoinRoom, At, Fits, InOrder, Locks
<1>3. /\ Named(JoinRoom[1])
      /\ Named(JoinRoom[2])
      /\ Named(JoinRoom[3])
      /\ Named(JoinRoom[4])
  BY DEF JoinRoom, At, Read, Write, Send, Use, Named, Names,
         Shared, Locks
<1>4. /\ Guarded(JoinRoom[1])
      /\ Guarded(JoinRoom[2])
      /\ Guarded(JoinRoom[3])
      /\ Guarded(JoinRoom[4])
  BY DEF JoinRoom, At, Read, Write, Send, Use, Guarded
<1>5. /\ Serial(JoinRoom[1])
      /\ Serial(JoinRoom[2])
      /\ Serial(JoinRoom[3])
      /\ Serial(JoinRoom[4])
  BY DEF JoinRoom, At, Read, Write, Send, Use, Serial
<1>6. /\ Intact(JoinRoom[1])
      /\ Intact(JoinRoom[2])
      /\ Intact(JoinRoom[3])
      /\ Intact(JoinRoom[4])
  BY DEF JoinRoom, At, Read, Write, Send, Use, Intact
<1>7. /\ NotOfStop(JoinRoom[1])
      /\ NotOfStop(JoinRoom[2])
      /\ NotOfStop(JoinRoom[3])
      /\ NotOfStop(JoinRoom[4])
  BY DEF JoinRoom, At, Read, Write, Send, Use, NotOfStop
<1> QED
  BY <1>1, <1>2, <1>3, <1>4, <1>5, <1>6, <1>7 DEF Orderly

LEMMA StartGameOrderly ==
    /\ Orderly(StartGame)
    /\ \A i \in 1 .. Len(StartGame) :
         /\ Named(StartGame[i])
         /\ Guarded(StartGame[i])
         /\ Serial(StartGame[i])
         /\ Intact(StartGame[i])
         /\ NotOfStop(StartGame[i])
<1>1. Len(StartGame) = 3
  BY DEF StartGame
<1>2. /\ Fits({}, StartGame[1].held)
      /\ Fits(StartGame[1].held, StartGame[2].held)
      /\ Fits(StartGame[2].held, StartGame[3].held)
  BY DEF StartGame, At, Fits, InOrder, Locks
<1>3. /\ Named(StartGame[1])
      /\ Named(StartGame[2])
      /\ Named(StartGame[3])
  BY DEF StartGame, At, Read, Write, Send, Use, Named, Names,
         Shared, Locks
<1>4. /\ Guarded(StartGame[1])
      /\ Guarded(StartGame[2])
      /\ Guarded(StartGame[3])
  BY DEF StartGame, At, Read, Write, Send, Use, Guarded
<1>5. /\ Serial(StartGame[1])
      /\ Serial(StartGame[2])
      /\ Serial(StartGame[3])
  BY DEF StartGame, At, Read, Write, Send, Use, Serial
<1>6. /\ Intact(StartGame[1])
      /\ Intact(StartGame[2])
      /\ Intact(StartGame[3])
  BY DEF StartGame, At, Read, Write, Send, Use, Intact
<1>7. /\ NotOfStop(StartGame[1])
      /\ NotOfStop(StartGame[2])
      /\ NotOfStop(StartGame[3])
  BY DEF StartGame, At, Read, Write, Send, Use, NotOfStop
<1> QED
  BY <1>1, <1>2, <1>3, <1>4, <1>5, <1>6, <1>7 DEF Orderly

LEMMA GetLobbyStateOrderly ==
    /\ Orderly(GetLobbyState)
    /\ \A i \in 1 .. Len(GetLobbyState) :
         /\ Named(GetLobbyState[i])
         /\ Guarded(GetLobbyState[i])
         /\ Serial(GetLobbyState[i])
         /\ Intact(GetLobbyState[i])
         /\ NotOfStop(GetLobbyState[i])
<1>1. Len(GetLobbyState) = 6
  BY DEF GetLobbyState
<1>2. /\ Fits({}, GetLobbyState[1].held)
      /\ Fits(GetLobbyState[1].held, GetLobbyState[2].held)
      /\ Fits(GetLobbyState[2].held, GetLobbyState[3].held)
      /\ Fits(GetLobbyState[3].held, GetLobbyState[4].held)
      /\ Fits(GetLobbyState[4].held, GetLobbyState[5].held)
      /\ Fits(GetLobbyState[5].held, GetLobbyState[6].held)
  BY DEF GetLobbyState, At, Fits, InOrder, Locks
<1>3. /\ Named(GetLobbyState[1])
      /\ Named(GetLobbyState[2])
      /\ Named(GetLobbyState[3])
      /\ Named(GetLobbyState[4])
      /\ Named(GetLobbyState[5])
      /\ Named(GetLobbyState[6])
  BY DEF GetLobbyState, At, Read, Write, Send, Use, Named, Names,
         Shared, Locks
<1>4. /\ Guarded(GetLobbyState[1])
      /\ Guarded(GetLobbyState[2])
      /\ Guarded(GetLobbyState[3])
      /\ Guarded(GetLobbyState[4])
      /\ Guarded(GetLobbyState[5])
      /\ Guarded(GetLobbyState[6])
  BY DEF GetLobbyState, At, Read, Write, Send, Use, Guarded
<1>5. /\ Serial(GetLobbyState[1])
      /\ Serial(GetLobbyState[2])
      /\ Serial(GetLobbyState[3])
      /\ Serial(GetLobbyState[4])
      /\ Serial(GetLobbyState[5])
      /\ Serial(GetLobbyState[6])
  BY DEF GetLobbyState, At, Read, Write, Send, Use, Serial
<1>6. /\ Intact(GetLobbyState[1])
      /\ Intact(GetLobbyState[2])
      /\ Intact(GetLobbyState[3])
      /\ Intact(GetLobbyState[4])
      /\ Intact(GetLobbyState[5])
      /\ Intact(GetLobbyState[6])
  BY DEF GetLobbyState, At, Read, Write, Send, Use, Intact
<1>7. /\ NotOfStop(GetLobbyState[1])
      /\ NotOfStop(GetLobbyState[2])
      /\ NotOfStop(GetLobbyState[3])
      /\ NotOfStop(GetLobbyState[4])
      /\ NotOfStop(GetLobbyState[5])
      /\ NotOfStop(GetLobbyState[6])
  BY DEF GetLobbyState, At, Read, Write, Send, Use, NotOfStop
<1> QED
  BY <1>1, <1>2, <1>3, <1>4, <1>5, <1>6, <1>7 DEF Orderly

LEMMA ChatOrderly ==
    /\ Orderly(Chat)
    /\ \A i \in 1 .. Len(Chat) :
         /\ Named(Chat[i])
         /\ Guarded(Chat[i])
         /\ Serial(Chat[i])
         /\ Intact(Chat[i])
         /\ NotOfStop(Chat[i])
<1>1. Len(Chat) = 3
  BY DEF Chat
<1>2. /\ Fits({}, Chat[1].held)
      /\ Fits(Chat[1].held, Chat[2].held)
      /\ Fits(Chat[2].held, Chat[3].held)
  BY DEF Chat, At, Fits, InOrder, Locks
<1>3. /\ Named(Chat[1])
      /\ Named(Chat[2])
      /\ Named(Chat[3])
  BY DEF Chat, At, Read, Write, Send, Use, Named, Names,
         Shared, Locks
<1>4. /\ Guarded(Chat[1])
      /\ Guarded(Chat[2])
      /\ Guarded(Chat[3])
  BY DEF Chat, At, Read, Write, Send, Use, Guarded
<1>5. /\ Serial(Chat[1])
      /\ Serial(Chat[2])
      /\ Serial(Chat[3])
  BY DEF Chat, At, Read, Write, Send, Use, Serial
<1>6. /\ Intact(Chat[1])
      /\ Intact(Chat[2])
      /\ Intact(Chat[3])
  BY DEF Chat, At, Read, Write, Send, Use, Intact
<1>7. /\ NotOfStop(Chat[1])
      /\ NotOfStop(Chat[2])
      /\ NotOfStop(Chat[3])
  BY DEF Chat, At, Read, Write, Send, Use, NotOfStop
<1> QED
  BY <1>1, <1>2, <1>3, <1>4, <1>5, <1>6, <1>7 DEF Orderly

LEMMA LeaveOrderly ==
    /\ Orderly(Leave)
    /\ \A i \in 1 .. Len(Leave) :
         /\ Named(Leave[i])
         /\ Guarded(Leave[i])
         /\ Serial(Leave[i])
         /\ Intact(Leave[i])
         /\ NotOfStop(Leave[i])
<1>1. Len(Leave) = 7
  BY DEF Leave
<1>2. /\ Fits({}, Leave[1].held)
      /\ Fits(Leave[1].held, Leave[2].held)
      /\ Fits(Leave[2].held, Leave[3].held)
      /\ Fits(Leave[3].held, Leave[4].held)
      /\ Fits(Leave[4].held, Leave[5].held)
      /\ Fits(Leave[5].held, Leave[6].held)
      /\ Fits(Leave[6].held, Leave[7].held)
  BY DEF Leave, At, Fits, InOrder, Locks
<1>3. /\ Named(Leave[1])
      /\ Named(Leave[2])
      /\ Named(Leave[3])
      /\ Named(Leave[4])
      /\ Named(Leave[5])
      /\ Named(Leave[6])
      /\ Named(Leave[7])
  BY DEF Leave, At, Read, Write, Send, Use, Named, Names,
         Shared, Locks
<1>4. /\ Guarded(Leave[1])
      /\ Guarded(Leave[2])
      /\ Guarded(Leave[3])
      /\ Guarded(Leave[4])
      /\ Guarded(Leave[5])
      /\ Guarded(Leave[6])
      /\ Guarded(Leave[7])
  BY DEF Leave, At, Read, Write, Send, Use, Guarded
<1>5. /\ Serial(Leave[1])
      /\ Serial(Leave[2])
      /\ Serial(Leave[3])
      /\ Serial(Leave[4])
      /\ Serial(Leave[5])
      /\ Serial(Leave[6])
      /\ Serial(Leave[7])
  BY DEF Leave, At, Read, Write, Send, Use, Serial
<1>6. /\ Intact(Leave[1])
      /\ Intact(Leave[2])
      /\ Intact(Leave[3])
      /\ Intact(Leave[4])
      /\ Intact(Leave[5])
      /\ Intact(Leave[6])
      /\ Intact(Leave[7])
  BY DEF Leave, At, Read, Write, Send, Use, Intact
<1>7. /\ NotOfStop(Leave[1])
      /\ NotOfStop(Leave[2])
      /\ NotOfStop(Leave[3])
      /\ NotOfStop(Leave[4])
      /\ NotOfStop(Leave[5])
      /\ NotOfStop(Leave[6])
      /\ NotOfStop(Leave[7])
  BY DEF Leave, At, Read, Write, Send, Use, NotOfStop
<1> QED
  BY <1>1, <1>2, <1>3, <1>4, <1>5, <1>6, <1>7 DEF Orderly

LEMMA ShellRoomsOrderly ==
    /\ Orderly(ShellRooms)
    /\ \A i \in 1 .. Len(ShellRooms) :
         /\ Named(ShellRooms[i])
         /\ Guarded(ShellRooms[i])
         /\ Serial(ShellRooms[i])
         /\ Intact(ShellRooms[i])
         /\ NotOfClients(ShellRooms[i])
         /\ NotOfStop(ShellRooms[i])
<1>1. Len(ShellRooms) = 2
  BY DEF ShellRooms
<1>2. /\ Fits({}, ShellRooms[1].held)
      /\ Fits(ShellRooms[1].held, ShellRooms[2].held)
  BY DEF ShellRooms, At, Fits, InOrder, Locks
<1>3. /\ Named(ShellRooms[1])
      /\ Named(ShellRooms[2])
  BY DEF ShellRooms, At, Read, Write, Send, Use, Named, Names,
         Shared, Locks
<1>4. /\ Guarded(ShellRooms[1])
      /\ Guarded(ShellRooms[2])
  BY DEF ShellRooms, At, Read, Write, Send, Use, Guarded
<1>5. /\ Serial(ShellRooms[1])
      /\ Serial(ShellRooms[2])
  BY DEF ShellRooms, At, Read, Write, Send, Use, Serial
<1>6. /\ Intact(ShellRooms[1])
      /\ Intact(ShellRooms[2])
  BY DEF ShellRooms, At, Read, Write, Send, Use, Intact
<1>7. /\ NotOfClients(ShellRooms[1])
      /\ NotOfClients(ShellRooms[2])
  BY DEF ShellRooms, At, Read, Write, Send, Use, NotOfClients
<1>8. /\ NotOfStop(ShellRooms[1])
      /\ NotOfStop(ShellRooms[2])
  BY DEF ShellRooms, At, Read, Write, Send, Use, NotOfStop
<1> QED
  BY <1>1, <1>2, <1>3, <1>4, <1>5, <1>6, <1>7, <1>8 DEF Orderly

LEMMA ShellCreateOrderly ==
    /\ Orderly(ShellCreate)
    /\ \A i \in 1 .. Len(ShellCreate) :
         /\ Named(ShellCreate[i])
         /\ Guarded(ShellCreate[i])
         /\ Serial(ShellCreate[i])
         /\ Intact(ShellCreate[i])
         /\ NotOfClients(ShellCreate[i])
         /\ NotOfStop(ShellCreate[i])
<1>1. Len(ShellCreate) = 1
  BY DEF ShellCreate
<1>2. /\ Fits({}, ShellCreate[1].held)
  BY DEF ShellCreate, At, Fits, InOrder, Locks
<1>3. /\ Named(ShellCreate[1])
  BY DEF ShellCreate, At, Read, Write, Send, Use, Named, Names,
         Shared, Locks
<1>4. /\ Guarded(ShellCreate[1])
  BY DEF ShellCreate, At, Read, Write, Send, Use, Guarded
<1>5. /\ Serial(ShellCreate[1])
  BY DEF ShellCreate, At, Read, Write, Send, Use, Serial
<1>6. /\ Intact(ShellCreate[1])
  BY DEF ShellCreate, At, Read, Write, Send, Use, Intact
<1>7. /\ NotOfClients(ShellCreate[1])
  BY DEF ShellCreate, At, Read, Write, Send, Use, NotOfClients
<1>8. /\ NotOfStop(ShellCreate[1])
  BY DEF ShellCreate, At, Read, Write, Send, Use, NotOfStop
<1> QED
  BY <1>1, <1>2, <1>3, <1>4, <1>5, <1>6, <1>7, <1>8 DEF Orderly

LEMMA DeleteOrderly ==
    /\ Orderly(Delete)
    /\ \A i \in 1 .. Len(Delete) :
         /\ Named(Delete[i])
         /\ Guarded(Delete[i])
         /\ Serial(Delete[i])
         /\ NotOfClients(Delete[i])
         /\ NotOfStop(Delete[i])
<1>1. Len(Delete) = 1
  BY DEF Delete
<1>2. /\ Fits({}, Delete[1].held)
  BY DEF Delete, At, Fits, InOrder, Locks
<1>3. /\ Named(Delete[1])
  BY DEF Delete, At, Read, Write, Send, Use, Named, Names,
         Shared, Locks
<1>4. /\ Guarded(Delete[1])
  BY DEF Delete, At, Read, Write, Send, Use, Guarded
<1>5. /\ Serial(Delete[1])
  BY DEF Delete, At, Read, Write, Send, Use, Serial
<1>6. /\ NotOfClients(Delete[1])
  BY DEF Delete, At, Read, Write, Send, Use, NotOfClients
<1>7. /\ NotOfStop(Delete[1])
  BY DEF Delete, At, Read, Write, Send, Use, NotOfStop
<1> QED
  BY <1>1, <1>2, <1>3, <1>4, <1>5, <1>6, <1>7 DEF Orderly

LEMMA KickOrderly ==
    /\ Orderly(Kick)
    /\ \A i \in 1 .. Len(Kick) :
         /\ Named(Kick[i])
         /\ Guarded(Kick[i])
         /\ Serial(Kick[i])
         /\ Intact(Kick[i])
         /\ NotOfClients(Kick[i])
         /\ NotOfStop(Kick[i])
<1>1. Len(Kick) = 6
  BY DEF Kick
<1>2. /\ Fits({}, Kick[1].held)
      /\ Fits(Kick[1].held, Kick[2].held)
      /\ Fits(Kick[2].held, Kick[3].held)
      /\ Fits(Kick[3].held, Kick[4].held)
      /\ Fits(Kick[4].held, Kick[5].held)
      /\ Fits(Kick[5].held, Kick[6].held)
  BY DEF Kick, At, Fits, InOrder, Locks
<1>3. /\ Named(Kick[1])
      /\ Named(Kick[2])
      /\ Named(Kick[3])
      /\ Named(Kick[4])
      /\ Named(Kick[5])
      /\ Named(Kick[6])
  BY DEF Kick, At, Read, Write, Send, Use, Named, Names,
         Shared, Locks
<1>4. /\ Guarded(Kick[1])
      /\ Guarded(Kick[2])
      /\ Guarded(Kick[3])
      /\ Guarded(Kick[4])
      /\ Guarded(Kick[5])
      /\ Guarded(Kick[6])
  BY DEF Kick, At, Read, Write, Send, Use, Guarded
<1>5. /\ Serial(Kick[1])
      /\ Serial(Kick[2])
      /\ Serial(Kick[3])
      /\ Serial(Kick[4])
      /\ Serial(Kick[5])
      /\ Serial(Kick[6])
  BY DEF Kick, At, Read, Write, Send, Use, Serial
<1>6. /\ Intact(Kick[1])
      /\ Intact(Kick[2])
      /\ Intact(Kick[3])
      /\ Intact(Kick[4])
      /\ Intact(Kick[5])
      /\ Intact(Kick[6])
  BY DEF Kick, At, Read, Write, Send, Use, Intact
<1>7. /\ NotOfClients(Kick[1])
      /\ NotOfClients(Kick[2])
      /\ NotOfClients(Kick[3])
      /\ NotOfClients(Kick[4])
      /\ NotOfClients(Kick[5])
      /\ NotOfClients(Kick[6])
  BY DEF Kick, At, Read, Write, Send, Use, NotOfClients
<1>8. /\ NotOfStop(Kick[1])
      /\ NotOfStop(Kick[2])
      /\ NotOfStop(Kick[3])
      /\ NotOfStop(Kick[4])
      /\ NotOfStop(Kick[5])
      /\ NotOfStop(Kick[6])
  BY DEF Kick, At, Read, Write, Send, Use, NotOfStop
<1> QED
  BY <1>1, <1>2, <1>3, <1>4, <1>5, <1>6, <1>7, <1>8 DEF Orderly

-----------------------------------------------------------------------------
(* What holds wherever a thread is.                                        *)

\* What every program but those of the UDP thread, of the shell, of the
\* clients and of the stop of the server is like.
Disciplined(t, name, x) ==
    /\ Named(x)
    /\ Guarded(x)
    /\ t /= "udp" => Serial(x)
    /\ name /= "Delete" => Intact(x)
    /\ t = "udp" => OffClients(x)
    /\ t = "loop" => name = "Stop" \/ OffClients(x)
    /\ t \notin Sessions => NotOfClients(x)
    /\ t /= "loop" => NotOfStop(x)

LEMMA ProgramsOrderly ==
    ASSUME NEW t \in Threads, NEW name \in Programs(t)
    PROVE  /\ Orderly(Code[name])
           /\ \A i \in 1 .. Len(Code[name]) :
                  Disciplined(t, name, Code[name][i])
<1>1. CASE t = "loop"
  <2>1. CASE name = "GameUpdate"
    BY <1>1, <2>1, GameUpdateOrderly DEF Code, Disciplined
  <2>2. CASE name = "Stop"
    BY <1>1, <2>2, StopOrderly DEF Code, Disciplined
  <2> QED
    BY <1>1, <2>1, <2>2 DEF Programs
<1>2. CASE t = "udp"
  <2>1. CASE name = "HandleInput"
    BY <1>2, <2>1, HandleInputOrderly DEF Code, Disciplined
  <2>2. CASE name = "HandleDisconnect"
    BY <1>2, <2>2, HandleDisconnectOrderly DEF Code, Disciplined
  <2> QED
    BY <1>2, <2>1, <2>2 DEF Programs
<1>3. CASE t = "shell"
  <2>1. CASE name = "ShellRooms"
    BY <1>3, <2>1, ShellRoomsOrderly DEF Code, Disciplined
  <2>2. CASE name = "ShellCreate"
    BY <1>3, <2>2, ShellCreateOrderly DEF Code, Disciplined
  <2>3. CASE name = "Delete"
    BY <1>3, <2>3, DeleteOrderly DEF Code, Disciplined
  <2>4. CASE name = "Kick"
    BY <1>3, <2>4, KickOrderly DEF Code, Disciplined
  <2> QED
    BY <1>3, <2>1, <2>2, <2>3, <2>4 DEF Programs
<1>4. CASE t = "accept"
  <2>1. name = "Accept"
    BY <1>4 DEF Programs
  <2> QED
    BY <1>4, <2>1, AcceptOrderly DEF Code, Disciplined
<1>5. CASE t \in Sessions
  <2>1. t \notin Workers
    BY <1>5, SessionsAssumption
  <2>2. name \in {"Greet", "ListRooms", "CreateRoom", "JoinRoom",
                  "StartGame", "GetLobbyState", "Chat", "Leave"}
    BY <2>1 DEF Programs, Workers
  <2>3. CASE name = "Greet"
    BY <1>5, <2>1, <2>3, GreetOrderly DEF Code, Disciplined, Workers
  <2>4. CASE name = "ListRooms"
    BY <1>5, <2>1, <2>4, ListRoomsOrderly DEF Code, Disciplined, Workers
  <2>5. CASE name = "CreateRoom"
    BY <1>5, <2>1, <2>5, CreateRoomOrderly DEF Code, Disciplined, Workers
  <2>6. CASE name = "JoinRoom"
    BY <1>5, <2>1, <2>6, JoinRoomOrderly DEF Code, Disciplined, Workers
  <2>7. CASE name = "StartGame"
    BY <1>5, <2>1, <2>7, StartGameOrderly DEF Code, Disciplined, Workers
  <2>8. CASE name = "GetLobbyState"
    BY <1>5, <2>1, <2>8, GetLobbyStateOrderly DEF Code, Disciplined, Workers
  <2>9. CASE name = "Chat"
    BY <1>5, <2>1, <2>9, ChatOrderly DEF Code, Disciplined, Workers
  <2>10. CASE name = "Leave"
    BY <1>5, <2>1, <2>10, LeaveOrderly DEF Code, Disciplined, Workers
  <2> QED
    BY <2>2, <2>3, <2>4, <2>5, <2>6, <2>7, <2>8, <2>9, <2>10
<1> QED
  BY <1>1, <1>2, <1>3, <1>4, <1>5 DEF Threads, Workers

\* A thread wants mutexes that come after those it holds.
LEMMA ThreadIsOrderly ==
    ASSUME TypeOK, NEW t \in Threads
    PROVE  /\ Held(t) \subseteq Locks
           /\ "A" \in Wants(t) => Held(t) = {}
           /\ "E" \in Wants(t) => Held(t) \subseteq {"A"}
           /\ "P" \in Wants(t) => Held(t) \subseteq {"A", "E"}
           /\ "B" \in Wants(t) => Held(t) = {} /\ Wants(t) = {"B"}
           /\ "B" \in Held(t) => Held(t) = {"B"}
           /\ Wants(t) \subseteq Locks \ Held(t)
<1> DEFINE p == Code[program[t]]
           i == place[t]
<1>1. i \in 0 .. Len(p) /\ Orderly(p)
  BY ProgramsOrderly DEF TypeOK
<1>2. Len(p) \in Nat /\ i \in Nat
  BY <1>1 DEF Orderly
<1>3. ASSUME i /= Len(p)
      PROVE  Fits(Held(t), p[i + 1].held)
  <2>1. CASE i = 0
    BY <1>1, <1>2, <1>3, <2>1 DEF Orderly, Held, Begun
  <2>2. CASE i > 0
    <3>1. i \in 1 .. Len(p) - 1
      BY <1>1, <1>2, <1>3, <2>2
    <3> QED
      BY <1>1, <2>2, <3>1 DEF Orderly, Held, Begun, Here
  <2> QED
    BY <1>2, <2>1, <2>2
<1>4. ASSUME i > 0
      PROVE  \E h : Fits(h, p[i].held)
  <2>1. CASE i = 1
    BY <1>1, <1>2, <2>1 DEF Orderly
  <2>2. CASE i > 1
    <3>1. i - 1 \in 1 .. Len(p) - 1 /\ (i - 1) + 1 = i
      BY <1>1, <1>2, <2>2
    <3> QED
      BY <1>1, <3>1 DEF Orderly
  <2> QED
    BY <1>2, <1>4, <2>1, <2>2
<1>5. /\ Held(t) \subseteq Locks
      /\ "B" \in Held(t) => Held(t) = {"B"}
  BY <1>2, <1>4 DEF Held, Begun, Here, Fits, InOrder
<1>6. CASE i = Len(p)
  BY <1>5, <1>6 DEF Wants, Ends
<1>7. CASE i /= Len(p)
  <2>1. Wants(t) = p[i + 1].held \ Held(t)
    BY <1>7 DEF Wants, Ends, There
  <2>2. Fits(Held(t), p[i + 1].held)
    BY <1>3, <1>7
  <2> QED
    BY <1>5, <2>1, <2>2 DEF Fits, InOrder
<1> QED
  BY <1>6, <1>7

LEMMA PlacesDisciplined ==
    ASSUME TypeOK, NEW t \in Threads, Begun(t)
    PROVE  Disciplined(t, program[t], Here(t)) /\ Held(t) = Here(t).held
<1>1. /\ program[t] \in Programs(t)
      /\ place[t] \in 0 .. Len(Code[program[t]])
  BY DEF TypeOK
<1>2. /\ Len(Code[program[t]]) \in Nat
      /\ \A i \in 1 .. Len(Code[program[t]]) :
             Disciplined(t, program[t], Code[program[t]][i])
  BY <1>1, ProgramsOrderly DEF Orderly
<1>3. place[t] \in 1 .. Len(Code[program[t]])
  BY <1>1, <1>2 DEF Begun
<1> QED
  BY <1>2, <1>3 DEF Here, Held

\* What a thread uses, with the mutexes it holds as it does.
Kept(t, x) ==
    /\ x.object \in Objects \cup Locks
    /\ x.object = "status" => "A" \in Held(t)
    /\ x.object = "sockets" => "B" \in Held(t)
    /\ x.object \in Sessions => x.object = t \/ "B" \in Held(t)
    /\ x.object \in {"A", "B"} => x.op = "read"
    /\ x.op = "send" => Held(t) \subseteq {"B"}
    /\ t /= "udp" /\ x.object \in {"rooms", "players", "entities", "E", "P"}
       => "A" \in Held(t)
    /\ program[t] /= "Delete" /\ x.object = "entities" => "E" \in Held(t)
    /\ program[t] /= "Delete" /\ x.object \in {"E", "P"}
       => x.op = "read" /\ x.object \in Held(t)
    /\ x.object = "nextPlayerId" => t \in Sessions
    /\ x.object = "acceptor" => t \in {"accept", "loop"}

LEMMA UsesAreKept ==
    ASSUME TypeOK, NEW t \in Threads, NEW x \in Uses(t)
    PROVE  Kept(t, x)
<1> DEFINE places == IF Begun(t) THEN Here(t).uses ELSE Between(t)
<1>1. PICK y \in places :
          x \in {Use(y.op, object) : object \in Denotes(t, y.object)}
  BY DEF Uses
<1>2. PICK object \in Denotes(t, y.object) : x = Use(y.op, object)
  BY <1>1
<1>3. x.op = y.op /\ x.object = object
  BY <1>2 DEF Use
<1>4. Sessions \cap (Workers \cup Shared \cup Locks) = {}
  BY SessionsAssumption
<1>5. CASE Begun(t)
  <2>1. /\ y \in Here(t).uses
        /\ Disciplined(t, program[t], Here(t))
        /\ Held(t) = Here(t).held
        /\ Held(t) \subseteq Locks
    BY <1>1, <1>5, PlacesDisciplined, ThreadIsOrderly
  <2>2. y.object \in Names
    BY <2>1 DEF Disciplined, Named
  <2>3. x.op = "send" => Held(t) \subseteq {"B"}
    BY <1>3, <2>1 DEF Disciplined, Guarded, Locks
  <2>4. CASE y.object = "own_socket"
    <3>1. t \in Sessions
      BY <2>1, <2>4 DEF Disciplined, NotOfClients
    <3>2. x.object = t
      BY <1>2, <1>3, <2>4 DEF Denotes
    <3>3. x.object \notin Shared \cup Locks
      BY <1>4, <3>1, <3>2
    <3> QED
      BY <2>3, <3>1, <3>2, <3>3 DEF Kept, Objects, Shared, Locks
  <2>5. CASE y.object = "other_sockets"
    <3>1. x.object \in Sessions
      BY <1>2, <1>3, <2>5 DEF Denotes
    <3>2. x.object \notin Shared \cup Locks
      BY <1>4, <3>1
    <3>3. "B" \in Held(t)
      BY <2>1, <2>5 DEF Disciplined, Guarded
    <3> QED
      BY <2>3, <3>1, <3>2, <3>3 DEF Kept, Objects, Shared, Locks
  <2>6. CASE y.object \in Shared \cup Locks
    <3>1. x.object = y.object
      BY <1>2, <1>3, <2>6 DEF Denotes, Shared, Locks
    <3>2. x.object \notin Sessions
      BY <1>4, <2>6, <3>1
    <3>3. /\ x.object = "status" => "A" \in Held(t)
          /\ x.object = "sockets" => "B" \in Held(t)
          /\ x.object \in {"A", "B"} => x.op = "read"
      BY <1>3, <2>1, <3>1 DEF Disciplined, Guarded
    <3>4. t /= "udp"
          /\ x.object \in {"rooms", "players", "entities", "E", "P"}
          => "A" \in Held(t)
      BY <2>1, <3>1 DEF Disciplined, Serial
    <3>5. program[t] /= "Delete" =>
          /\ x.object = "entities" => "E" \in Held(t)
          /\ x.object \in {"E", "P"}
             => x.op = "read" /\ x.object \in Held(t)
      BY <1>3, <2>1, <3>1 DEF Disciplined, Intact
    <3>6. x.object = "nextPlayerId" => t \in Sessions
      BY <2>1, <3>1 DEF Disciplined, NotOfClients
    <3>7. x.object = "acceptor" => t \in {"accept", "loop"}
      BY <2>1, <3>1 DEF Disciplined, NotOfStop
    <3>8. x.object \in Objects \cup Locks
      BY <2>6, <3>1 DEF Objects
    <3> QED
      BY <2>3, <3>2, <3>3, <3>4, <3>5, <3>6, <3>7, <3>8 DEF Kept
  <2> QED
    BY <2>2, <2>4, <2>5, <2>6 DEF Names
<1>6. CASE ~Begun(t) /\ t \in Sessions
  <2>0. Between(t) = {Read("own_socket")}
    BY <1>4, <1>6 DEF Between, Workers
  <2>1. y = Read("own_socket")
    BY <1>1, <1>6, <2>0
  <2>2. x.op = "read" /\ x.object = t
    BY <1>2, <1>3, <2>1 DEF Denotes, Read, Use
  <2>3. x.object \notin Shared \cup Locks
    BY <1>4, <1>6, <2>2
  <2> QED
    BY <1>6, <2>2, <2>3 DEF Kept, Objects, Shared, Locks
<1>7. CASE ~Begun(t) /\ t \notin Sessions
  <2>1. t = "accept" /\ y = Read("acceptor")
    BY <1>1, <1>7 DEF Between
  <2>2. x.op = "read" /\ x.object = "acceptor"
    BY <1>2, <1>3, <2>1 DEF Denotes, Read, Use
  <2>3. "acceptor" \notin Sessions
    BY <1>4 DEF Shared
  <2> QED
    BY <2>1, <2>2, <2>3 DEF Kept, Objects, Shared
<1> QED
  BY <1>5, <1>6, <1>7

-----------------------------------------------------------------------------
(* The state.                                                              *)

\* No mutex is held by two threads.
MutualExclusion ==
    \A t, u \in Threads : t /= u => Held(t) \cap Held(u) = {}

LEMMA TypeInit == Init => TypeOK
<1> SUFFICES ASSUME Init
             PROVE  TypeOK
  OBVIOUS
<1>1. \A t \in Threads : First(t) \in Programs(t)
  BY DEF First, Programs
<1>2. \A t \in Threads : program[t] = First(t) /\ place[t] = 0
  BY DEF Init
<1>3. \A t \in Threads : Len(Code[program[t]]) \in Nat
  BY <1>1, <1>2, ProgramsOrderly DEF Orderly
<1>4. program \in [Threads -> UNION {Programs(t) : t \in Threads}]
  BY <1>1 DEF Init
<1> QED
  BY <1>1, <1>2, <1>3, <1>4 DEF Init, TypeOK

LEMMA TypeStep == TypeOK /\ [Next]_vars => TypeOK'
<1> SUFFICES ASSUME TypeOK, [Next]_vars
             PROVE  TypeOK'
  OBVIOUS
<1>0. \A t \in Threads : \A p \in Programs(t) : Len(Code[p]) \in Nat
  BY ProgramsOrderly DEF Orderly
<1>1. ASSUME NEW t \in Threads, Advance(t)
      PROVE  TypeOK'
  <2>1. /\ place[t] \in 0 .. Len(Code[program[t]])
        /\ Len(Code[program[t]]) \in Nat
        /\ place[t] /= Len(Code[program[t]])
    BY <1>0, <1>1 DEF TypeOK, Advance, Ends
  <2>2. place[t] + 1 \in 0 .. Len(Code[program[t]])
    BY <2>1
  <2>3. place' \in [Threads -> Nat]
    BY <1>1, <2>1 DEF TypeOK, Advance
  <2>4. ASSUME NEW u \in Threads
        PROVE  place'[u] \in 0 .. Len(Code[program[u]])
    BY <1>1, <2>2 DEF TypeOK, Advance
  <2> QED
    BY <1>1, <2>3, <2>4 DEF TypeOK, Advance
<1>2. ASSUME NEW t \in Threads, NEW p \in Programs(t), Return(t, p)
      PROVE  TypeOK'
  <2>1. Len(Code[p]) \in Nat
    BY <1>0
  <2>2. program' \in [Threads -> UNION {Programs(u) : u \in Threads}]
    BY <1>2 DEF TypeOK, Return
  <2>3. place' \in [Threads -> Nat]
    BY <1>2 DEF TypeOK, Return
  <2>4. ASSUME NEW u \in Threads
        PROVE  /\ program'[u] \in Programs(u)
               /\ place'[u] \in 0 .. Len(Code[program'[u]])
    BY <1>2, <2>1 DEF TypeOK, Return
  <2> QED
    BY <2>2, <2>3, <2>4 DEF TypeOK
<1>3. CASE UNCHANGED vars
  BY <1>3 DEF TypeOK, vars
<1> QED
  BY <1>1, <1>2, <1>3 DEF Next

LEMMA ExclusionInit == Init => MutualExclusion
BY DEF Init, MutualExclusion, Held, Begun

LEMMA ExclusionStep ==
    TypeOK /\ MutualExclusion /\ [Next]_vars => MutualExclusion'
<1> SUFFICES ASSUME TypeOK, MutualExclusion, [Next]_vars
             PROVE  MutualExclusion'
  OBVIOUS
<1>1. ASSUME NEW t \in Threads, Advance(t)
      PROVE  MutualExclusion'
  <2>1. \A u \in Threads \ {t} : Held(u)' = Held(u)
    BY <1>1 DEF Advance, TypeOK, Held, Begun, Here
  <2>2. Held(t)' = There(t).held
    BY <1>1 DEF Advance, TypeOK, Held, Begun, Here, There
  <2>3. There(t).held \subseteq Wants(t) \cup Held(t)
    BY <1>1 DEF Advance, Wants
  <2>4. \A u \in Threads \ {t} : Held(t)' \cap Held(u)' = {}
    BY <1>1, <2>1, <2>2, <2>3 DEF Advance, MutualExclusion
  <2> QED
    BY <2>1, <2>4 DEF MutualExclusion
<1>2. ASSUME NEW t \in Threads, NEW p \in Programs(t), Return(t, p)
      PROVE  MutualExclusion'
  <2>1. \A u \in Threads \ {t} : Held(u)' = Held(u)
    BY <1>2 DEF Return, TypeOK, Held, Begun, Here
  <2>2. Held(t)' = {}
    BY <1>2 DEF Return, TypeOK, Held, Begun
  <2> QED
    BY <2>1, <2>2 DEF MutualExclusion
<1>3. CASE UNCHANGED vars
  BY <1>3 DEF vars, MutualExclusion, Held, Begun, Here
<1> QED
  BY <1>1, <1>2, <1>3 DEF Next

\* Every thread is at a place of one of its programs.
THEOREM TypeCorrect == Spec => []TypeOK
BY TypeInit, TypeStep, PTL DEF Spec

\* The mutexes exclude: what a thread may enter nobody else is in. It says
\* of the model that At and Advance are locking, and OnlyKnownRaces needs it.
THEOREM LocksExclude == Spec => []MutualExclusion
BY TypeInit, TypeStep, ExclusionInit, ExclusionStep, PTL DEF Spec

-----------------------------------------------------------------------------
(* No deadlock: whoever waits, waits for one that wants a later mutex, and *)
(* there are only three that follow each other.                            *)

LEMMA OrderExcludesCircles == TypeOK => NoDeadlock
<1> DEFINE waits == {w \in Threads \X Threads : WaitsFor(w[1], w[2])}
<1> SUFFICES ASSUME TypeOK,
                    NEW S \in SUBSET {w[1] : w \in waits}, S /= {},
                    \A t \in S : \E u \in S : <<t, u>> \in waits
             PROVE  FALSE
  BY DEF NoDeadlock
<1>0. /\ S \subseteq Threads
      /\ \A t \in S : \E u \in S : WaitsFor(t, u)
  OBVIOUS
<1> HIDE DEF waits
<1>1. \A t \in S : Wants(t) /= {} /\ Wants(t) \subseteq Locks \ Held(t)
  BY <1>0, ThreadIsOrderly DEF WaitsFor
<1>2. \A t \in S : "B" \notin Held(t)
  <2> SUFFICES ASSUME NEW t \in S, "B" \in Held(t)
               PROVE  FALSE
    OBVIOUS
  <2>1. t \in Threads /\ Held(t) = {"B"}
    BY <1>0, ThreadIsOrderly
  <2> QED
    BY <1>1, <2>1, ThreadIsOrderly DEF Locks
<1>3. \A t \in S : "B" \notin Wants(t)
  <2> SUFFICES ASSUME NEW t \in S, "B" \in Wants(t)
               PROVE  FALSE
    OBVIOUS
  <2>1. Wants(t) = {"B"}
    BY <1>0, ThreadIsOrderly
  <2> QED
    BY <1>0, <1>2, <2>1 DEF WaitsFor
<1>4. \A t \in S : "P" \notin Held(t)
  <2> SUFFICES ASSUME NEW t \in S, "P" \in Held(t)
               PROVE  FALSE
    OBVIOUS
  <2>1. t \in Threads
    BY <1>0
  <2> QED
    BY <1>1, <1>3, <2>1, ThreadIsOrderly DEF Locks
<1>5. \A t \in S : "E" \notin Held(t)
  <2> SUFFICES ASSUME NEW t \in S, "E" \in Held(t)
               PROVE  FALSE
    OBVIOUS
  <2>1. Wants(t) = {"P"}
    BY <1>0, <1>1, <1>3, ThreadIsOrderly DEF Locks
  <2> QED
    BY <1>0, <1>4, <2>1 DEF WaitsFor
<1>6. \A t \in S : "A" \notin Held(t)
  <2> SUFFICES ASSUME NEW t \in S, "A" \in Held(t)
               PROVE  FALSE
    OBVIOUS
  <2>1. Wants(t) \subseteq {"E", "P"}
    BY <1>1, <1>3 DEF Locks
  <2> QED
    BY <1>0, <1>4, <1>5, <2>1 DEF WaitsFor
<1>7. \A t \in S : Held(t) = {}
  BY <1>0, <1>2, <1>4, <1>5, <1>6, ThreadIsOrderly DEF Locks
<1> QED
  BY <1>0, <1>7 DEF WaitsFor

\* No circle of threads that wait for each other, with any number of clients.
THEOREM DeadlockFree == Spec => []NoDeadlock
BY TypeCorrect, OrderExcludesCircles, PTL

-----------------------------------------------------------------------------
(* Chat: who sends, holds TCPServer's mutex or wants it, is all that can   *)
(* be held up.                                                             *)

LEMMA OffClientsHere ==
    ASSUME TypeOK, NEW t \in Threads, t \notin Sessions,
           t = "udp" \/ (t = "loop" /\ program[t] /= "Stop")
    PROVE  "B" \notin Held(t) \cup Wants(t) /\ ~Sends(t)
<1>1. /\ program[t] \in Programs(t)
      /\ place[t] \in 0 .. Len(Code[program[t]])
  BY DEF TypeOK
<1>2. /\ Len(Code[program[t]]) \in Nat
      /\ \A i \in 1 .. Len(Code[program[t]]) : OffClients(Code[program[t]][i])
  BY <1>1, ProgramsOrderly DEF Orderly, Disciplined
<1>3. Begun(t) => OffClients(Here(t))
  BY <1>1, <1>2 DEF Begun, Here
<1>4. ~Ends(t) => OffClients(There(t))
  BY <1>1, <1>2 DEF Ends, There
<1>5. "B" \notin Held(t) \cup Wants(t)
  BY <1>3, <1>4 DEF OffClients, Held, Wants
<1>6. ASSUME NEW x \in Uses(t)
      PROVE  x.op /= "send"
  <2> DEFINE places == IF Begun(t) THEN Here(t).uses ELSE Between(t)
  <2>1. PICK y \in places :
            x \in {Use(y.op, object) : object \in Denotes(t, y.object)}
    BY DEF Uses
  <2>2. Begun(t)
    BY <2>1 DEF Between
  <2> QED
    BY <1>3, <2>1, <2>2 DEF OffClients, Use
<1> QED
  BY <1>5, <1>6 DEF Sends

LEMMA ChatHoldsUpOnlyItsOwn == TypeOK => GameGoesOn
<1> SUFFICES ASSUME TypeOK
             PROVE  GameGoesOn
  OBVIOUS
<1> DEFINE waits == {w \in Threads \X Threads : WaitsFor(w[1], w[2])}
           S == {t \in Threads : "B" \in Held(t) \cup Wants(t) \/ Sends(t)}
<1>1. ASSUME NEW u \in S
      PROVE  Held(u) \subseteq {"B"}
  <2>1. CASE Sends(u)
    BY <2>1, UsesAreKept DEF Sends, Kept
  <2>2. CASE "B" \in Held(u) \cup Wants(u)
    BY <2>2, ThreadIsOrderly
  <2> QED
    BY <2>1, <2>2
<1>2. ASSUME NEW w \in waits, w[2] \in S
      PROVE  w[1] \in S
  <2>1. w[1] \in Threads /\ WaitsFor(w[1], w[2])
    OBVIOUS
  <2> QED
    BY <1>1, <1>2, <2>1 DEF WaitsFor
<1>3. "udp" \in Threads \ Sessions /\ "loop" \in Threads \ Sessions
  BY SessionsAssumption DEF Threads, Workers
<1>4. "udp" \notin S
  <2>1. "B" \notin Held("udp") \cup Wants("udp") /\ ~Sends("udp")
    BY <1>3, OffClientsHere
  <2> QED
    BY <2>1
<1>5. "loop" \in S => program["loop"] = "Stop"
  <2> SUFFICES ASSUME program["loop"] /= "Stop"
               PROVE  "loop" \notin S
    OBVIOUS
  <2>1. "B" \notin Held("loop") \cup Wants("loop") /\ ~Sends("loop")
    BY <1>3, OffClientsHere
  <2> QED
    BY <2>1
<1>6. S \in SUBSET (Threads \ {"udp"}) /\ {t \in Threads : Sends(t)} \subseteq S
  BY <1>4
<1> HIDE DEF S
<1> QED
  BY <1>2, <1>5, <1>6 DEF GameGoesOn

\* A client that does not read never holds up the game loop of a running
\* server, nor the UDP thread, with any number of clients.
THEOREM GameNeverHeldUp == Spec => []GameGoesOn
BY TypeCorrect, ChatHoldsUpOnlyItsOwn, PTL

-----------------------------------------------------------------------------
(* Races.                                                                  *)

LEMMA RacesOfTwo ==
    ASSUME TypeOK, MutualExclusion,
           NEW t \in Threads, NEW x \in Uses(t),
           NEW u \in Threads, NEW y \in Uses(u),
           t /= u, x.object = y.object, y.op /= "read"
    PROVE  Known({t, u}, x.object)
<1>1. Kept(t, x) /\ Kept(u, y)
  BY UsesAreKept
<1>2. Held(t) \cap Held(u) = {}
  BY DEF MutualExclusion
<1>3. program[t] = "Delete" => t = "shell"
  BY DEF TypeOK, Programs
<1>4. program[u] = "Delete" => u = "shell"
  BY DEF TypeOK, Programs
<1>5. CASE x.object \in Sessions
  BY <1>1, <1>2, <1>5 DEF Kept, Known
<1>6. CASE x.object = "nextPlayerId"
  BY <1>1, <1>6 DEF Kept, Known
<1>7. CASE x.object = "acceptor"
  BY <1>1, <1>7 DEF Kept, Known
<1>8. CASE x.object \in {"status", "sockets", "A", "B"}
  BY <1>1, <1>2, <1>8 DEF Kept
<1>9. ASSUME x.object \in {"rooms", "players", "entities", "E", "P"}
      PROVE  "udp" \in {t, u}
  BY <1>1, <1>2, <1>9 DEF Kept
<1>10. CASE x.object \in {"rooms", "players"}
  BY <1>9, <1>10 DEF Known
<1>11. CASE x.object \in {"entities", "E", "P"}
  <2>1. program[t] = "Delete" \/ program[u] = "Delete"
    BY <1>1, <1>2, <1>11 DEF Kept
  <2>2. {t, u} = {"udp", "shell"} /\ program["shell"] = "Delete"
    BY <1>3, <1>4, <1>9, <1>11, <2>1
  <2> QED
    BY <1>11, <2>2 DEF Known
<1> QED
  BY <1>1, <1>5, <1>6, <1>7, <1>8, <1>10, <1>11
     DEF Kept, Objects, Shared, Locks

LEMMA GuardsConfineRaces == TypeOK /\ MutualExclusion => OnlyKnownRaces
<1> SUFFICES ASSUME TypeOK, MutualExclusion
             PROVE  OnlyKnownRaces
  OBVIOUS
<1> DEFINE accesses == UNION {{t} \X Uses(t) : t \in Threads}
<1>1. \A a \in accesses : a[1] \in Threads /\ a[2] \in Uses(a[1])
  OBVIOUS
<1> HIDE DEF accesses
<1>2. ASSUME NEW a \in accesses, NEW b \in accesses,
             a[1] /= b[1], a[2].object = b[2].object, b[2].op /= "read"
      PROVE  Known({a[1], b[1]}, a[2].object)
  BY <1>1, <1>2, RacesOfTwo
<1> QED
  BY <1>2 DEF OnlyKnownRaces, accesses

\* Every race is one of those the code has no mutex for (Known), with any
\* number of clients: the rooms, the Games, the socket maps and the sockets
\* of others are otherwise kept apart by the two servers' mutexes.
THEOREM RacesAreKnown == Spec => []OnlyKnownRaces
BY TypeCorrect, LocksExclude, GuardsConfineRaces, PTL

=============================================================================
