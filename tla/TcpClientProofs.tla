--------------------------- MODULE TcpClientProofs ---------------------------
(***************************************************************************)
(* The client and its session over one unframed stream, for any number of  *)
(* clients, rooms and requests under way.                                  *)
(*                                                                         *)
(* Why the client finds its way in the stream is a matter of all that is   *)
(* on it: a room list is on the line up to where it was written, what is   *)
(* waited for comes once and behind every list, and nothing that was asked *)
(* on one screen is left when the next is shown. The invariant says so of  *)
(* the requests, the answer being written and the line of each client.     *)
(***************************************************************************)
EXTENDS TcpClient, FiniteSetTheorems, TLAPS

RoomTable == INSTANCE RoomsProofs WITH PlayerIds <- Clients,
                                       MaxJoins <- Cardinality(Clients)

-----------------------------------------------------------------------------
(* Sequences.                                                              *)

\* What is left of a sequence when its first n elements are taken.
LEMMA RestIs ==
    ASSUME NEW T, NEW s \in Seq(T), NEW n \in 0 .. Len(s)
    PROVE  /\ SubSeq(s, n + 1, Len(s)) \in Seq(T)
           /\ Len(SubSeq(s, n + 1, Len(s))) = Len(s) - n
           /\ \A i \in 1 .. Len(s) - n : SubSeq(s, n + 1, Len(s))[i] = s[i + n]
OBVIOUS

\* One more at the end.
LEMMA AppendIs ==
    ASSUME NEW T, NEW s \in Seq(T), NEW u \in T
    PROVE  /\ Append(s, u) \in Seq(T) /\ Len(Append(s, u)) = Len(s) + 1
           /\ \A i \in 1 .. Len(s) : Append(s, u)[i] = s[i]
           /\ Append(s, u)[Len(s) + 1] = u
OBVIOUS

\* One less at the front.
LEMMA TailIs ==
    ASSUME NEW T, NEW s \in Seq(T), s /= <<>>
    PROVE  /\ Tail(s) \in Seq(T) /\ Len(Tail(s)) = Len(s) - 1
           /\ \A i \in 1 .. Len(s) - 1 : Tail(s)[i] = s[i + 1]
           /\ Head(s) = s[1] /\ s[1] \in T /\ Len(s) \in Nat \ {0}
OBVIOUS

\* SetToSeq is a sequence of the set's elements.
LEMMA SetToSeqIs ==
    ASSUME NEW S, IsFiniteSet(S)
    PROVE  SetToSeq(S) \in Seq(S) /\ Len(SetToSeq(S)) = Cardinality(S)
<1> DEFINE n == Cardinality(S)
<1>1. PICK f \in Bijection(1 .. n, S) : TRUE
    BY FS_CardinalityType DEF ExistsBijection
<1>2. f \in [1 .. n -> S] /\ IsInjective(f)
    BY <1>1 DEF Bijection, Injection, IsInjective
<1>3. SetToSeq(S) \in [1 .. n -> S]
    BY <1>2 DEF SetToSeq
<1>4. n \in Nat
    BY FS_CardinalityType
<1>5. QED
    BY <1>3, <1>4

-----------------------------------------------------------------------------
(* Counting chat packets.                                                  *)

\* The chat packets among the first i units are a finite set.
LEMMA PacketsType ==
    ASSUME NEW s \in Seq(Units), NEW i \in Int
    PROVE  /\ IsFiniteSet({j \in Places(s, "CHAT_MESSAGE") : j <= i})
           /\ Packets(s, i) \in Nat
<1> DEFINE A == {j \in Places(s, "CHAT_MESSAGE") : j <= i}
<1>1. IsFiniteSet(1 .. Len(s))
    BY FS_Interval
<1>2. A \subseteq 1 .. Len(s)
    BY DEF Places
<1>3. IsFiniteSet(A) /\ Cardinality(A) \in Nat
    BY <1>1, <1>2, FS_Subset, FS_CardinalityType
<1>4. QED
    BY <1>3 DEF Packets

LEMMA PacketsNat ==
    ASSUME NEW s \in Seq(Units), NEW i \in Int
    PROVE  Packets(s, i) \in Nat
BY PacketsType

\* The places of the chat packets among the first i units.
ChatsUpTo(s, i) == {j \in Places(s, "CHAT_MESSAGE") : j <= i}

\* A unit at the end counts only there.
LEMMA PacketsAppend ==
    ASSUME NEW s \in Seq(Units), NEW u \in Units
    PROVE  /\ \A i \in 0 .. Len(s) : Packets(Append(s, u), i) = Packets(s, i)
           /\ Packets(Append(s, u), Len(s) + 1)
                = Packets(s, Len(s)) + IF u.type = "CHAT_MESSAGE" THEN 1 ELSE 0
<1> DEFINE t == Append(s, u)
<1>1. /\ t \in Seq(Units) /\ Len(t) = Len(s) + 1 /\ t[Len(s) + 1] = u
      /\ \A i \in 1 .. Len(s) : t[i] = s[i]
    BY AppendIs
<1> HIDE DEF t
<1>2. /\ Len(s) \in Nat /\ DOMAIN s = 1 .. Len(s)
      /\ DOMAIN t = 1 .. Len(s) + 1
    BY <1>1
<1>3. ASSUME NEW i \in 0 .. Len(s)
      PROVE  ChatsUpTo(t, i) = ChatsUpTo(s, i)
    BY <1>2, <1>1 DEF Places, ChatsUpTo
<1>4. ChatsUpTo(t, Len(s) + 1) = IF u.type = "CHAT_MESSAGE"
                         THEN ChatsUpTo(s, Len(s)) \cup {Len(s) + 1}
                         ELSE ChatsUpTo(s, Len(s))
    BY <1>2, <1>1 DEF Places, ChatsUpTo
<1>5. /\ Len(s) + 1 \notin ChatsUpTo(s, Len(s))
      /\ IsFiniteSet(ChatsUpTo(s, Len(s)))
    <2>1. Len(s) + 1 \notin ChatsUpTo(s, Len(s))
        BY <1>2 DEF ChatsUpTo
    <2>2. Len(s) \in Int
        BY <1>2
    <2>3. QED
        BY <2>1, <2>2, PacketsType DEF ChatsUpTo
<1>6. Cardinality(ChatsUpTo(s, Len(s)) \cup {Len(s) + 1})
        = Cardinality(ChatsUpTo(s, Len(s))) + 1
    BY <1>5, FS_AddElement
<1>7. Cardinality(ChatsUpTo(s, Len(s))) \in Nat
    BY <1>5, FS_CardinalityType
<1>8. Packets(t, Len(s) + 1)
        = Packets(s, Len(s)) + IF u.type = "CHAT_MESSAGE" THEN 1 ELSE 0
    <2>1. /\ Packets(t, Len(s) + 1) = Cardinality(ChatsUpTo(t, Len(s) + 1))
          /\ Packets(s, Len(s)) = Cardinality(ChatsUpTo(s, Len(s)))
        BY DEF Packets, ChatsUpTo
    <2>2. CASE u.type = "CHAT_MESSAGE"
        BY <1>4, <1>6, <2>1, <2>2
    <2>3. CASE u.type /= "CHAT_MESSAGE"
        BY <1>4, <1>7, <2>1, <2>3
    <2>4. QED
        BY <2>2, <2>3
<1>9. QED
    BY <1>3, <1>8 DEF Packets, ChatsUpTo, t

\* Those that were taken are counted no more.
LEMMA PacketsRest ==
    ASSUME NEW s \in Seq(Units), NEW n \in 0 .. Len(s),
           NEW i \in 0 .. Len(s) - n
    PROVE  Packets(s, i + n)
             = Packets(s, n) + Packets(SubSeq(s, n + 1, Len(s)), i)
<1> DEFINE t == SubSeq(s, n + 1, Len(s))
           A == {j \in Places(s, "CHAT_MESSAGE") : j <= n}
           B == {j \in Places(s, "CHAT_MESSAGE") : n < j /\ j <= i + n}
           C == {j \in Places(t, "CHAT_MESSAGE") : j <= i}
<1>1. /\ t \in Seq(Units) /\ Len(t) = Len(s) - n
      /\ \A k \in 1 .. Len(s) - n : t[k] = s[k + n]
      /\ DOMAIN s = 1 .. Len(s) /\ DOMAIN t = 1 .. Len(s) - n
      /\ Len(s) \in Nat /\ n \in Nat /\ i \in Nat
    BY RestIs
<1> HIDE DEF t
<1>2. /\ {j \in Places(s, "CHAT_MESSAGE") : j <= i + n} = A \cup B
      /\ A \cap B = {}
    BY <1>1 DEF Places
<1>3. IsFiniteSet(A) /\ IsFiniteSet(A \cup B)
    BY <1>1, <1>2, PacketsType
<1>4. IsFiniteSet(B) /\ IsFiniteSet(C)
    BY <1>1, <1>3, FS_Subset, PacketsType
<1>5. Cardinality(A \cup B) = Cardinality(A) + Cardinality(B)
    <2>1. Cardinality(A \cup B)
            = Cardinality(A) + Cardinality(B) - Cardinality(A \cap B)
        BY <1>3, <1>4, FS_Union
    <2>2. Cardinality(A \cap B) = 0
        BY <1>2, FS_EmptySet
    <2>3. Cardinality(A) \in Nat /\ Cardinality(B) \in Nat
        BY <1>3, <1>4, FS_CardinalityType
    <2>4. QED
        BY <2>1, <2>2, <2>3
<1>6. Cardinality(B) = Cardinality(C)
    <2> DEFINE f == [k \in C |-> k + n]
    <2>1. \A k \in C : k \in 1 .. Len(s) - n /\ k + n \in B
        BY <1>1 DEF Places
    <2>2. \A j \in B : j - n \in C /\ (j - n) + n = j
        BY <1>1 DEF Places
    <2>3. n \in Int /\ \A k \in C : k \in Int
        BY <1>1, <2>1
    <2>4. f \in Bijection(C, B)
        <3>1. f \in [C -> B]
            BY <2>1
        <3>2. \A j, k \in C : f[j] = f[k] => j = k
            BY <2>3
        <3>3. \A j \in B : \E k \in C : f[k] = j
            BY <2>2
        <3> HIDE DEF f
        <3>4. QED
            BY <3>1, <3>2, <3>3
               DEF Bijection, Injection, Surjection, IsInjective
    <2> HIDE DEF f, B, C
    <2>5. QED
        BY <1>4, <2>4, FS_Bijection DEF ExistsBijection
<1>7. Packets(s, i + n) = Packets(s, n) + Packets(t, i)
    BY <1>2, <1>5, <1>6 DEF Packets
<1>8. QED
    BY <1>7 DEF t

\* Without a chat packet among the first n there is none to count, and one
\* that comes first is one.
LEMMA PacketsFirst ==
    ASSUME NEW s \in Seq(Units)
    PROVE  /\ \A n \in 0 .. Len(s) :
                 (\A i \in 1 .. n : s[i].type /= "CHAT_MESSAGE") =>
                     Packets(s, n) = 0
           /\ s /= <<>> /\ s[1].type = "CHAT_MESSAGE" => Packets(s, 1) = 1
<1>1. ASSUME NEW n \in 0 .. Len(s),
             \A i \in 1 .. n : s[i].type /= "CHAT_MESSAGE"
      PROVE  Packets(s, n) = 0
    <2>1. {j \in Places(s, "CHAT_MESSAGE") : j <= n} = {}
        BY <1>1 DEF Places
    <2>2. QED
        BY <2>1, FS_EmptySet DEF Packets
<1>2. ASSUME s /= <<>>, s[1].type = "CHAT_MESSAGE"
      PROVE  Packets(s, 1) = 1
    <2>1. {j \in Places(s, "CHAT_MESSAGE") : j <= 1} = {1}
        BY <1>2 DEF Places
    <2>2. QED
        BY <2>1, FS_Singleton DEF Packets
<1>3. QED
    BY <1>1, <1>2

\* More units have no fewer packets, and a packet is one.
LEMMA PacketsGrow ==
    ASSUME NEW s \in Seq(Units), NEW n \in Int, NEW i \in Int, i <= n
    PROVE  Packets(s, i) <= Packets(s, n)
<1>1. IsFiniteSet(ChatsUpTo(s, n)) /\ IsFiniteSet(ChatsUpTo(s, i))
    BY PacketsType DEF ChatsUpTo
<1>2. ChatsUpTo(s, i) \subseteq ChatsUpTo(s, n)
    BY DEF ChatsUpTo, Places
<1>3. Cardinality(ChatsUpTo(s, i)) <= Cardinality(ChatsUpTo(s, n))
    BY <1>1, <1>2, FS_Subset
<1>4. QED
    BY <1>3 DEF Packets, ChatsUpTo

LEMMA PacketsSome ==
    ASSUME NEW s \in Seq(Units), NEW i \in DOMAIN s,
           s[i].type = "CHAT_MESSAGE"
    PROVE  Packets(s, i) >= 1
<1>1. i \in Int
    OBVIOUS
<1>2. IsFiniteSet(ChatsUpTo(s, i)) /\ i \in ChatsUpTo(s, i)
    BY <1>1, PacketsType DEF ChatsUpTo, Places
<1>3. Cardinality(ChatsUpTo(s, i)) \in Nat /\ Cardinality(ChatsUpTo(s, i)) /= 0
    BY <1>2, FS_CardinalityType, FS_EmptySet
<1>4. QED
    BY <1>3 DEF Packets, ChatsUpTo

-----------------------------------------------------------------------------
(* The invariant.                                                          *)

IsList(u) == u.type = "LIST_ROOMS_RESPONSE"
IsInfo(u) == u.type = "RoomInfo"
IsChat(u) == u.type = "CHAT_MESSAGE"
IsNotice(u) == u.type = "GAME_STARTING_NOTIFICATION"
Quiet(u) == IsChat(u) \/ Harmless(u)

\* The requests the client waits on, and what ends the waiting.
Waits == {"hello", "create", "join"}
IsAsk(r) == r.type \in {"CONNECT", "CREATE_ROOM", "JOIN_ROOM"}
IsFinal(u) ==
    u.type \in {"CONNECT_OK", "CREATE_ROOM_RESPONSE", "JOIN_ROOM_RESPONSE"}

RoomKinds == {"GET_LOBBY_STATE", "START_GAME_REQUEST", "CHAT_MESSAGE"}
Menu == {"USERNAME_INPUT", "MAIN_MENU", "OPTIONS"}
Inside == {"LOBBY", "IN_GAME", "KICKED"}

Seated(c) == session[c] \in {"joining", "room"}

\* The rooms: only those that were created exist, and only those that exist
\* have players.
Rooming ==
    /\ nextRoom <= MaxRooms
    /\ \A r \in RoomIds : r >= nextRoom => status[r] = "NONE"
    /\ \A r \in RoomIds : status[r] = "NONE" => players[r] = {}
    /\ \A r \in RoomIds : IsFiniteSet(players[r])

\* Before it connects a client is in the menus and has written nothing.
Unconnected(c) ==
    /\ pending[c] = "connect" =>
          /\ session[c] = "none" /\ ~up[c] /\ misread[c] = "no"
          /\ requests[c] = <<>> /\ line[c] = <<>>
    /\ screen[c] \in Menu => pending[c] = "connect"

\* Until it is greeted a client asks for nothing else and is sent nothing else.
Greeted(c) ==
    pending[c] = "hello" =>
        /\ ~Seated(c) /\ answer[c] = <<>>
        /\ \A i \in DOMAIN requests[c] : requests[c][i].type = "CONNECT"
        /\ \A i \in DOMAIN line[c] : line[c][i].type = "CONNECT_OK"

\* What the screens say of the state behind them.
Screened(c) ==
    /\ pending[c] \in Waits => screen[c] \in {"ROOM_SELECTION", "EXITING"}
    /\ screen[c] = "EXITING" => ~up[c] /\ line[c] = <<>>
    /\ loops[c] > 0 => screen[c] = "LOBBY"
    /\ screen[c] \notin Inside => starting[c] = FALSE /\ history[c] = <<>>

\* What the session is writing, and where it has its client.
Served(c) ==
    /\ ~up[c] => answer[c] = <<>>
    /\ up[c] => session[c] /= "done"
    /\ Seated(c) => room[c] \in RoomIds /\ room[c] < nextRoom
    /\ \A i \in DOMAIN answer[c] :
          answer[c][i].type \in {"RoomInfo", "LobbyPlayerInfo"}
    /\ session[c] = "joining" => answer[c] = <<>>

\* All that was written is for the loop the session is in; a join ends its
\* stay in the first.
Fitting(c) ==
    up[c] =>
        /\ session[c] = "none" =>
              /\ requests[c] = <<[type |-> "CONNECT"]>> /\ pending[c] = "hello"
              /\ line[c] = <<>> /\ answer[c] = <<>>
        /\ session[c] = "lobby" =>
              \A i \in DOMAIN requests[c] :
                  /\ requests[c][i].type
                        \in {"LIST_ROOMS", "CREATE_ROOM", "JOIN_ROOM"}
                  /\ requests[c][i].type = "JOIN_ROOM" => i = Len(requests[c])
        /\ Seated(c) =>
              \A i \in DOMAIN requests[c] : requests[c][i].type \in RoomKinds

\* The answer that is waited for, once it is on the line, is the only one
\* there, and nothing but chat comes behind it.
Awaited(c) ==
    misread[c] = "no" =>
        \A i \in DOMAIN line[c] : IsFinal(line[c][i]) =>
            /\ pending[c] \in Waits /\ line[c][i].type = Gets[pending[c]]
            /\ \A j \in DOMAIN line[c] : j > i => IsChat(line[c][j])

\* What is waited for was asked last, or answered, and then no request is
\* left.
Owed(c) ==
    misread[c] = "no" /\ up[c] =>
        /\ \A i \in DOMAIN requests[c] : IsAsk(requests[c][i]) =>
              /\ i = Len(requests[c]) /\ pending[c] \in Waits
              /\ requests[c][i].type = Asks[pending[c]]
        /\ \A i \in DOMAIN line[c] : IsFinal(line[c][i]) => requests[c] = <<>>
        /\ pending[c] \in Waits =>
              \/ \E i \in DOMAIN requests[c] : IsAsk(requests[c][i])
              \/ \E i \in DOMAIN line[c] : IsFinal(line[c][i])

\* A client is seated when it is shown so, or has the answer to read.
HasJoined(c) == \E i \in DOMAIN line[c] : line[c][i] = Joined

Placed(c) ==
    misread[c] = "no" /\ up[c] =>
        /\ Seated(c) <=> (screen[c] \in Inside \/ HasJoined(c))
        /\ Seated(c) /\ screen[c] = "ROOM_SELECTION" =>
              requests[c] = <<>> /\ answer[c] = <<>>

\* On the room menu the line is made of lists, each a header and its
\* RoomInfos, the last perhaps still being written; then the answer that is
\* waited for; and chat, once the client was let into a room.
Led(seq) ==
    \A i \in DOMAIN seq : IsInfo(seq[i]) =>
        \E j \in 1 .. i - 1 : IsList(seq[j]) /\ i <= j + seq[j].count

Filled(seq) ==
    \A j \in DOMAIN seq : IsList(seq[j]) =>
        \A i \in DOMAIN seq : j < i /\ i <= j + seq[j].count => IsInfo(seq[i])

Within(seq, n) ==
    \A j \in DOMAIN seq : IsList(seq[j]) => j + seq[j].count <= n

Reaching(seq, n) ==
    \E j \in DOMAIN seq : IsList(seq[j]) /\ j + seq[j].count = n

Browsed(seq) ==
    \A i \in DOMAIN seq :
        \/ IsList(seq[i]) \/ IsInfo(seq[i]) \/ IsFinal(seq[i])
        \/ IsChat(seq[i]) /\ \E j \in 1 .. i - 1 : seq[j] = Joined

Framed(c) ==
    misread[c] = "no" /\ screen[c] = "ROOM_SELECTION" =>
        /\ Led(line[c]) /\ Filled(line[c]) /\ Browsed(line[c])
        /\ session[c] = "lobby" /\ answer[c] /= <<>> =>
              /\ \A i \in DOMAIN answer[c] : IsInfo(answer[c][i])
              /\ Reaching(line[c], Len(line[c]) + Len(answer[c]))
        /\ up[c] =>
              Within(line[c], Len(line[c]) + IF session[c] = "lobby"
                                             THEN Len(answer[c]) ELSE 0)

\* Once the game was announced the lobby's answers have no states any more.
Announced(c) ==
    \/ starting[c] \/ screen[c] = "IN_GAME"
    \/ \E i \in DOMAIN line[c] : IsNotice(line[c][i])

Started(c) ==
    misread[c] = "no" /\ screen[c] \in {"LOBBY", "IN_GAME"} =>
        /\ \A i, j \in DOMAIN line[c] :
              IsNotice(line[c][i]) /\ i < j => Quiet(line[c][j])
        /\ Announced(c) =>
              answer[c] = <<>> /\ (up[c] => status[room[c]] /= "LOBBY")
        /\ starting[c] \/ screen[c] = "IN_GAME" =>
              \A i \in DOMAIN line[c] : Quiet(line[c][i])

\* What is shown of the chat and what is on the line is all that was sent.
Chatted(c) ==
    misread[c] = "no" /\ screen[c] /= "EXITING" =>
        /\ Number(c, Len(line[c])) = Len(chats[c])
        /\ \A i \in DOMAIN history[c] : history[c][i] = chats[c][i]
        /\ \A i \in DOMAIN line[c] :
              IsChat(line[c][i]) => line[c][i].text = chats[c][Number(c, i)]

Good(c) ==
    /\ Unconnected(c) /\ Greeted(c) /\ Screened(c) /\ Served(c) /\ Fitting(c)
    /\ Awaited(c) /\ Owed(c) /\ Placed(c) /\ Framed(c) /\ Started(c)
    /\ Chatted(c) /\ misread[c] /= "other"

Inv == TypeOK /\ Rooming /\ \A c \in Clients : Good(c)

-----------------------------------------------------------------------------
(* The room table.                                                         *)

\* Rooms are created in order, and a room that has left its lobby does not
\* come back to it.
Onward ==
    /\ nextRoom <= nextRoom'
    /\ \A r \in RoomIds :
          r < nextRoom /\ status[r] /= "LOBBY" => status'[r] /= "LOBBY"

LEMMA RoomTypes ==
    /\ MaxRooms \in Nat /\ Cardinality(Clients) \in Nat
    /\ RoomIds = 0 .. MaxRooms - 1
    /\ IsFiniteSet(RoomIds)
<1>1. MaxRooms \in Nat /\ Cardinality(Clients) \in Nat
    BY BoundsAssumption, ClientsAssumption, FS_CardinalityType
<1>2. RoomIds = 0 .. MaxRooms - 1
    BY DEF RoomIds, Table!RoomIds
<1>3. QED
    BY <1>1, <1>2, FS_Interval

\* Each operation of the table keeps it in order.
LEMMA CreateKeepsTable ==
    ASSUME Table!TypeOK, Rooming, Table!OnCreateRoom
    PROVE  Table!TypeOK' /\ Rooming' /\ Onward
<1>1. nextRoom \in RoomIds
    BY RoomTypes DEF Table!TypeOK, Table!OnCreateRoom
<1>2. QED
    BY <1>1, RoomTypes
       DEF Table!TypeOK, Table!OnCreateRoom, Rooming, Onward, RoomIds

LEMMA JoinKeepsTable ==
    ASSUME Table!TypeOK, Rooming, NEW r, NEW c \in Clients,
           Table!OnJoinRoom(r, c)
    PROVE  /\ Table!TypeOK' /\ Rooming' /\ Onward
           /\ r \in RoomIds /\ r < nextRoom
<1> DEFINE entry == [id |-> c, seat |-> joined[r]]
<1>1. /\ r \in RoomIds /\ status[r] = "LOBBY" /\ joined[r] \in Nat
      /\ entry \in Table!Entries
    BY
       DEF Table!OnJoinRoom, Table!CanJoin, Table!TypeOK, RoomIds, Table!Entries
<1>2. r < nextRoom
    BY <1>1, RoomTypes DEF Rooming, Table!TypeOK
<1> HIDE DEF entry
<1>3. /\ players' = [players EXCEPT ![r] = @ \cup {entry}]
      /\ joined' = [joined EXCEPT ![r] = @ + 1]
      /\ status' = status /\ nextRoom' = nextRoom
    BY DEF Table!OnJoinRoom, entry
<1>4. Table!TypeOK'
    BY <1>1, <1>3 DEF Table!TypeOK, RoomIds
<1>5. IsFiniteSet(players[r] \cup {entry})
    BY <1>1, FS_AddElement DEF Rooming
<1>6. \A q \in RoomIds :
          players'[q] = IF q = r THEN players[r] \cup {entry} ELSE players[q]
    BY <1>3 DEF Table!TypeOK, RoomIds
<1>7. Rooming'
    BY <1>1, <1>3, <1>5, <1>6 DEF Rooming
<1>8. Onward
    BY <1>3 DEF Onward, Table!TypeOK
<1>9. QED
    BY <1>1, <1>2, <1>4, <1>7, <1>8

LEMMA StartKeepsTable ==
    ASSUME Table!TypeOK, Rooming, NEW r \in RoomIds, NEW c,
           Table!OnStartGame(r, c)
    PROVE  Table!TypeOK' /\ Rooming' /\ Onward
<1>1. /\ players' = players /\ joined' = joined /\ nextRoom' = nextRoom
      /\ status' \in [RoomIds -> {"NONE", "LOBBY", "PLAYING"}]
      /\ \A q \in RoomIds :
            \/ status'[q] = status[q]
            \/ status[q] /= "NONE" /\ status'[q] = "PLAYING"
    BY DEF Table!OnStartGame, Table!TypeOK, RoomIds
<1>2. Table!TypeOK'
    BY <1>1 DEF Table!TypeOK, RoomIds
<1>3. Rooming'
    BY <1>1 DEF Rooming
<1>4. Onward
    BY <1>1 DEF Onward, Table!TypeOK
<1>5. QED
    BY <1>2, <1>3, <1>4

\* Lists that become shorter, or of rooms that go.
LEMMA ShrinkKeepsTable ==
    ASSUME Table!TypeOK, Rooming,
           joined' = joined, nextRoom' = nextRoom,
           status' \in [RoomIds -> {"NONE", "LOBBY", "PLAYING"}],
           players' \in [RoomIds -> SUBSET Table!Entries],
           \A r \in RoomIds : /\ players'[r] \subseteq players[r]
                              /\ \/ status'[r] = status[r]
                                 \/ status'[r] = "NONE" /\ players'[r] = {}
    PROVE  Table!TypeOK' /\ Rooming' /\ Onward
<1>1. Table!TypeOK'
    BY DEF Table!TypeOK, RoomIds
<1>2. \A r \in RoomIds : IsFiniteSet(players'[r])
    BY FS_Subset DEF Rooming
<1>3. Rooming'
    BY <1>2 DEF Rooming
<1>4. Onward
    BY DEF Onward, Table!TypeOK
<1>5. QED
    BY <1>1, <1>3, <1>4

LEMMA LeaveKeepsTable ==
    ASSUME Table!TypeOK, Rooming, NEW r, NEW c,
           Table!OnPlayerDisconnect(c, r)
    PROVE  Table!TypeOK' /\ Rooming' /\ Onward
<1>1. /\ joined' = joined /\ nextRoom' = nextRoom /\ status' = status
      /\ status \in [RoomIds -> {"NONE", "LOBBY", "PLAYING"}]
    BY DEF Table!OnPlayerDisconnect, Table!TypeOK, RoomIds
<1>2. /\ players' \in [RoomIds -> SUBSET Table!Entries]
      /\ \A q \in RoomIds : players'[q] \subseteq players[q]
    BY DEF Table!OnPlayerDisconnect, Table!TypeOK, Table!Without, RoomIds
<1>3. QED
    BY <1>1, <1>2, ShrinkKeepsTable

LEMMA RemoveKeepsTable ==
    ASSUME Table!TypeOK, Rooming, NEW c, Table!RemoveFromFirst(c)
    PROVE  Table!TypeOK' /\ Rooming' /\ Onward
<1>1. /\ joined' = joined /\ nextRoom' = nextRoom /\ status' = status
      /\ status \in [RoomIds -> {"NONE", "LOBBY", "PLAYING"}]
    BY DEF Table!RemoveFromFirst, Table!TypeOK, RoomIds
<1>2. /\ players' \in [RoomIds -> SUBSET Table!Entries]
      /\ \A q \in RoomIds : players'[q] \subseteq players[q]
    BY DEF Table!RemoveFromFirst, Table!TypeOK, Table!Without, RoomIds
<1>3. QED
    BY <1>1, <1>2, ShrinkKeepsTable

LEMMA DeleteKeepsTable ==
    ASSUME Table!TypeOK, Rooming, NEW r \in RoomIds, Table!DeleteRoom(r)
    PROVE  Table!TypeOK' /\ Rooming' /\ Onward
<1>1. /\ joined' = joined /\ nextRoom' = nextRoom
      /\ status' \in [RoomIds -> {"NONE", "LOBBY", "PLAYING"}]
      /\ players' \in [RoomIds -> SUBSET Table!Entries]
      /\ \A q \in RoomIds : /\ players'[q] \subseteq players[q]
                            /\ \/ status'[q] = status[q]
                               \/ status'[q] = "NONE" /\ players'[q] = {}
    BY DEF Table!DeleteRoom, Table!TypeOK, RoomIds
<1>2. QED
    BY <1>1, ShrinkKeepsTable

LEMMA SameKeepsTable ==
    ASSUME Table!TypeOK, Rooming, UNCHANGED table
    PROVE  Table!TypeOK' /\ Rooming' /\ Onward
<1>1. /\ status' = status /\ players' = players /\ joined' = joined
      /\ nextRoom' = nextRoom
    BY DEF table
<1>2. QED
    BY <1>1 DEF Table!TypeOK, Rooming, Onward

\* The host of a room is a number, of nobody when the room is empty.
LEMMA HostType ==
    ASSUME Table!TypeOK, NEW r \in RoomIds
    PROVE  Table!Host(r) \in Nat /\ (players[r] = {} => Table!Host(r) = 0)
<1>1. CASE players[r] = {}
    BY <1>1 DEF Table!Host, Table!HostOf
<1>2. CASE players[r] /= {}
    <2>1. players[r] \in SUBSET Table!Entries
        BY DEF Table!TypeOK, RoomIds
    <2>2. \E e \in players[r] : Table!IsFront(e, players[r])
        BY <1>2, <2>1, BoundsAssumption, ClientsAssumption,
           RoomTypes, RoomTable!FrontExists
           DEF RoomTable!IsFront, Table!IsFront, RoomTable!Entries, Table!Entries
    <2>3. (CHOOSE e \in players[r] : Table!IsFront(e, players[r])) \in players[r]
        BY <2>2
    <2>4. QED
        BY <1>2, <2>1, <2>3, ClientsAssumption
           DEF Table!Host, Table!HostOf, Table!Entries
<1>3. QED
    BY <1>1, <1>2

-----------------------------------------------------------------------------
(* What the session answers.                                               *)

\* A header, and a RoomInfo for each room it counts.
LEMMA RoomListIs ==
    ASSUME TypeOK
    PROVE  /\ RoomList \in Seq(Units) /\ Len(RoomList) >= 1
           /\ IsList(RoomList[1]) /\ RoomList[1].count = Len(RoomList) - 1
           /\ \A i \in 2 .. Len(RoomList) : IsInfo(RoomList[i])
<1> DEFINE ids == {r \in RoomIds : status[r] /= "NONE"}
           infos == {[type |-> "RoomInfo", id |-> r] : r \in ids}
           header == [type |-> "LIST_ROOMS_RESPONSE", count |-> Cardinality(ids)]
           f == [r \in ids |-> [type |-> "RoomInfo", id |-> r]]
<1>1. IsFiniteSet(ids) /\ Cardinality(ids) \in Nat
    BY RoomTypes, FS_Subset, FS_CardinalityType
<1>2. f \in Bijection(ids, infos)
    BY DEF Bijection, Injection, Surjection, IsInjective
<1> HIDE DEF f
<1>3. IsFiniteSet(infos) /\ Cardinality(infos) = Cardinality(ids)
    BY <1>1, <1>2, FS_Bijection DEF ExistsBijection
<1>4. \A u \in infos : u \in Units /\ IsInfo(u)
    BY DEF Units, IsInfo
<1>5. header \in Units /\ IsList(header) /\ header.count = Cardinality(ids)
    BY <1>1 DEF Units, IsList
<1> HIDE DEF ids, infos, header
<1>6. SetToSeq(infos) \in Seq(infos) /\ Len(SetToSeq(infos)) = Cardinality(ids)
    BY <1>3, SetToSeqIs
<1> DEFINE s == SetToSeq(infos)
<1> HIDE DEF s
<1>7. /\ s \in Seq(Units) /\ Len(s) = Cardinality(ids)
      /\ \A i \in 1 .. Len(s) : IsInfo(s[i])
    BY <1>1, <1>4, <1>6 DEF s
<1>8. RoomList = <<header>> \o s
    BY DEF RoomList, header, infos, ids, s
<1>9. /\ <<header>> \o s \in Seq(Units) /\ Len(<<header>> \o s) = Len(s) + 1
      /\ (<<header>> \o s)[1] = header
      /\ \A i \in 2 .. Len(s) + 1 : (<<header>> \o s)[i] = s[i - 1]
    BY <1>5, <1>7
<1>10. QED
    BY <1>1, <1>5, <1>7, <1>8, <1>9

\* A header and as many players as the room has; nothing of note in a room
\* that was deleted.
LEMMA LobbyStateIs ==
    ASSUME TypeOK, Rooming, NEW r \in RoomIds
    PROVE  /\ LobbyState(r) \in Seq(Units) /\ Len(LobbyState(r)) >= 1
           /\ LobbyState(r)[1].type = "LOBBY_STATE_RESPONSE"
           /\ \A i \in 2 .. Len(LobbyState(r)) :
                 LobbyState(r)[i].type = "LobbyPlayerInfo"
           /\ status[r] = "NONE" =>
                 Len(LobbyState(r)) = 1 /\ Harmless(LobbyState(r)[1])
<1> DEFINE n == Cardinality(players[r])
           header == [type |-> "LOBBY_STATE_RESPONSE",
                      hostId |-> Table!Host(r), playerCount |-> n]
           infos == [i \in 1 .. n |-> [type |-> "LobbyPlayerInfo"]]
<1>1. n \in Nat
    BY FS_CardinalityType DEF Rooming
<1>2. Table!Host(r) \in Nat /\ (players[r] = {} => Table!Host(r) = 0)
    BY HostType DEF TypeOK
<1>3. /\ header \in Units /\ header.type = "LOBBY_STATE_RESPONSE"
      /\ header.hostId = Table!Host(r) /\ header.playerCount = n
    BY <1>1, <1>2 DEF Units
<1>4. [type |-> "LobbyPlayerInfo"] \in Units
    BY DEF Units, Plain
<1>5. status[r] = "NONE" => n = 0 /\ Harmless(header)
    BY <1>2, <1>3, FS_EmptySet DEF Rooming, Harmless
<1> HIDE DEF n, header
<1>6. /\ infos \in Seq(Units) /\ Len(infos) = n
      /\ \A i \in 1 .. n : infos[i].type = "LobbyPlayerInfo"
    BY <1>1, <1>4
<1>7. LobbyState(r) = <<header>> \o infos
    BY DEF LobbyState, header, n
<1> HIDE DEF infos
<1>8. /\ <<header>> \o infos \in Seq(Units) /\ Len(<<header>> \o infos) = n + 1
      /\ (<<header>> \o infos)[1] = header
      /\ \A i \in 2 .. n + 1 : (<<header>> \o infos)[i] = infos[i - 1]
    BY <1>1, <1>3, <1>6
<1>9. QED
    BY <1>1, <1>3, <1>5, <1>6, <1>7, <1>8

-----------------------------------------------------------------------------
(* Clients that a step does not concern.                                   *)

Same(c) ==
    /\ session'[c] = session[c] /\ room'[c] = room[c] /\ up'[c] = up[c]
    /\ requests'[c] = requests[c] /\ answer'[c] = answer[c]
    /\ line'[c] = line[c] /\ screen'[c] = screen[c]
    /\ pending'[c] = pending[c] /\ starting'[c] = starting[c]
    /\ loops'[c] = loops[c] /\ chats'[c] = chats[c]
    /\ history'[c] = history[c] /\ misread'[c] = misread[c]

\* What others do to the table does no harm to a client in a room.
LEMMA RoomStays ==
    ASSUME Table!TypeOK, Table!TypeOK', Onward, NEW c \in Clients, Served(c),
           room'[c] = room[c], session'[c] = session[c]
    PROVE  /\ Seated(c)' => room'[c] \in RoomIds /\ room'[c] < nextRoom'
           /\ Seated(c) /\ status[room[c]] /= "LOBBY" =>
                 status'[room[c]] /= "LOBBY"
<1>1. Seated(c) => room[c] \in RoomIds /\ room[c] < nextRoom
    BY DEF Served
<1>2. nextRoom \in Nat /\ nextRoom' \in Nat /\ nextRoom <= nextRoom'
    BY DEF Table!TypeOK, Onward
<1>3. \A r \in RoomIds : r \in Int
    BY RoomTypes
<1>4. Seated(c) => room[c] < nextRoom'
    BY <1>1, <1>2, <1>3
<1>5. QED
    BY <1>1, <1>4 DEF Onward, Seated

\* Nothing that a client has or is sent changes, and so neither does what
\* holds of it.
LEMMA OthersKeep ==
    ASSUME Table!TypeOK, Table!TypeOK', Onward,
           NEW c \in Clients, Good(c), Same(c)
    PROVE  Good(c)'
<1> USE DEF Good, Same
<1>1. Seated(c)' <=> Seated(c)
    BY DEF Seated
<1>2. /\ Seated(c)' => room'[c] \in RoomIds /\ room'[c] < nextRoom'
      /\ Seated(c) /\ status[room[c]] /= "LOBBY" =>
            status'[room[c]] /= "LOBBY"
    BY RoomStays
<1>3. Unconnected(c)' /\ Greeted(c)' /\ Screened(c)'
    BY <1>1 DEF Unconnected, Greeted, Screened
<1>4. Served(c)'
    BY <1>1, <1>2 DEF Served
<1>5. Fitting(c)' /\ Awaited(c)' /\ Owed(c)'
    BY <1>1 DEF Fitting, Awaited, Owed
<1>6. Placed(c)'
    BY <1>1 DEF Placed, HasJoined
<1>7. Framed(c)'
    BY DEF Framed
<1>8. Started(c)'
    <2>1. up[c] /\ screen[c] \in {"LOBBY", "IN_GAME"} /\ misread[c] = "no" =>
              Seated(c)
        BY DEF Placed, Inside
    <2>2. QED
        BY <1>2, <2>1 DEF Started, Announced
<1>9. Chatted(c)'
    BY DEF Chatted, Number
<1>10. QED
    BY <1>3, <1>4, <1>5, <1>6, <1>7, <1>8, <1>9

\* It is enough to look at the client of a step.
LEMMA StepKeeps ==
    ASSUME Inv, TypeOK', Rooming', Onward, NEW c \in Clients,
           \A d \in Clients \ {c} : Same(d), Good(c)'
    PROVE  Inv'
<1>1. \A d \in Clients \ {c} : Good(d)'
    <2>1. Table!TypeOK /\ Table!TypeOK' /\ \A d \in Clients : Good(d)
        BY DEF Inv, TypeOK
    <2>2. QED
        BY <2>1, OthersKeep
<1>2. QED
    BY <1>1 DEF Inv

-----------------------------------------------------------------------------
(* What lies on a line when its first units are read, or one more arrives. *)

\* What the units of the protocol carry.
LEMMA UnitsAre ==
    ASSUME NEW u \in Units
    PROVE  /\ IsList(u) => u.count \in Nat
           /\ IsInfo(u) => u.id \in RoomIds
           /\ IsChat(u) => u.text \in Chats
           /\ u.type = "CREATE_ROOM_RESPONSE" => u.roomId \in RoomIds
           /\ u.type = "LOBBY_STATE_RESPONSE" =>
                 u.hostId \in Nat /\ u.playerCount \in Nat
BY DEF Units, Plain, IsList, IsInfo, IsChat

\* The first units may be read if they are a list in full, or no list.
Readable(seq, n) ==
    \/ n = 0
    \/ n = 1 /\ ~IsList(seq[1]) /\ seq[1] /= Joined
    \/ n >= 1 /\ IsList(seq[1]) /\ n = 1 + seq[1].count

LEMMA ReadingKeepsFrames ==
    ASSUME NEW s \in Seq(Units), NEW n \in 0 .. Len(s),
           Led(s), Filled(s), Browsed(s), Readable(s, n),
           NEW t, t = SubSeq(s, n + 1, Len(s))
    PROVE  /\ Led(t) /\ Filled(t) /\ Browsed(t)
           /\ \A k \in Nat : Within(s, k) => Within(t, k - n)
           /\ \A k \in Nat : k > n /\ Reaching(s, k) => Reaching(t, k - n)
<1>1. /\ t \in Seq(Units) /\ Len(t) = Len(s) - n
      /\ \A i \in 1 .. Len(s) - n : t[i] = s[i + n]
    BY RestIs
<1>2. /\ Len(s) \in Nat /\ n \in Nat /\ n <= Len(s)
      /\ DOMAIN s = 1 .. Len(s) /\ DOMAIN t = 1 .. Len(s) - n
    BY <1>1
<1>3. \A i \in DOMAIN s : IsList(s[i]) => s[i].count \in Nat
    BY <1>2, UnitsAre
<1>4. /\ \A i \in DOMAIN s : i \in Int /\ i >= 1 /\ i <= Len(s)
      /\ \A i \in DOMAIN t :
            i \in Int /\ i >= 1 /\ i + n \in DOMAIN s /\ t[i] = s[i + n]
      /\ \A i \in DOMAIN s : i > n => i - n \in DOMAIN t /\ t[i - n] = s[i]
    <2>1. \A i \in DOMAIN t :
              i \in Int /\ i >= 1 /\ i + n \in DOMAIN s /\ t[i] = s[i + n]
        BY <1>1, <1>2
    <2>2. ASSUME NEW i \in DOMAIN s, i > n
          PROVE  i - n \in DOMAIN t /\ t[i - n] = s[i]
        <3>1. i - n \in 1 .. Len(s) - n /\ (i - n) + n = i
            BY <1>2, <2>2
        <3>2. QED
            BY <1>1, <1>2, <3>1
    <2>3. QED
        BY <1>2, <2>1, <2>2
<1>5. \A j \in DOMAIN s : j <= n =>
          /\ s[j] /= Joined
          /\ IsList(s[j]) => j + s[j].count <= n
    <2>1. CASE n = 1 /\ ~IsList(s[1]) /\ s[1] /= Joined
        BY <1>2, <2>1
    <2>2. CASE n >= 1 /\ IsList(s[1]) /\ n = 1 + s[1].count
        <3>1. 1 \in DOMAIN s /\ s[1] /= Joined
            BY <1>2, <2>2 DEF IsList, Joined
        <3>2. \A j \in DOMAIN s : 1 < j /\ j <= n => IsInfo(s[j])
            BY <2>2, <3>1 DEF Filled
        <3>3. \A j \in DOMAIN s : 1 < j /\ j <= n =>
                  ~IsList(s[j]) /\ s[j] /= Joined
            BY <3>2 DEF IsInfo, IsList, Joined
        <3>4. QED
            BY <1>2, <2>2, <3>1, <3>3
    <2>3. CASE n = 0
        BY <1>2, <2>3
    <2>4. QED
        BY <2>1, <2>2, <2>3 DEF Readable
<1>6. Led(t)
    <2>1. ASSUME NEW i \in DOMAIN t, IsInfo(t[i])
          PROVE  \E j \in 1 .. i - 1 : IsList(t[j]) /\ i <= j + t[j].count
        <3>1. i + n \in DOMAIN s /\ IsInfo(s[i + n])
            BY <1>4, <2>1
        <3>2. PICK j \in 1 .. (i + n) - 1 :
                  IsList(s[j]) /\ i + n <= j + s[j].count
            BY <3>1 DEF Led
        <3>3. /\ i \in Int /\ i >= 1 /\ n \in Nat /\ j \in Int
              /\ 1 <= j /\ j <= (i + n) - 1 /\ i + n <= Len(s)
              /\ Len(s) \in Nat
            BY <1>2, <1>4, <3>1
        <3>4. j \in DOMAIN s
            BY <1>2, <3>3
        <3>5. s[j].count \in Nat
            BY <1>3, <3>2, <3>4
        <3>6. j > n
            <4>1. j <= n => j + s[j].count <= n
                BY <1>5, <3>2, <3>4
            <4>2. QED
                BY <3>2, <3>3, <3>5, <4>1
        <3>7. j - n \in DOMAIN t /\ t[j - n] = s[j]
            BY <1>4, <3>4, <3>6
        <3>8. j - n \in 1 .. i - 1 /\ i <= (j - n) + s[j].count
            BY <3>2, <3>3, <3>5, <3>6
        <3>9. QED
            BY <3>2, <3>7, <3>8
    <2>2. QED
        BY <2>1 DEF Led
<1>7. Filled(t)
    <2>1. ASSUME NEW j \in DOMAIN t, NEW i \in DOMAIN t, IsList(t[j]),
                 j < i, i <= j + t[j].count
          PROVE  IsInfo(t[i])
        <3>1. /\ j + n \in DOMAIN s /\ i + n \in DOMAIN s
              /\ t[j] = s[j + n] /\ t[i] = s[i + n]
              /\ i \in Int /\ j \in Int
            BY <1>4
        <3>2. s[j + n].count \in Nat
            BY <1>3, <2>1, <3>1
        <3>3. j + n < i + n /\ i + n <= (j + n) + s[j + n].count
            <4> DEFINE m == s[j + n].count
            <4>1. m \in Nat /\ i <= j + m /\ j < i
                BY <2>1, <3>1, <3>2
            <4> HIDE DEF m
            <4>2. j + n < i + n /\ i + n <= (j + n) + m
                BY <1>2, <3>1, <4>1, SMTT(30)
            <4>3. QED
                BY <4>2 DEF m
        <3>4. QED
            BY <2>1, <3>1, <3>3 DEF Filled
    <2>2. QED
        BY <2>1 DEF Filled
<1>8. Browsed(t)
    <2>1. ASSUME NEW i \in DOMAIN t,
                 ~(IsList(t[i]) \/ IsInfo(t[i]) \/ IsFinal(t[i]))
          PROVE  IsChat(t[i]) /\ \E j \in 1 .. i - 1 : t[j] = Joined
        <3>1. i + n \in DOMAIN s /\ t[i] = s[i + n] /\ i \in Int
            BY <1>4
        <3>2. IsChat(t[i])
            BY <2>1, <3>1 DEF Browsed
        <3>3. PICK j \in 1 .. (i + n) - 1 : s[j] = Joined
            BY <2>1, <3>1 DEF Browsed
        <3>4. j \in DOMAIN s /\ j \in Int /\ j >= 1 /\ j <= i + n - 1
            BY <1>2, <3>1, <3>3
        <3>5. j > n
            BY <1>2, <1>5, <3>3, <3>4
        <3>6. j - n \in 1 .. i - 1 /\ t[j - n] = s[j]
            BY <1>4, <1>2, <3>1, <3>4, <3>5
        <3>7. QED
            BY <3>2, <3>3, <3>6
    <2>2. QED
        BY <2>1 DEF Browsed
<1>9. ASSUME NEW k \in Nat, Within(s, k)
      PROVE  Within(t, k - n)
    <2>1. ASSUME NEW j \in DOMAIN t, IsList(t[j])
          PROVE  j + t[j].count <= k - n
        <3>1. j + n \in DOMAIN s /\ t[j] = s[j + n] /\ j \in Int
            BY <1>4
        <3>2. s[j + n].count \in Nat /\ (j + n) + s[j + n].count <= k
            BY <1>3, <1>9, <2>1, <3>1 DEF Within
        <3>3. QED
            BY <1>2, <3>1, <3>2, SMTT(30)
    <2>2. QED
        BY <2>1 DEF Within
<1>10. ASSUME NEW k \in Nat, k > n, Reaching(s, k)
      PROVE  Reaching(t, k - n)
    <2>1. PICK j \in DOMAIN s : IsList(s[j]) /\ j + s[j].count = k
        BY <1>10 DEF Reaching
    <2>2. j > n /\ s[j].count \in Nat
        BY <1>2, <1>3, <1>5, <1>10, <2>1
    <2>3. j - n \in DOMAIN t /\ t[j - n] = s[j] /\ j \in Int
        BY <1>4, <2>2
    <2>4. (j - n) + t[j - n].count = k - n
        <3> DEFINE m == s[j].count
        <3>1. m \in Nat /\ j + m = k
            BY <2>1, <2>2
        <3>2. t[j - n].count = m
            BY <2>3
        <3> HIDE DEF m
        <3>3. n \in Int /\ j \in Int /\ k \in Int
            BY <1>2, <2>3
        <3>4. (j - n) + m = k - n
            BY <3>1, <3>3
        <3>5. QED
            BY <3>2, <3>4
    <2>5. QED
        BY <2>1, <2>3, <2>4 DEF Reaching
<1>11. QED
    BY <1>6, <1>7, <1>8, <1>9, <1>10

\* The same lines, place by place.
LEMMA RestOf ==
    ASSUME NEW s \in Seq(Units), NEW n \in 0 .. Len(s),
           NEW t, t = SubSeq(s, n + 1, Len(s))
    PROVE  /\ t \in Seq(Units) /\ Len(t) = Len(s) - n /\ Len(s) \in Nat
           /\ DOMAIN s = 1 .. Len(s) /\ DOMAIN t = 1 .. Len(s) - n
           /\ \A i \in DOMAIN t :
                 i \in Int /\ i + n \in DOMAIN s /\ t[i] = s[i + n]
           /\ n = Len(s) => t = <<>>
<1>1. /\ t \in Seq(Units) /\ Len(t) = Len(s) - n
      /\ \A i \in 1 .. Len(s) - n : t[i] = s[i + n]
    BY RestIs
<1>2. /\ DOMAIN s = 1 .. Len(s) /\ DOMAIN t = 1 .. Len(s) - n
      /\ Len(s) \in Nat /\ n \in Nat /\ n <= Len(s)
    BY <1>1
<1>3. n = Len(s) => t = <<>>
    BY <1>1, <1>2
<1>4. ASSUME NEW i \in DOMAIN t
      PROVE  i \in Int /\ i + n \in DOMAIN s /\ t[i] = s[i + n]
    <2>1. i \in 1 .. Len(s) - n
        BY <1>2
    <2>2. t[i] = s[i + n]
        BY <1>1, <2>1
    <2>3. i + n \in 1 .. Len(s)
        BY <1>2, <2>1
    <2>4. QED
        BY <1>2, <2>1, <2>2, <2>3
<1>5. QED
    BY <1>1, <1>2, <1>3, <1>4

LEMMA AppendOf ==
    ASSUME NEW s \in Seq(Units), NEW u \in Units, NEW t, t = Append(s, u)
    PROVE  /\ t \in Seq(Units) /\ Len(t) = Len(s) + 1 /\ Len(s) \in Nat
           /\ DOMAIN s = 1 .. Len(s) /\ DOMAIN t = 1 .. Len(s) + 1
           /\ \A i \in DOMAIN s : i \in DOMAIN t /\ t[i] = s[i]
           /\ t[Len(s) + 1] = u
           /\ \A i \in DOMAIN t : i \in DOMAIN s \/ i = Len(s) + 1
<1>1. /\ t \in Seq(Units) /\ Len(t) = Len(s) + 1
      /\ \A i \in 1 .. Len(s) : t[i] = s[i]
      /\ t[Len(s) + 1] = u
    BY AppendIs
<1>2. DOMAIN s = 1 .. Len(s) /\ DOMAIN t = 1 .. Len(s) + 1 /\ Len(s) \in Nat
    BY <1>1
<1>3. QED
    BY <1>1, <1>2

\* What may come next on the line of the room menu.
MayCome(seq, u) ==
    \/ /\ Within(seq, Len(seq))
       /\ \/ IsList(u) \/ IsFinal(u)
          \/ IsChat(u) /\ \E j \in DOMAIN seq : seq[j] = Joined
    \/ IsInfo(u) /\ \E k \in Nat : k > Len(seq) /\ Reaching(seq, k)

LEMMA AppendingKeepsFrames ==
    ASSUME NEW s \in Seq(Units), NEW u \in Units, NEW t, t = Append(s, u),
           Led(s), Filled(s), Browsed(s), MayCome(s, u)
    PROVE  /\ Led(t) /\ Filled(t) /\ Browsed(t)
           /\ \A k \in Nat :
                 /\ Within(s, k) => \/ IsList(u)
                                    \/ Within(t, k)
                 /\ Reaching(s, k) => Reaching(t, k)
           /\ IsList(u) /\ Within(s, Len(s)) =>
                 /\ Within(t, Len(s) + 1 + u.count)
                 /\ Reaching(t, Len(s) + 1 + u.count)
<1>1. /\ t \in Seq(Units) /\ Len(t) = Len(s) + 1 /\ Len(s) \in Nat
      /\ DOMAIN s = 1 .. Len(s) /\ DOMAIN t = 1 .. Len(s) + 1
      /\ \A i \in DOMAIN s : i \in DOMAIN t /\ t[i] = s[i]
      /\ t[Len(s) + 1] = u
      /\ \A i \in DOMAIN t : i \in DOMAIN s \/ i = Len(s) + 1
    BY AppendOf
<1>2. /\ \A i \in DOMAIN s : i \in Int /\ i >= 1 /\ i <= Len(s)
      /\ \A i \in DOMAIN t : i \in Int /\ i >= 1
      /\ \A i \in DOMAIN s : IsList(s[i]) => s[i].count \in Nat
      /\ IsList(u) => u.count \in Nat
      /\ Len(s) + 1 \in Int
    BY <1>1, UnitsAre
<1>3. Led(t)
    <2>1. ASSUME NEW i \in DOMAIN t, IsInfo(t[i])
          PROVE  \E j \in 1 .. i - 1 : IsList(t[j]) /\ i <= j + t[j].count
        <3>1. CASE i \in DOMAIN s
            <4>1. PICK j \in 1 .. i - 1 : IsList(s[j]) /\ i <= j + s[j].count
                BY <1>1, <2>1, <3>1 DEF Led
            <4>2. j \in DOMAIN s /\ t[j] = s[j]
                BY <1>1, <1>2, <3>1
            <4>3. QED
                BY <4>1, <4>2
        <3>2. CASE i = Len(s) + 1
            <4>1. PICK k \in Nat : k > Len(s) /\ Reaching(s, k)
                BY <1>1, <2>1, <3>2
                   DEF MayCome, IsInfo, IsList, IsFinal, IsChat
            <4>2. PICK j \in DOMAIN s : IsList(s[j]) /\ j + s[j].count = k
                BY <4>1 DEF Reaching
            <4>3. t[j] = s[j] /\ j \in 1 .. i - 1
                BY <1>1, <1>2, <3>2
            <4>4. i <= k
                BY <1>1, <3>2, <4>1
            <4>5. QED
                BY <4>2, <4>3, <4>4
        <3>3. QED
            BY <1>1, <3>1, <3>2
    <2>2. QED
        BY <2>1 DEF Led
<1>4. Filled(t)
    <2>1. ASSUME NEW j \in DOMAIN t, NEW i \in DOMAIN t, IsList(t[j]),
                 j < i, i <= j + t[j].count
          PROVE  IsInfo(t[i])
        <3>1. j \in DOMAIN s /\ t[j] = s[j] /\ s[j].count \in Nat
            BY <1>1, <1>2, <2>1
        <3>2. CASE i \in DOMAIN s
            BY <1>1, <2>1, <3>1, <3>2 DEF Filled
        <3>3. CASE i = Len(s) + 1
            <4>1. ~Within(s, Len(s))
                <5>1. SUFFICES ASSUME Within(s, Len(s)) PROVE FALSE
                    OBVIOUS
                <5>2. j + s[j].count <= Len(s)
                    BY <2>1, <3>1, <5>1 DEF Within
                <5>3. i <= j + s[j].count
                    BY <2>1, <3>1
                <5>4. QED
                    <6> DEFINE m == j + s[j].count
                    <6>1. m \in Int /\ m <= Len(s) /\ Len(s) + 1 <= m
                        BY <1>2, <3>1, <3>3, <5>2, <5>3
                    <6> HIDE DEF m
                    <6>2. QED
                        BY <1>1, <6>1
            <4>2. QED
                BY <1>1, <3>3, <4>1 DEF MayCome
        <3>4. QED
            BY <1>1, <3>2, <3>3
    <2>2. QED
        BY <2>1 DEF Filled
<1>5. Browsed(t)
    <2>1. ASSUME NEW i \in DOMAIN t,
                 ~(IsList(t[i]) \/ IsInfo(t[i]) \/ IsFinal(t[i]))
          PROVE  IsChat(t[i]) /\ \E j \in 1 .. i - 1 : t[j] = Joined
        <3>1. CASE i \in DOMAIN s
            <4>1. IsChat(s[i]) /\ t[i] = s[i]
                BY <1>1, <2>1, <3>1 DEF Browsed
            <4>2. PICK j \in 1 .. i - 1 : s[j] = Joined
                BY <1>1, <2>1, <3>1 DEF Browsed
            <4>3. t[j] = s[j]
                BY <1>1, <1>2, <3>1
            <4>4. QED
                BY <4>1, <4>2, <4>3
        <3>2. CASE i = Len(s) + 1
            <4>1. IsChat(u) /\ \E j \in DOMAIN s : s[j] = Joined
                BY <1>1, <2>1, <3>2 DEF MayCome
            <4>2. PICK j \in DOMAIN s : s[j] = Joined
                BY <4>1
            <4>3. j \in 1 .. i - 1 /\ t[j] = s[j]
                BY <1>1, <1>2, <3>2
            <4>4. QED
                BY <1>1, <3>2, <4>1, <4>2, <4>3
        <3>3. QED
            BY <1>1, <3>1, <3>2
    <2>2. QED
        BY <2>1 DEF Browsed
<1>6. ASSUME NEW k \in Nat, Within(s, k), ~IsList(u)
      PROVE  Within(t, k)
    BY <1>1, <1>6 DEF Within
<1>7. ASSUME NEW k \in Nat, Reaching(s, k)
      PROVE  Reaching(t, k)
    BY <1>1, <1>7 DEF Reaching
<1>8. ASSUME IsList(u), Within(s, Len(s))
      PROVE  /\ Within(t, Len(s) + 1 + u.count)
             /\ Reaching(t, Len(s) + 1 + u.count)
    <2> DEFINE n == Len(s)
               m == u.count
    <2>1. n \in Nat /\ m \in Nat
        BY <1>1, <1>2, <1>8
    <2>2. \A j \in DOMAIN s : IsList(s[j]) =>
              j + s[j].count \in Int /\ j + s[j].count <= n
        BY <1>2, <1>8 DEF Within
    <2>3. \A j \in DOMAIN s : IsList(s[j]) => j + s[j].count <= n + 1 + m
        <3>1. \A x \in Int : x <= n => x <= n + 1 + m
            <4> HIDE DEF n, m
            <4>1. QED
                BY <2>1
        <3>2. QED
            BY <2>2, <3>1
    <2>4. Within(t, n + 1 + m)
        <3>1. ASSUME NEW j \in DOMAIN t, IsList(t[j])
              PROVE  j + t[j].count <= n + 1 + m
            <4>1. CASE j \in DOMAIN s
                BY <1>1, <2>3, <3>1, <4>1
            <4>2. CASE j = n + 1
                <5>1. t[j].count = m
                    BY <1>1, <4>2
                <5> HIDE DEF n, m
                <5>2. QED
                    BY <2>1, <4>2, <5>1
            <4>3. QED
                BY <1>1, <4>1, <4>2
        <3>2. QED
            BY <3>1 DEF Within
    <2>5. Reaching(t, n + 1 + m)
        <3>1. n + 1 \in DOMAIN t /\ IsList(t[n + 1]) /\ t[n + 1].count = m
            BY <1>1, <1>8
        <3>2. QED
            BY <3>1 DEF Reaching
    <2>6. QED
        BY <2>4, <2>5
<1>9. QED
    BY <1>3, <1>4, <1>5, <1>6, <1>7, <1>8

-----------------------------------------------------------------------------
(* The operations on the stream that actions share.                        *)

LEMMA Sending ==
    ASSUME TypeOK, NEW c \in Clients, NEW q \in Requests, Send(c, q)
    PROVE  /\ requests' \in [Clients -> Seq(Requests)]
           /\ \A d \in Clients \ {c} : requests'[d] = requests[d]
           /\ requests'[c] = Append(requests[c], q)
           /\ Len(requests'[c]) \in DOMAIN requests'[c]
           /\ requests'[c][Len(requests'[c])] = q
           /\ \A i \in DOMAIN requests'[c] :
                 \/ i = Len(requests'[c])
                 \/ i \in DOMAIN requests[c] /\ requests'[c][i] = requests[c][i]
<1> DEFINE s == requests[c]
           t == Append(s, q)
<1>1. requests \in [Clients -> Seq(Requests)] /\ s \in Seq(Requests)
    BY DEF TypeOK
<1>2. requests' = [requests EXCEPT ![c] = t]
    BY DEF Send
<1>3. /\ t \in Seq(Requests) /\ Len(t) = Len(s) + 1
      /\ \A i \in 1 .. Len(s) : t[i] = s[i]
      /\ t[Len(s) + 1] = q
    BY <1>1, AppendIs
<1>4. /\ DOMAIN s = 1 .. Len(s) /\ DOMAIN t = 1 .. Len(s) + 1
      /\ Len(s) \in Nat
    BY <1>1, <1>3
<1> HIDE DEF s, t
<1>5. /\ requests' \in [Clients -> Seq(Requests)] /\ requests'[c] = t
      /\ \A d \in Clients \ {c} : requests'[d] = requests[d]
    BY <1>1, <1>2, <1>3
<1>6. ASSUME NEW i \in DOMAIN t, i /= Len(t)
      PROVE  i \in DOMAIN s /\ t[i] = s[i]
    <2>1. i \in 1 .. Len(s)
        BY <1>3, <1>4, <1>6
    <2>2. QED
        BY <1>3, <1>4, <2>1
<1>7. Len(t) \in DOMAIN t /\ t[Len(t)] = q
    BY <1>3, <1>4
<1>8. QED
    BY <1>5, <1>6, <1>7 DEF s, t

LEMMA Serving ==
    ASSUME TypeOK, NEW c \in Clients, NEW type, Reads(c, type)
    PROVE  /\ requests' \in [Clients -> Seq(Requests)]
           /\ \A d \in Clients \ {c} : requests'[d] = requests[d]
           /\ answer[c] = <<>> /\ 1 \in DOMAIN requests[c]
           /\ Request(c) = requests[c][1] /\ requests[c][1].type = type
           /\ requests[c][1] \in Requests
           /\ Len(requests'[c]) = Len(requests[c]) - 1
           /\ Len(requests[c]) \in Nat
           /\ Len(requests[c]) = 1 => requests'[c] = <<>>
           /\ \A i \in DOMAIN requests'[c] :
                 /\ i \in Int /\ i + 1 \in DOMAIN requests[c]
                 /\ requests'[c][i] = requests[c][i + 1]
                 /\ i + 1 = Len(requests[c]) => i = Len(requests'[c])
           /\ \A i \in DOMAIN requests[c] : i = 1 \/
                 \E j \in DOMAIN requests'[c] : requests'[c][j] = requests[c][i]
<1> DEFINE s == requests[c]
           t == Tail(s)
<1>1. requests \in [Clients -> Seq(Requests)] /\ s \in Seq(Requests)
    BY DEF TypeOK
<1>2. /\ requests' = [requests EXCEPT ![c] = t] /\ answer[c] = <<>>
      /\ s /= <<>> /\ Head(s).type = type
    BY DEF Reads
<1>3. /\ t \in Seq(Requests) /\ Len(t) = Len(s) - 1
      /\ \A i \in 1 .. Len(s) - 1 : t[i] = s[i + 1]
      /\ Head(s) = s[1] /\ s[1] \in Requests /\ Len(s) \in Nat \ {0}
    BY <1>1, <1>2, TailIs
<1>4. DOMAIN s = 1 .. Len(s) /\ DOMAIN t = 1 .. Len(s) - 1
    BY <1>1, <1>3
<1> HIDE DEF s, t
<1>5. Len(s) = 1 => t = <<>>
    BY <1>3
<1>6. /\ requests' \in [Clients -> Seq(Requests)] /\ requests'[c] = t
      /\ \A d \in Clients \ {c} : requests'[d] = requests[d]
    BY <1>1, <1>2, <1>3
<1>7. ASSUME NEW i \in DOMAIN t
      PROVE  /\ i \in Int /\ i + 1 \in DOMAIN s /\ t[i] = s[i + 1]
             /\ i + 1 = Len(s) => i = Len(t)
    BY <1>3, <1>4
<1>8. 1 \in DOMAIN s
    BY <1>3, <1>4
<1>9. ASSUME NEW i \in DOMAIN s, i /= 1
      PROVE  \E j \in DOMAIN t : t[j] = s[i]
    <2>1. i - 1 \in 1 .. Len(s) - 1 /\ (i - 1) + 1 = i
        BY <1>3, <1>4, <1>9
    <2>2. QED
        BY <1>3, <1>4, <2>1
<1>10. /\ \A i \in DOMAIN t :
            /\ i \in Int /\ i + 1 \in DOMAIN s /\ t[i] = s[i + 1]
            /\ i + 1 = Len(s) => i = Len(t)
      /\ \A i \in DOMAIN s : i = 1 \/ \E j \in DOMAIN t : t[j] = s[i]
    BY <1>7, <1>9
<1>11. Len(t) = Len(s) - 1 /\ Len(s) \in Nat /\ s[1] \in Requests
    BY <1>3
<1>12. QED
    BY <1>5, <1>2, <1>3, <1>6, <1>8, <1>10, <1>11 DEF s, t, Request

LEMMA Answering ==
    ASSUME TypeOK, NEW c \in Clients, NEW w \in Seq(Units), w /= <<>>,
           Answers(c, w)
    PROVE  /\ line' \in [Clients -> Seq(Units)]
           /\ answer' \in [Clients -> Seq(Units)]
           /\ \A d \in Clients \ {c} :
                 line'[d] = line[d] /\ answer'[d] = answer[d]
           /\ w[1] \in Units /\ line[c] \in Seq(Units)
           /\ up[c] => line'[c] = Append(line[c], w[1]) /\ answer'[c] = Tail(w)
           /\ ~up[c] => line'[c] = line[c] /\ answer'[c] = answer[c]
<1>1. /\ line \in [Clients -> Seq(Units)] /\ line[c] \in Seq(Units)
      /\ answer \in [Clients -> Seq(Units)]
    BY DEF TypeOK
<1>2. Tail(w) \in Seq(Units) /\ Head(w) = w[1] /\ w[1] \in Units
    BY TailIs
<1>3. Append(line[c], w[1]) \in Seq(Units)
    BY <1>1, <1>2, AppendIs
<1>4. CASE up[c]
    <2>1. /\ line' = [line EXCEPT ![c] = Append(line[c], w[1])]
          /\ answer' = [answer EXCEPT ![c] = Tail(w)]
        BY <1>2, <1>4 DEF Answers
    <2>2. QED
        BY <1>1, <1>2, <1>3, <1>4, <2>1
<1>5. CASE ~up[c]
    BY <1>1, <1>2, <1>5 DEF Answers
<1>6. QED
    BY <1>4, <1>5

LEMMA Taking ==
    ASSUME TypeOK, NEW c \in Clients, NEW n \in 0 .. Len(line[c]), Consume(c, n)
    PROVE  /\ line' \in [Clients -> Seq(Units)]
           /\ \A d \in Clients \ {c} : line'[d] = line[d]
           /\ line'[c] = SubSeq(line[c], n + 1, Len(line[c]))
           /\ \A i \in DOMAIN line'[c] :
                 /\ i \in Int /\ i >= 1 /\ i + n \in DOMAIN line[c]
                 /\ line'[c][i] = line[c][i + n]
           /\ \A i \in DOMAIN line[c] \ (1 .. n) :
                 \E j \in DOMAIN line'[c] : line'[c][j] = line[c][i]
           /\ n = Len(line[c]) => line'[c] = <<>>
<1>1. line \in [Clients -> Seq(Units)] /\ line[c] \in Seq(Units)
    BY DEF TypeOK
<1> DEFINE t == SubSeq(line[c], n + 1, Len(line[c]))
<1>2. t \in Seq(Units)
    BY <1>1, RestIs
<1>3. /\ line' \in [Clients -> Seq(Units)] /\ line'[c] = t
      /\ \A d \in Clients \ {c} : line'[d] = line[d]
    BY <1>1, <1>2 DEF Consume
<1>4. /\ \A i \in DOMAIN t :
            i \in Int /\ i + n \in DOMAIN line[c] /\ t[i] = line[c][i + n]
      /\ n = Len(line[c]) => t = <<>>
    BY <1>1, RestOf
<1>5. \A i \in DOMAIN t : i >= 1
    BY <1>2
<1>6. \A i \in DOMAIN line[c] \ (1 .. n) : \E j \in DOMAIN t : t[j] = line[c][i]
    <2> DEFINE s == line[c]
    <2>1. /\ Len(s) \in Nat /\ n \in Nat /\ DOMAIN s = 1 .. Len(s)
          /\ DOMAIN t = 1 .. Len(s) - n
          /\ \A k \in 1 .. Len(s) - n : t[k] = s[k + n]
        BY <1>1, RestIs
    <2> HIDE DEF t, s
    <2>2. ASSUME NEW i \in DOMAIN s \ (1 .. n)
          PROVE  \E j \in DOMAIN t : t[j] = s[i]
        <3>1. i - n \in 1 .. Len(s) - n /\ (i - n) + n = i
            BY <2>1
        <3>2. QED
            BY <2>1, <3>1
    <2>3. QED
        BY <2>2 DEF s
<1> HIDE DEF t
<1>7. QED
    BY <1>3, <1>4, <1>5, <1>6 DEF t

\* The first unit on a line, and how far its message reaches.
LEMMA Arriving ==
    ASSUME TypeOK, NEW c \in Clients
    PROVE  /\ line[c] \in Seq(Units) /\ Len(line[c]) \in Nat
           /\ DOMAIN line[c] = 1 .. Len(line[c])
           /\ \A i \in DOMAIN line[c] : line[c][i] \in Units
           /\ Arrived(c) => 1 \in DOMAIN line[c] /\ First(c) = line[c][1]
           /\ Arrived(c) => Length(c) \in Nat \ {0}
           /\ Arrived(c) /\ IsList(First(c)) =>
                 Length(c) = 1 + First(c).count /\ PartOf(First(c)) = "RoomInfo"
           /\ Arrived(c) /\ First(c).type \notin
                  {"LIST_ROOMS_RESPONSE", "LOBBY_STATE_RESPONSE"} => Length(c) = 1
<1>1. /\ line[c] \in Seq(Units) /\ Len(line[c]) \in Nat
      /\ DOMAIN line[c] = 1 .. Len(line[c])
      /\ \A i \in DOMAIN line[c] : line[c][i] \in Units
    BY DEF TypeOK
<1>2. ASSUME Arrived(c)
      PROVE  1 \in DOMAIN line[c] /\ First(c) = line[c][1] /\ First(c) \in Units
    BY <1>1, <1>2, TailIs DEF Arrived, First
<1>3. ASSUME Arrived(c)
      PROVE  Following(First(c)) \in Nat
    <2>1. First(c).type = "LOBBY_STATE_RESPONSE" => First(c).playerCount \in Nat
        BY <1>2, <1>3, UnitsAre
    <2>2. First(c).type = "LIST_ROOMS_RESPONSE" => First(c).count \in Nat
        BY <1>2, <1>3, UnitsAre DEF IsList
    <2>3. QED
        BY <2>1, <2>2 DEF Following
<1>4. QED
    BY <1>1, <1>2, <1>3 DEF Length, Following, PartOf, IsList

-----------------------------------------------------------------------------
(* What reading and writing do to the frames and to the chat.              *)

LEMMA TakenFramed ==
    ASSUME TypeOK, NEW c \in Clients, Framed(c), misread[c] = "no",
           screen[c] = "ROOM_SELECTION", NEW n \in 0 .. Len(line[c]),
           Readable(line[c], n),
           line'[c] = SubSeq(line[c], n + 1, Len(line[c])),
           session'[c] = session[c], answer'[c] = answer[c], up'[c] = up[c]
    PROVE  Framed(c)'
<1> DEFINE s == line[c]
           t == line'[c]
           w == answer[c]
           m == Len(w)
<1>1. /\ s \in Seq(Units) /\ Len(s) \in Nat /\ m \in Nat
      /\ (w /= <<>> => m >= 1) /\ n \in Nat /\ n <= Len(s)
    BY DEF TypeOK
<1>2. /\ Led(s) /\ Filled(s) /\ Browsed(s)
      /\ session[c] = "lobby" /\ w /= <<>> =>
            (\A i \in DOMAIN w : IsInfo(w[i])) /\ Reaching(s, Len(s) + m)
      /\ up[c] /\ session[c] = "lobby" => Within(s, Len(s) + m)
      /\ up[c] /\ session[c] /= "lobby" => Within(s, Len(s) + 0)
    BY DEF Framed
<1>3. /\ Led(t) /\ Filled(t) /\ Browsed(t)
      /\ \A k \in Nat : Within(s, k) => Within(t, k - n)
      /\ \A k \in Nat : k > n /\ Reaching(s, k) => Reaching(t, k - n)
      /\ Len(t) = Len(s) - n
    BY <1>1, <1>2, ReadingKeepsFrames, RestOf
<1> HIDE DEF s, t, m
<1>4. /\ (Len(s) + m) - n = Len(t) + m /\ (Len(s) + 0) - n = Len(t) + 0
      /\ Len(s) + m \in Nat /\ Len(s) + 0 \in Nat
      /\ m >= 1 => Len(s) + m > n
    <2> DEFINE l == Len(s)
    <2>1. l \in Nat /\ m \in Nat /\ n \in Nat /\ n <= l /\ Len(t) = l - n
        BY <1>1, <1>3
    <2> HIDE DEF l
    <2>2. /\ (l + m) - n = (l - n) + m /\ (l + 0) - n = (l - n) + 0
          /\ l + m \in Nat /\ l + 0 \in Nat
          /\ m >= 1 => l + m > n
        BY <2>1
    <2>3. QED
        BY <2>1, <2>2 DEF l
<1>5. /\ session[c] = "lobby" /\ w /= <<>> => Reaching(t, Len(t) + m)
      /\ up[c] /\ session[c] = "lobby" => Within(t, Len(t) + m)
      /\ up[c] /\ session[c] /= "lobby" => Within(t, Len(t) + 0)
    <2>1. Reaching(s, Len(s) + m) /\ m >= 1 => Reaching(t, (Len(s) + m) - n)
        BY <1>3, <1>4
    <2>2. Within(s, Len(s) + m) => Within(t, (Len(s) + m) - n)
        BY <1>3, <1>4
    <2>3. Within(s, Len(s) + 0) => Within(t, (Len(s) + 0) - n)
        BY <1>3, <1>4
    <2>4. QED
        BY <1>1, <1>2, <1>4, <2>1, <2>2, <2>3
<1>6. QED
    BY <1>2, <1>3, <1>5 DEF Framed, s, t, m

LEMMA TakenChatted ==
    ASSUME TypeOK, NEW c \in Clients, Chatted(c), misread[c] = "no",
           screen[c] /= "EXITING", NEW n \in 0 .. Len(line[c]),
           \A i \in 1 .. n : ~IsChat(line[c][i]),
           line'[c] = SubSeq(line[c], n + 1, Len(line[c])),
           history'[c] = history[c], chats'[c] = chats[c]
    PROVE  Chatted(c)'
<1> DEFINE s == line[c]
           t == line'[c]
<1>1. s \in Seq(Units) /\ n \in 0 .. Len(s) /\ Len(history[c]) \in Nat
    BY DEF TypeOK
<1>2. Packets(s, n) = 0
    BY <1>1, PacketsFirst DEF IsChat
<1>3. \A i \in 0 .. Len(s) - n :
          Packets(s, i + n) = Packets(s, n) + Packets(t, i)
    BY <1>1, PacketsRest
<1>4. /\ t \in Seq(Units) /\ Len(t) = Len(s) - n /\ Len(s) \in Nat
      /\ DOMAIN s = 1 .. Len(s) /\ DOMAIN t = 1 .. Len(s) - n
      /\ \A i \in DOMAIN t : i \in Int /\ i + n \in DOMAIN s /\ t[i] = s[i + n]
    BY <1>1, RestOf
<1>5. /\ Number(c, Len(s)) = Len(chats[c])
      /\ \A i \in DOMAIN history[c] : history[c][i] = chats[c][i]
      /\ \A i \in DOMAIN s : IsChat(s[i]) => s[i].text = chats[c][Number(c, i)]
    BY DEF Chatted
<1>6. \A i : Number(c, i) = Len(history[c]) + Packets(s, i)
    BY DEF Number
<1>7. \A i : Number(c, i)' = Len(history[c]) + Packets(t, i)
    BY DEF Number
<1> HIDE DEF s, t
<1>8. ASSUME NEW i \in 0 .. Len(s) - n
      PROVE  Packets(t, i) = Packets(s, i + n)
    <2>1. Packets(s, i + n) = Packets(s, n) + Packets(t, i)
        BY <1>3
    <2>2. i \in Int
        BY <1>1, <1>4
    <2>3. Packets(t, i) \in Nat
        BY <1>4, <2>2, PacketsNat
    <2>4. QED
        BY <1>2, <2>1, <2>3
<1>9. Packets(t, Len(t)) = Packets(s, Len(s))
    <2>1. Len(s) - n \in 0 .. Len(s) - n /\ (Len(s) - n) + n = Len(s)
        BY <1>1, <1>4
    <2>2. QED
        BY <1>4, <1>8, <2>1
<1>10. \A i \in DOMAIN t : i \in 0 .. Len(s) - n
    BY <1>4
<1>11. \A i \in DOMAIN t : IsChat(t[i]) =>
           t[i].text = chats[c][Len(history[c]) + Packets(t, i)]
    <2>1. ASSUME NEW i \in DOMAIN t, IsChat(t[i])
          PROVE  t[i].text = chats[c][Len(history[c]) + Packets(t, i)]
        <3>1. i + n \in DOMAIN s /\ t[i] = s[i + n]
            BY <1>4
        <3>2. s[i + n].text = chats[c][Number(c, i + n)]
            BY <1>5, <2>1, <3>1
        <3>3. QED
            BY <1>6, <1>8, <1>10, <3>1, <3>2
    <2>2. QED
        BY <2>1
<1>12. Len(history[c]) + Packets(t, Len(t)) = Len(chats[c])
    BY <1>5, <1>6, <1>9
<1>13. QED
    BY <1>5, <1>7, <1>11, <1>12 DEF Chatted, t

\* The chat packet that comes first is shown.
LEMMA HeardChatted ==
    ASSUME TypeOK, NEW c \in Clients, Chatted(c), misread[c] = "no",
           screen[c] /= "EXITING", 1 \in DOMAIN line[c], IsChat(line[c][1]),
           line'[c] = SubSeq(line[c], 2, Len(line[c])),
           history'[c] = Append(history[c], line[c][1].text),
           chats'[c] = chats[c]
    PROVE  Chatted(c)'
<1> DEFINE s == line[c]
           t == line'[c]
           h == history[c]
           g == history'[c]
<1>1. /\ s \in Seq(Units) /\ 1 \in 0 .. Len(s) /\ s /= <<>>
      /\ Len(h) \in Nat /\ h \in Seq(Chats)
    BY DEF TypeOK
<1>2. Packets(s, 1) = 1
    BY <1>1, PacketsFirst DEF IsChat
<1>3. t = SubSeq(s, 1 + 1, Len(s))
    OBVIOUS
<1>4. \A i \in 0 .. Len(s) - 1 :
          Packets(s, i + 1) = Packets(s, 1) + Packets(t, i)
    BY <1>1, <1>3, PacketsRest
<1>5. /\ t \in Seq(Units) /\ Len(t) = Len(s) - 1 /\ Len(s) \in Nat
      /\ DOMAIN s = 1 .. Len(s) /\ DOMAIN t = 1 .. Len(s) - 1
      /\ \A i \in DOMAIN t : i \in Int /\ i + 1 \in DOMAIN s /\ t[i] = s[i + 1]
    BY <1>1, <1>3, RestOf
<1>6. /\ Number(c, Len(s)) = Len(chats[c])
      /\ \A i \in DOMAIN h : h[i] = chats[c][i]
      /\ \A i \in DOMAIN s : IsChat(s[i]) => s[i].text = chats[c][Number(c, i)]
    BY DEF Chatted
<1>7. \A i : Number(c, i) = Len(h) + Packets(s, i)
    BY DEF Number
<1>8. \A i : Number(c, i)' = Len(g) + Packets(t, i)
    BY DEF Number
<1>9. s[1].text \in Chats
    BY <1>1, UnitsAre
<1>10. /\ Len(g) = Len(h) + 1 /\ DOMAIN g = 1 .. Len(h) + 1
       /\ \A i \in 1 .. Len(h) : g[i] = h[i]
       /\ g[Len(h) + 1] = s[1].text /\ DOMAIN h = 1 .. Len(h)
    <2>1. g = Append(h, s[1].text)
        OBVIOUS
    <2>2. /\ g \in Seq(Chats) /\ Len(g) = Len(h) + 1
          /\ \A i \in 1 .. Len(h) : g[i] = h[i]
          /\ g[Len(h) + 1] = s[1].text
        BY <1>1, <1>9, <2>1, AppendIs
    <2> HIDE DEF g, h
    <2>3. h \in Seq(Chats)
        BY <1>1
    <2>4. QED
        BY <2>2, <2>3
<1> HIDE DEF s, t, h, g
<1>11. ASSUME NEW i \in 0 .. Len(s) - 1
       PROVE  Len(g) + Packets(t, i) = Len(h) + Packets(s, i + 1)
    <2>1. Packets(s, i + 1) = 1 + Packets(t, i)
        BY <1>2, <1>4
    <2>2. i \in Int
        BY <1>5
    <2>3. Packets(t, i) \in Nat
        BY <1>5, <2>2, PacketsNat
    <2>4. QED
        BY <1>1, <1>10, <2>1, <2>3
<1>12. Len(g) + Packets(t, Len(t)) = Len(chats[c])
    <2>1. Len(s) - 1 \in 0 .. Len(s) - 1 /\ (Len(s) - 1) + 1 = Len(s)
        BY <1>1, <1>5
    <2>2. Len(g) + Packets(t, Len(s) - 1) = Len(h) + Packets(s, Len(s))
        BY <1>11, <2>1
    <2>3. QED
        BY <1>5, <1>6, <1>7, <2>2
<1>13. \A i \in DOMAIN t : IsChat(t[i]) =>
           t[i].text = chats[c][Len(g) + Packets(t, i)]
    <2>1. ASSUME NEW i \in DOMAIN t, IsChat(t[i])
          PROVE  t[i].text = chats[c][Len(g) + Packets(t, i)]
        <3>1. i + 1 \in DOMAIN s /\ t[i] = s[i + 1] /\ i \in 0 .. Len(s) - 1
            BY <1>5
        <3>2. s[i + 1].text = chats[c][Number(c, i + 1)]
            BY <1>6, <2>1, <3>1
        <3>3. QED
            BY <1>7, <1>11, <3>1, <3>2
    <2>2. QED
        BY <2>1
<1>14. \A i \in DOMAIN g : g[i] = chats[c][i]
    <2>1. g[Len(h) + 1] = chats[c][Len(h) + 1]
        <3>1. s[1].text = chats[c][Number(c, 1)]
            BY <1>6 DEF s
        <3>2. QED
            BY <1>2, <1>7, <1>10, <3>1
    <2>2. QED
        BY <1>1, <1>6, <1>10, <2>1
<1>15. QED
    BY <1>8, <1>12, <1>13, <1>14 DEF Chatted, t, g

\* A unit that is no chat packet is not counted.
LEMMA PutChatted ==
    ASSUME TypeOK, NEW c \in Clients, Chatted(c), NEW u \in Units, ~IsChat(u),
           line'[c] = Append(line[c], u), history'[c] = history[c],
           chats'[c] = chats[c], misread'[c] = misread[c],
           screen'[c] = screen[c]
    PROVE  Chatted(c)'
<1> SUFFICES ASSUME misread[c] = "no", screen[c] /= "EXITING"
             PROVE  Chatted(c)'
    BY DEF Chatted
<1> DEFINE s == line[c]
           t == line'[c]
<1>1. s \in Seq(Units) /\ Len(history[c]) \in Nat /\ t = Append(s, u)
    BY DEF TypeOK
<1>2. /\ Len(t) = Len(s) + 1 /\ Len(s) \in Nat
      /\ DOMAIN s = 1 .. Len(s) /\ t[Len(s) + 1] = u
      /\ \A i \in DOMAIN s : t[i] = s[i]
      /\ \A i \in DOMAIN t : i \in DOMAIN s \/ i = Len(s) + 1
    BY <1>1, AppendOf
<1>3. /\ \A i \in 0 .. Len(s) : Packets(t, i) = Packets(s, i)
      /\ Packets(t, Len(s) + 1) = Packets(s, Len(s)) + 0
    BY <1>1, PacketsAppend DEF IsChat
<1>4. Packets(t, Len(t)) = Packets(s, Len(s))
    <2>1. Packets(s, Len(s)) \in Nat
        <3>1. Len(s) \in Int
            BY <1>2
        <3> HIDE DEF s
        <3>2. QED
            BY <1>1, <3>1, PacketsNat
    <2>2. QED
        BY <1>2, <1>3, <2>1
<1>5. /\ Len(history[c]) + Packets(s, Len(s)) = Len(chats[c])
      /\ \A i \in DOMAIN history[c] : history[c][i] = chats[c][i]
      /\ \A i \in DOMAIN s : IsChat(s[i]) =>
            s[i].text = chats[c][Len(history[c]) + Packets(s, i)]
    BY DEF Chatted, Number
<1>6. \A i \in DOMAIN t : IsChat(t[i]) =>
          t[i].text = chats[c][Len(history[c]) + Packets(t, i)]
    BY <1>2, <1>3, <1>5
<1>7. Len(history[c]) + Packets(t, Len(t)) = Len(chats[c])
    BY <1>4, <1>5
<1> HIDE DEF s, t
<1>8. QED
    BY <1>5, <1>6, <1>7 DEF Chatted, Number, t

\* A packet that is sent is the next.
LEMMA ToldChatted ==
    ASSUME TypeOK, NEW c \in Clients, Chatted(c), NEW u \in Units, IsChat(u),
           line'[c] = Append(line[c], u), history'[c] = history[c],
           chats'[c] = Append(chats[c], u.text), misread'[c] = misread[c],
           screen'[c] = screen[c]
    PROVE  Chatted(c)'
<1> SUFFICES ASSUME misread[c] = "no", screen[c] /= "EXITING"
             PROVE  Chatted(c)'
    BY DEF Chatted
<1> DEFINE s == line[c]
           t == line'[c]
           k == chats[c]
           l == chats'[c]
           h == history[c]
<1>1. /\ s \in Seq(Units) /\ Len(h) \in Nat /\ t = Append(s, u)
      /\ k \in Seq(Chats) /\ u.text \in Chats /\ DOMAIN h = 1 .. Len(h)
    BY UnitsAre DEF TypeOK
<1>2. /\ Len(t) = Len(s) + 1 /\ Len(s) \in Nat
      /\ DOMAIN s = 1 .. Len(s) /\ t[Len(s) + 1] = u
      /\ \A i \in DOMAIN s : t[i] = s[i]
      /\ \A i \in DOMAIN t : i \in DOMAIN s \/ i = Len(s) + 1
    BY <1>1, AppendOf
<1>3. /\ Len(l) = Len(k) + 1 /\ Len(k) \in Nat /\ l[Len(k) + 1] = u.text
      /\ \A i \in 1 .. Len(k) : l[i] = k[i]
    BY <1>1, AppendIs
<1>4. /\ \A i \in 0 .. Len(s) : Packets(t, i) = Packets(s, i)
      /\ Packets(t, Len(s) + 1) = Packets(s, Len(s)) + 1
    BY <1>1, PacketsAppend DEF IsChat
<1>5. /\ Len(h) + Packets(s, Len(s)) = Len(k)
      /\ \A i \in DOMAIN h : h[i] = k[i]
      /\ \A i \in DOMAIN s : IsChat(s[i]) =>
            s[i].text = k[Len(h) + Packets(s, i)]
    BY DEF Chatted, Number
<1>6. /\ Packets(s, Len(s)) \in Nat
      /\ \A i \in DOMAIN s : /\ Packets(s, i) \in Nat
                             /\ Packets(s, i) <= Packets(s, Len(s))
    <2>1. Len(s) \in Int /\ \A i \in DOMAIN s : i \in Int /\ i <= Len(s)
        BY <1>2
    <2>2. /\ Packets(s, Len(s)) \in Nat
          /\ \A i \in DOMAIN s : Packets(s, i) \in Nat
        BY <1>1, <2>1, PacketsNat
    <2>3. \A i \in DOMAIN s : Packets(s, i) <= Packets(s, Len(s))
        BY <1>1, <2>1, PacketsGrow
    <2>4. QED
        BY <2>2, <2>3
<1>7. \A i \in DOMAIN s : IsChat(s[i]) => Packets(s, i) >= 1
    BY <1>1, <1>2, PacketsSome DEF IsChat
<1> HIDE DEF s, t, k, l, h
<1>8. Len(h) + Packets(t, Len(t)) = Len(l)
    <2> DEFINE m == Packets(s, Len(s))
    <2>1. Packets(t, Len(t)) = m + 1
        BY <1>2, <1>4
    <2>2. m \in Nat /\ Len(h) \in Nat /\ Len(h) + m = Len(k)
        BY <1>1, <1>5, <1>6
    <2> HIDE DEF m
    <2>3. QED
        BY <1>3, <2>1, <2>2
<1>9. \A i \in DOMAIN h : h[i] = l[i]
    BY <1>1, <1>3, <1>5, <1>6
<1>10. ASSUME NEW i \in DOMAIN t, IsChat(t[i])
       PROVE  t[i].text = l[Len(h) + Packets(t, i)]
    <2>1. CASE i \in DOMAIN s
        <3>1. Packets(t, i) = Packets(s, i)
            BY <1>2, <1>4, <2>1
        <3>2. Len(h) + Packets(s, i) \in 1 .. Len(k)
            BY <1>1, <1>2, <1>5, <1>6, <1>7, <1>10, <2>1
        <3>3. QED
            BY <1>2, <1>3, <1>5, <1>10, <2>1, <3>1, <3>2
    <2>2. CASE i = Len(s) + 1
        <3>1. Len(h) + Packets(t, i) = Len(k) + 1
            BY <1>1, <1>4, <1>5, <1>6, <2>2, SMTT(30)
        <3>2. QED
            BY <1>2, <1>3, <2>2, <3>1
    <2>3. QED
        BY <1>2, <2>1, <2>2
<1>11. QED
    BY <1>8, <1>9, <1>10 DEF Chatted, Number, t, l, h

-----------------------------------------------------------------------------
(* The steps of a client.                                                  *)

LEMMA NoFrames ==
    Led(<<>>) /\ Filled(<<>>) /\ Browsed(<<>>) /\ \A k : Within(<<>>, k)
BY DEF Led, Filled, Browsed, Within

\* The menus have nothing to do with the connection.
LEMMA MenusKeep ==
    ASSUME Inv, NEW c \in Clients, Menus(c)
    PROVE  Inv'
<1>1. TypeOK /\ Table!TypeOK /\ Rooming /\ Good(c)
    BY DEF Inv, TypeOK
<1>2. /\ Unconnected(c) /\ Greeted(c) /\ Screened(c) /\ Served(c)
      /\ Fitting(c) /\ Awaited(c) /\ Owed(c) /\ Placed(c) /\ Framed(c)
      /\ Started(c) /\ Chatted(c) /\ misread[c] /= "other"
    BY <1>1 DEF Good
<1>3. /\ UNCHANGED <<table, server, up, stream, pending, loops, misread,
                   view, talk>>
      /\ screen' \in [Clients -> Screens]
      /\ \A d \in Clients \ {c} : screen'[d] = screen[d]
      /\ \/ screen[c] \in Menu /\ screen'[c] \in Menu \cup {"ROOM_SELECTION"}
         \/ screen[c] = "ROOM_SELECTION" /\ pending[c] = "connect"
            /\ screen'[c] = "MAIN_MENU"
         \/ screen[c] = "IN_GAME" /\ screen'[c] = "KICKED"
    BY <1>1
       DEF Menus, Show, UsernameInput, MainMenu, OptionsMenu, Menu, TypeOK,
           Screens
<1>4. Table!TypeOK' /\ Rooming' /\ Onward
    BY <1>1, <1>3, SameKeepsTable
<1>5. TypeOK'
    BY <1>1, <1>3, <1>4 DEF TypeOK, server, stream, view, talk
<1>6. \A d \in Clients \ {c} : Same(d)
    BY <1>3 DEF Same, server, stream, view, talk
<1>7. /\ session'[c] = session[c] /\ room'[c] = room[c] /\ up'[c] = up[c]
      /\ requests'[c] = requests[c] /\ answer'[c] = answer[c]
      /\ line'[c] = line[c] /\ pending'[c] = pending[c]
      /\ starting'[c] = starting[c] /\ loops'[c] = loops[c]
      /\ chats'[c] = chats[c] /\ history'[c] = history[c]
      /\ misread'[c] = misread[c]
    BY <1>3 DEF server, stream, view, talk
<1>8. Unconnected(c)' /\ Greeted(c)' /\ Served(c)' /\ Fitting(c)'
    BY <1>3, <1>7, <1>2
       DEF Unconnected, Greeted, Served, Fitting, Seated, Menu, table
<1>9. Screened(c)'
    BY <1>3, <1>7, <1>2 DEF Screened, Unconnected, Waits, Menu, Inside
<1>10. Awaited(c)' /\ Owed(c)'
    BY <1>7, <1>2 DEF Awaited, Owed
<1>11. Placed(c)'
    BY <1>3, <1>7, <1>2
       DEF Placed, HasJoined, Seated, Inside, Menu, Unconnected
<1>12. Framed(c)'
    BY <1>3, <1>7, <1>2, NoFrames DEF Framed, Unconnected, Menu
<1>13. Started(c)'
    BY <1>3, <1>7, <1>2 DEF Started, Menu
<1>14. Chatted(c)'
    BY <1>3, <1>7, <1>2 DEF Chatted, Number, Menu
<1>15. QED
    BY <1>1, <1>3, <1>4, <1>5, <1>6, <1>7, <1>2, <1>8, <1>9, <1>10, <1>11,
       <1>12, <1>13, <1>14, StepKeeps
       DEF Good

\* The program ends, and nothing is left of its state.
LEMMA QuitKeeps ==
    ASSUME Inv, NEW c \in Clients, Quit(c)
    PROVE  Inv'
<1>1. TypeOK /\ Table!TypeOK /\ Rooming /\ Good(c)
    BY DEF Inv, TypeOK
<1>2. /\ Unconnected(c) /\ Greeted(c) /\ Screened(c) /\ Served(c)
      /\ Fitting(c) /\ Awaited(c) /\ Owed(c) /\ Placed(c) /\ Framed(c)
      /\ Started(c) /\ Chatted(c) /\ misread[c] /= "other"
    BY <1>1 DEF Good
<1>3. /\ UNCHANGED <<table, server, requests, loops, misread, said, chats>>
      /\ screen' \in [Clients -> Screens] /\ up' \in [Clients -> BOOLEAN]
      /\ answer' \in [Clients -> Seq(Units)]
      /\ line' \in [Clients -> Seq(Units)]
      /\ rooms' \in [Clients -> SUBSET RoomIds] /\ hostId' \in [Clients -> Nat]
      /\ drawn' \in [Clients -> Nat] /\ starting' \in [Clients -> BOOLEAN]
      /\ history' \in [Clients -> Seq(Chats)]
      /\ pending' \in [Clients -> Pendings]
      /\ \A d \in Clients \ {c} :
            /\ screen'[d] = screen[d] /\ up'[d] = up[d]
            /\ answer'[d] = answer[d]
            /\ line'[d] = line[d] /\ starting'[d] = starting[d]
            /\ history'[d] = history[d] /\ pending'[d] = pending[d]
      /\ screen'[c] = "EXITING" /\ ~up'[c] /\ line'[c] = <<>>
      /\ answer'[c] = <<>> /\ starting'[c] = FALSE /\ history'[c] = <<>>
      /\ pending[c] /= "hello" /\ loops[c] = 0
      /\ pending'[c] = IF pending[c] = "connect" THEN "connect" ELSE "none"
    <2>1. /\ up' \in [Clients -> BOOLEAN]
          /\ answer' \in [Clients -> Seq(Units)]
          /\ ~up'[c] /\ answer'[c] = <<>>
          /\ \A d \in Clients \ {c} : up'[d] = up[d] /\ answer'[d] = answer[d]
        <3>1. CASE up[c]
            <4>1. /\ up' = [up EXCEPT ![c] = FALSE]
                  /\ answer' = [answer EXCEPT ![c] = <<>>]
                BY <3>1 DEF Quit, Cut
            <4>2. QED
                BY <1>1, <4>1 DEF TypeOK
        <3>2. CASE ~up[c]
            <4>1. up' = up /\ answer' = answer
                BY <3>2 DEF Quit
            <4>2. QED
                BY <1>1, <1>2, <3>2, <4>1 DEF TypeOK, Served
        <3>3. QED
            BY <3>1, <3>2
    <2>2. /\ screen' \in [Clients -> Screens] /\ screen'[c] = "EXITING"
          /\ \A d \in Clients \ {c} : screen'[d] = screen[d]
        BY <1>1 DEF Quit, TypeOK, Screens
    <2>3. /\ line' \in [Clients -> Seq(Units)] /\ line'[c] = <<>>
          /\ \A d \in Clients \ {c} : line'[d] = line[d]
        BY <1>1 DEF Quit, Forget, TypeOK
    <2>4. /\ rooms' \in [Clients -> SUBSET RoomIds]
          /\ hostId' \in [Clients -> Nat] /\ drawn' \in [Clients -> Nat]
        BY <1>1 DEF Quit, Forget, TypeOK
    <2>5. /\ starting' \in [Clients -> BOOLEAN] /\ starting'[c] = FALSE
          /\ \A d \in Clients \ {c} : starting'[d] = starting[d]
        BY <1>1 DEF Quit, Forget, TypeOK
    <2>6. /\ history' \in [Clients -> Seq(Chats)] /\ history'[c] = <<>>
          /\ \A d \in Clients \ {c} : history'[d] = history[d]
        BY <1>1 DEF Quit, Forget, TypeOK
    <2>7. /\ pending' \in [Clients -> Pendings]
          /\ \A d \in Clients \ {c} : pending'[d] = pending[d]
          /\ pending'[c] = IF pending[c] = "connect" THEN "connect" ELSE "none"
        BY <1>1 DEF Quit, Forget, TypeOK, Pendings
    <2>8. QED
        BY <2>1, <2>2, <2>3, <2>4, <2>5, <2>6, <2>7 DEF Quit
<1>4. Table!TypeOK' /\ Rooming' /\ Onward
    BY <1>1, <1>3, SameKeepsTable
<1>5. TypeOK'
    BY <1>1, <1>3, <1>4 DEF TypeOK, server
<1>6. \A d \in Clients \ {c} : Same(d)
    BY <1>3 DEF Same, server
<1>7. /\ session'[c] = session[c] /\ room'[c] = room[c]
      /\ requests'[c] = requests[c] /\ loops'[c] = loops[c]
      /\ chats'[c] = chats[c] /\ misread'[c] = misread[c]
    BY <1>3 DEF server
<1>8. /\ Unconnected(c)' /\ Greeted(c)' /\ Screened(c)' /\ Served(c)'
      /\ Fitting(c)'
    BY <1>3, <1>7, <1>2
       DEF Unconnected, Greeted, Screened, Served, Fitting, Seated, Menu,
           Inside, Waits, table
<1>9. /\ Awaited(c)' /\ Owed(c)' /\ Placed(c)' /\ Framed(c)' /\ Started(c)'
      /\ Chatted(c)'
    BY <1>3, <1>7, <1>2 DEF Awaited, Owed, Placed, Framed, Started, Chatted
<1>10. QED
    BY <1>1, <1>3, <1>4, <1>5, <1>6, <1>7, <1>2, <1>8, <1>9, StepKeeps
       DEF Good

\* On the room menu, with no request under way.
LEMMA OnMenu ==
    ASSUME TypeOK, NEW c \in Clients, Good(c), Browsing(c)
    PROVE  /\ misread[c] = "no" /\ screen[c] = "ROOM_SELECTION"
           /\ pending[c] = "none"
           /\ \A i \in DOMAIN line[c] : ~IsFinal(line[c][i])
           /\ Arrived(c) => IsList(First(c))
           /\ up[c] => /\ session[c] = "lobby"
                       /\ \A i \in DOMAIN requests[c] : ~IsAsk(requests[c][i])
<1>1. /\ misread[c] = "no" /\ screen[c] = "ROOM_SELECTION"
      /\ pending[c] = "none" /\ pending[c] \notin Waits
    BY DEF Browsing, InStep, Waits
<1>2. \A i \in DOMAIN line[c] : ~IsFinal(line[c][i])
    BY <1>1 DEF Good, Awaited
<1>3. Led(line[c]) /\ Browsed(line[c])
    BY <1>1 DEF Good, Framed
<1>4. Arrived(c) => IsList(First(c))
    <2>1. SUFFICES ASSUME Arrived(c) PROVE IsList(line[c][1])
        BY Arriving
    <2>2. 1 \in DOMAIN line[c] /\ ~IsFinal(line[c][1])
        BY <1>2, <2>1, Arriving
    <2>3. \A j : j \notin 1 .. 1 - 1
        OBVIOUS
    <2>4. QED
        BY <1>3, <2>2, <2>3 DEF Led, Browsed
<1>5. ASSUME up[c]
      PROVE  session[c] = "lobby"
    <2>1. ~HasJoined(c)
        BY <1>2 DEF HasJoined, Joined, IsFinal
    <2>2. ~Seated(c)
        BY <1>1, <1>5, <2>1 DEF Good, Placed, Inside
    <2>3. session[c] /= "none" /\ session[c] /= "done"
        BY <1>1, <1>5 DEF Good, Fitting, Served
    <2>4. QED
        BY <2>2, <2>3 DEF TypeOK, Seated
<1>6. ASSUME up[c], NEW i \in DOMAIN requests[c]
      PROVE  ~IsAsk(requests[c][i])
    BY <1>1, <1>6 DEF Good, Owed
<1>7. QED
    BY <1>1, <1>2, <1>4, <1>5, <1>6

\* On the room menu, waiting for an answer: lists come before it, and
\* behind it nothing but chat.
LEMMA OnAnswer ==
    ASSUME TypeOK, NEW c \in Clients, Good(c), InStep(c),
           pending[c] \in {"create", "join"}
    PROVE  /\ misread[c] = "no" /\ screen[c] = "ROOM_SELECTION"
           /\ Arrived(c) => \/ IsList(First(c))
                            \/ /\ IsFinal(First(c))
                               /\ First(c).type = Gets[pending[c]]
                               /\ \A i \in DOMAIN line[c] :
                                     i > 1 => IsChat(line[c][i])
<1>1. /\ misread[c] = "no" /\ screen[c] = "ROOM_SELECTION"
      /\ pending[c] \in Waits
    BY DEF InStep, Waits, Good, Screened
<1>2. Led(line[c]) /\ Browsed(line[c])
    BY <1>1 DEF Good, Framed
<1>3. ASSUME Arrived(c)
      PROVE  \/ IsList(First(c))
             \/ /\ IsFinal(First(c)) /\ First(c).type = Gets[pending[c]]
                /\ \A i \in DOMAIN line[c] : i > 1 => IsChat(line[c][i])
    <2>1. 1 \in DOMAIN line[c] /\ First(c) = line[c][1]
        BY <1>3, Arriving
    <2>2. \A j : j \notin 1 .. 1 - 1
        OBVIOUS
    <2>3. IsList(line[c][1]) \/ IsFinal(line[c][1])
        BY <1>2, <2>1, <2>2 DEF Led, Browsed
    <2>4. IsFinal(line[c][1]) =>
              /\ line[c][1].type = Gets[pending[c]]
              /\ \A i \in DOMAIN line[c] : i > 1 => IsChat(line[c][i])
        BY <1>1, <2>1 DEF Good, Awaited
    <2>5. QED
        BY <2>1, <2>3, <2>4
<1>4. QED
    BY <1>1, <1>3

\* In a room nothing is waited for.
LEMMA OnInside ==
    ASSUME TypeOK, NEW c \in Clients, Good(c), misread[c] = "no",
           screen[c] \in Inside
    PROVE  /\ pending[c] \notin Waits
           /\ \A i \in DOMAIN line[c] : ~IsFinal(line[c][i])
           /\ ~HasJoined(c)
           /\ up[c] => /\ Seated(c)
                       /\ \A i \in DOMAIN requests[c] : ~IsAsk(requests[c][i])
<1>1. pending[c] \notin Waits
    BY DEF Good, Screened, Inside
<1>2. \A i \in DOMAIN line[c] : ~IsFinal(line[c][i])
    BY <1>1 DEF Good, Awaited
<1>3. ~HasJoined(c)
    BY <1>2 DEF HasJoined, Joined, IsFinal
<1>4. up[c] => Seated(c)
    BY DEF Good, Placed
<1>5. up[c] => \A i \in DOMAIN requests[c] : ~IsAsk(requests[c][i])
    BY <1>1 DEF Good, Owed
<1>6. QED
    BY <1>1, <1>2, <1>3, <1>4, <1>5

\* The connection is made and the first request written.
LEMMA ConnectKeeps ==
    ASSUME Inv, NEW c \in Clients, Connect(c)
    PROVE  Inv'
<1>1. TypeOK /\ Table!TypeOK /\ Rooming /\ Good(c)
    BY DEF Inv, TypeOK
<1>2. /\ Unconnected(c) /\ Greeted(c) /\ Screened(c) /\ Served(c)
      /\ Fitting(c) /\ Awaited(c) /\ Owed(c) /\ Placed(c) /\ Framed(c)
      /\ Started(c) /\ Chatted(c) /\ misread[c] /= "other"
    BY <1>1 DEF Good
<1>3. /\ UNCHANGED <<table, server, answer, line, screen, loops, misread,
                   view, talk>>
      /\ requests' \in [Clients -> Seq(Requests)]
      /\ requests'[c] = <<[type |-> "CONNECT"]>>
      /\ up' \in [Clients -> BOOLEAN] /\ pending' \in [Clients -> Pendings]
      /\ up'[c] /\ pending[c] = "connect" /\ pending'[c] = "hello"
      /\ screen[c] = "ROOM_SELECTION"
      /\ \A d \in Clients \ {c} :
            /\ requests'[d] = requests[d] /\ up'[d] = up[d]
            /\ pending'[d] = pending[d]
    <2>1. [type |-> "CONNECT"] \in Requests
        BY DEF Requests, Plain
    <2>2. /\ requests[c] = <<>>
          /\ Append(<<>>, [type |-> "CONNECT"]) = <<[type |-> "CONNECT"]>>
        BY <1>2 DEF Connect, Unconnected
    <2>3. /\ requests' \in [Clients -> Seq(Requests)]
          /\ requests'[c] = <<[type |-> "CONNECT"]>>
          /\ \A d \in Clients \ {c} : requests'[d] = requests[d]
        BY <1>1, <2>1, <2>2, Sending DEF Connect
    <2>4. QED
        BY <1>1, <2>3 DEF Connect, TypeOK, Pendings
<1>4. Table!TypeOK' /\ Rooming' /\ Onward
    BY <1>1, <1>3, SameKeepsTable
<1>5. TypeOK'
    BY <1>1, <1>3, <1>4 DEF TypeOK, server, view, talk
<1>6. \A d \in Clients \ {c} : Same(d)
    BY <1>3 DEF Same, server, view, talk
<1>7. /\ session'[c] = session[c] /\ room'[c] = room[c]
      /\ answer'[c] = answer[c] /\ line'[c] = line[c]
      /\ screen'[c] = screen[c] /\ starting'[c] = starting[c]
      /\ loops'[c] = loops[c] /\ chats'[c] = chats[c]
      /\ history'[c] = history[c] /\ misread'[c] = misread[c]
    BY <1>3 DEF server, view, talk
<1>8. Unconnected(c)' /\ Screened(c)' /\ Served(c)'
    BY <1>3, <1>7, <1>2
       DEF Unconnected, Screened, Served, Seated, Menu, Waits, Inside, table
<1>9. Greeted(c)' /\ Fitting(c)'
    BY <1>3, <1>7, <1>2 DEF Greeted, Fitting, Unconnected, Seated, Served
<1>10. Awaited(c)' /\ Owed(c)'
    BY <1>3, <1>7, <1>2 DEF Awaited, Owed, Unconnected, Waits, IsAsk, Asks
<1>11. Placed(c)'
    BY <1>3, <1>7, <1>2 DEF Placed, HasJoined, Seated, Inside, Unconnected
<1>12. Framed(c)'
    BY <1>3, <1>7, <1>2, NoFrames DEF Framed, Unconnected, Served
<1>13. Started(c)' /\ Chatted(c)'
    BY <1>3, <1>7, <1>2 DEF Started, Chatted, Number
<1>14. QED
    BY <1>1, <1>3, <1>4, <1>5, <1>6, <1>7, <1>2, <1>8, <1>9, <1>10, <1>11,
       <1>12, <1>13, StepKeeps
       DEF Good

\* The greeting is the only unit on the line.
LEMMA ConnectAnsweredKeeps ==
    ASSUME Inv, NEW c \in Clients, ConnectAnswered(c)
    PROVE  Inv'
<1>1. TypeOK /\ Table!TypeOK /\ Rooming /\ Good(c)
    BY DEF Inv, TypeOK
<1>2. /\ Unconnected(c) /\ Greeted(c) /\ Screened(c) /\ Served(c)
      /\ Fitting(c) /\ Awaited(c) /\ Owed(c) /\ Placed(c) /\ Framed(c)
      /\ Started(c) /\ Chatted(c) /\ misread[c] /= "other"
    BY <1>1 DEF Good
<1>3. /\ UNCHANGED <<table, server, up, requests, answer, screen, loops,
                   view, talk>>
      /\ line' \in [Clients -> Seq(Units)]
      /\ line'[c] = SubSeq(line[c], 1 + 1, Len(line[c]))
      /\ misread' \in [Clients -> {"no", "getRooms", "getLobbyState", "other"}]
      /\ pending' \in [Clients -> Pendings]
      /\ misread[c] = "no" /\ pending[c] = "hello" /\ pending'[c] = "none"
      /\ screen[c] = "ROOM_SELECTION" /\ misread'[c] = "no"
      /\ 1 \in 0 .. Len(line[c]) /\ 1 \in DOMAIN line[c]
      /\ line[c][1].type = "CONNECT_OK"
      /\ \A i \in DOMAIN line'[c] : i >= 1 /\ i + 1 \in DOMAIN line[c]
            /\ i + 1 > 1 /\ line'[c][i] = line[c][i + 1]
      /\ \A d \in Clients \ {c} :
            /\ line'[d] = line[d] /\ misread'[d] = misread[d]
            /\ pending'[d] = pending[d]
    <2>1. /\ misread[c] = "no" /\ pending[c] = "hello" /\ Arrived(c)
          /\ screen[c] = "ROOM_SELECTION"
        BY <1>2 DEF ConnectAnswered, InStep, Screened, Waits
    <2>2. /\ 1 \in DOMAIN line[c] /\ First(c) = line[c][1]
          /\ 1 \in 0 .. Len(line[c])
        BY <1>1, <2>1, Arriving
    <2>3. line[c][1].type = "CONNECT_OK"
        BY <1>2, <2>1, <2>2 DEF Greeted
    <2>4. /\ line' \in [Clients -> Seq(Units)]
          /\ line'[c] = SubSeq(line[c], 1 + 1, Len(line[c]))
          /\ \A d \in Clients \ {c} : line'[d] = line[d]
          /\ \A i \in DOMAIN line'[c] :
                /\ i \in Int /\ i >= 1 /\ i + 1 \in DOMAIN line[c]
                /\ line'[c][i] = line[c][i + 1]
        BY <1>1, <2>2, Taking DEF ConnectAnswered
    <2>5. \A i \in DOMAIN line'[c] : i + 1 > 1
        BY <2>4
    <2>6. /\ misread' \in [Clients ->
                           {"no", "getRooms", "getLobbyState", "other"}]
          /\ misread'[c] = "no"
          /\ \A d \in Clients \ {c} : misread'[d] = misread[d]
        BY <1>1, <2>1, <2>2, <2>3 DEF ConnectAnswered, Outcome, TypeOK
    <2>7. /\ pending' \in [Clients -> Pendings] /\ pending'[c] = "none"
          /\ \A d \in Clients \ {c} : pending'[d] = pending[d]
        BY <1>1 DEF ConnectAnswered, TypeOK, Pendings
    <2>8. QED
        BY <2>1, <2>2, <2>3, <2>4, <2>5, <2>6, <2>7 DEF ConnectAnswered
<1>4. Table!TypeOK' /\ Rooming' /\ Onward
    BY <1>1, <1>3, SameKeepsTable
<1>5. TypeOK'
    BY <1>1, <1>3, <1>4 DEF TypeOK, server, view, talk
<1>6. \A d \in Clients \ {c} : Same(d)
    BY <1>3 DEF Same, server, view, talk
<1>7. /\ session'[c] = session[c] /\ room'[c] = room[c] /\ up'[c] = up[c]
      /\ requests'[c] = requests[c] /\ answer'[c] = answer[c]
      /\ screen'[c] = screen[c] /\ starting'[c] = starting[c]
      /\ loops'[c] = loops[c] /\ chats'[c] = chats[c]
      /\ history'[c] = history[c]
    BY <1>3 DEF server, view, talk
<1>8. Unconnected(c)' /\ Greeted(c)' /\ Screened(c)' /\ Served(c)'
    BY <1>3, <1>7, <1>2
       DEF Unconnected, Greeted, Screened, Served, Seated, Menu, Waits,
           Inside, table
<1>9. Fitting(c)'
    BY <1>3, <1>7, <1>2 DEF Fitting, Seated
<1>10. Awaited(c)'
    BY <1>3, <1>7, <1>2 DEF Awaited, Greeted, IsFinal, IsChat
<1>11. Owed(c)'
    BY <1>3, <1>7, <1>2 DEF Owed, Waits, IsAsk, IsFinal
<1>12. Placed(c)'
    BY <1>3, <1>7, <1>2 DEF Placed, HasJoined, Seated, Greeted, Joined
<1>13. Framed(c)'
    <2>1. Readable(line[c], 1)
        BY <1>3 DEF Readable, IsList, Joined
    <2>2. QED
        BY <1>1, <1>3, <1>7, <1>2, <2>1, TakenFramed
<1>14. Started(c)'
    BY <1>3, <1>7, <1>2 DEF Started
<1>15. Chatted(c)'
    <2>1. \A i \in 1 .. 1 : ~IsChat(line[c][i])
        BY <1>3 DEF IsChat
    <2>2. QED
        BY <1>1, <1>3, <1>7, <1>2, <2>1, TakenChatted
<1>16. QED
    BY <1>1, <1>3, <1>4, <1>5, <1>6, <1>7, <1>2, <1>8, <1>9, <1>10, <1>11,
       <1>12, <1>13, <1>14, <1>15, StepKeeps
       DEF Good

\* The program gives up.
LEMMA ConnectFailsKeeps ==
    ASSUME Inv, NEW c \in Clients, ConnectFails(c)
    PROVE  Inv'
<1>1. TypeOK /\ Table!TypeOK /\ Rooming /\ Good(c)
    BY DEF Inv, TypeOK
<1>2. /\ Unconnected(c) /\ Greeted(c) /\ Screened(c) /\ Served(c)
      /\ Fitting(c) /\ Awaited(c) /\ Owed(c) /\ Placed(c) /\ Framed(c)
      /\ Started(c) /\ Chatted(c) /\ misread[c] /= "other"
    BY <1>1 DEF Good
<1>3. /\ UNCHANGED <<table, server, up, stream, pending, loops, misread,
                   view, talk>>
      /\ screen' \in [Clients -> Screens]
      /\ \A d \in Clients \ {c} : screen'[d] = screen[d]
      /\ screen[c] = "ROOM_SELECTION" /\ screen'[c] = "EXITING"
      /\ ~up[c] /\ line[c] = <<>> /\ pending[c] = "hello"
    BY <1>1 DEF ConnectFails, Show, TypeOK, Screens
<1>4. Table!TypeOK' /\ Rooming' /\ Onward
    BY <1>1, <1>3, SameKeepsTable
<1>5. TypeOK'
    BY <1>1, <1>3, <1>4 DEF TypeOK, server, stream, view, talk
<1>6. \A d \in Clients \ {c} : Same(d)
    BY <1>3 DEF Same, server, stream, view, talk
<1>7. /\ session'[c] = session[c] /\ room'[c] = room[c] /\ up'[c] = up[c]
      /\ requests'[c] = requests[c] /\ answer'[c] = answer[c]
      /\ line'[c] = line[c] /\ pending'[c] = pending[c]
      /\ starting'[c] = starting[c] /\ loops'[c] = loops[c]
      /\ chats'[c] = chats[c] /\ history'[c] = history[c]
      /\ misread'[c] = misread[c]
    BY <1>3 DEF server, stream, view, talk
<1>8. /\ Unconnected(c)' /\ Greeted(c)' /\ Screened(c)' /\ Served(c)'
      /\ Fitting(c)'
    BY <1>3, <1>7, <1>2
       DEF Unconnected, Greeted, Screened, Served, Fitting, Seated, Menu,
           Waits, Inside, table
<1>9. /\ Awaited(c)' /\ Owed(c)' /\ Placed(c)' /\ Framed(c)' /\ Started(c)'
      /\ Chatted(c)'
    BY <1>3, <1>7, <1>2 DEF Awaited, Owed, Placed, Framed, Started, Chatted
<1>10. QED
    BY <1>1, <1>3, <1>4, <1>5, <1>6, <1>7, <1>2, <1>8, <1>9, StepKeeps
       DEF Good

\* The list is asked for, and read as far as it has come.
LEMMA GetRoomsKeeps ==
    ASSUME Inv, NEW c \in Clients, GetRooms(c)
    PROVE  Inv'
<1>1. TypeOK /\ Table!TypeOK /\ Rooming /\ Good(c)
    BY DEF Inv, TypeOK
<1>2. /\ Unconnected(c) /\ Greeted(c) /\ Screened(c) /\ Served(c)
      /\ Fitting(c) /\ Awaited(c) /\ Owed(c) /\ Placed(c) /\ Framed(c)
      /\ Started(c) /\ Chatted(c) /\ misread[c] /= "other"
    BY <1>1 DEF Good
<1>3. /\ UNCHANGED <<table, server, up, answer, screen, pending, loops,
                   hostId, starting, drawn, talk>>
      /\ line' \in [Clients -> Seq(Units)]
      /\ rooms' \in [Clients -> SUBSET RoomIds]
      /\ misread' \in [Clients -> {"no", "getRooms", "getLobbyState", "other"}]
      /\ misread'[c] \in {"no", "getRooms"}
      /\ \/ line'[c] = line[c]
         \/ misread'[c] = "no" => \E n \in 0 .. Len(line[c]) :
               /\ Readable(line[c], n) /\ \A i \in 1 .. n : ~IsChat(line[c][i])
               /\ line'[c] = SubSeq(line[c], n + 1, Len(line[c]))
      /\ \A i \in DOMAIN line'[c] : \E j \in DOMAIN line[c] : line'[c][i] = line[c][j]
      /\ requests' \in [Clients -> Seq(Requests)]
      /\ IF up[c] THEN \A i \in DOMAIN requests'[c] :
                          \/ requests'[c][i].type = "LIST_ROOMS"
                          \/ i \in DOMAIN requests[c] /\ requests'[c][i] = requests[c][i]
                 ELSE requests'[c] = requests[c]
      /\ \A d \in Clients \ {c} :
            /\ line'[d] = line[d] /\ misread'[d] = misread[d]
            /\ requests'[d] = requests[d]
    <2>1. /\ misread[c] = "no" /\ (Arrived(c) => IsList(First(c)))
          /\ screen[c] = "ROOM_SELECTION"
        BY <1>1, OnMenu DEF GetRooms
    <2>2. /\ requests' \in [Clients -> Seq(Requests)]
          /\ \A d \in Clients \ {c} : requests'[d] = requests[d]
          /\ IF up[c] THEN \A i \in DOMAIN requests'[c] :
                             \/ requests'[c][i].type = "LIST_ROOMS"
                             \/ /\ i \in DOMAIN requests[c]
                                /\ requests'[c][i] = requests[c][i]
                    ELSE requests'[c] = requests[c]
        <3>1. CASE up[c]
            <4>1. [type |-> "LIST_ROOMS"] \in Requests
                BY DEF Requests, Plain
            <4>2. Send(c, [type |-> "LIST_ROOMS"])
                BY <3>1 DEF GetRooms
            <4>3. QED
                BY <1>1, <3>1, <4>1, <4>2, Sending
        <3>2. CASE ~up[c]
            BY <1>1, <3>2 DEF GetRooms, TypeOK
        <3>3. QED
            BY <3>1, <3>2
    <2>3. CASE ~Arrived(c)
        <3>1. line' = line /\ rooms' = rooms /\ misread' = misread
            BY <2>3 DEF GetRooms
        <3>2. QED
            BY <1>1, <2>1, <2>2, <3>1 DEF GetRooms, TypeOK
    <2>4. CASE Arrived(c)
        <3> DEFINE l == Len(line[c])
                   k == Length(c)
                   n == Least(l, k)
        <3>1. /\ 1 \in DOMAIN line[c] /\ First(c) = line[c][1]
              /\ IsList(First(c)) /\ k = 1 + First(c).count
              /\ l \in Nat /\ k \in Nat \ {0} /\ DOMAIN line[c] = 1 .. l
            BY <1>1, <2>1, <2>4, Arriving
        <3>2. /\ Consume(c, n)
              /\ rooms' = [rooms EXCEPT ![c] = {line[c][i].id : i \in 2 .. n}]
              /\ misread' = [misread EXCEPT ![c] =
                    IF n < k THEN "getRooms" ELSE misread[c]]
            BY <2>4, <3>1 DEF GetRooms, IsList
        <3> HIDE DEF l, k
        <3>3. n \in 0 .. l /\ n <= k /\ (n < k \/ n = k) /\ n >= 1
            BY <3>1 DEF Least
        <3>4. n \in 0 .. Len(line[c])
            BY <3>3 DEF l
        <3> HIDE DEF n
        <3>5. /\ line' \in [Clients -> Seq(Units)]
              /\ \A d \in Clients \ {c} : line'[d] = line[d]
              /\ line'[c] = SubSeq(line[c], n + 1, Len(line[c]))
              /\ \A i \in DOMAIN line'[c] :
                    \E j \in DOMAIN line[c] : line'[c][i] = line[c][j]
            BY <1>1, <3>2, <3>4, Taking
        <3>6. \A i \in 2 .. n : i \in DOMAIN line[c] /\ IsInfo(line[c][i])
            <4>1. Filled(line[c])
                BY <1>2, <2>1 DEF Framed
            <4>2. ASSUME NEW i \in 2 .. n
                  PROVE  i \in DOMAIN line[c] /\ 1 < i /\ i <= 1 + line[c][1].count
                BY <3>1, <3>3, <4>2
            <4>3. QED
                BY <3>1, <4>1, <4>2 DEF Filled
        <3>7. rooms' \in [Clients -> SUBSET RoomIds]
            <4>1. \A i \in 2 .. n : line[c][i].id \in RoomIds
                BY <1>1, <3>6, Arriving, UnitsAre
            <4>2. QED
                BY <1>1, <3>2, <4>1 DEF TypeOK
        <3>8. /\ misread' \in [Clients ->
                                 {"no", "getRooms", "getLobbyState", "other"}]
              /\ misread'[c] = IF n < k THEN "getRooms" ELSE misread[c]
              /\ \A d \in Clients \ {c} : misread'[d] = misread[d]
            BY <1>1, <3>2 DEF TypeOK
        <3>9. misread'[c] = "no" => Readable(line[c], n)
            <4>1. misread'[c] = "no" => n = k
                BY <3>3, <3>8
            <4>2. QED
                BY <3>1, <3>3, <4>1 DEF Readable
        <3>10. \A i \in 1 .. n : ~IsChat(line[c][i])
            <4>1. \A i \in 1 .. n : i = 1 \/ i \in 2 .. n
                BY <3>1, <3>3
            <4>2. QED
                BY <3>1, <3>6, <4>1 DEF IsChat, IsList, IsInfo
        <3>11. misread'[c] \in {"no", "getRooms"}
            BY <2>1, <3>8
        <3>12. QED
            BY <2>2, <3>4, <3>5, <3>7, <3>8, <3>9, <3>10, <3>11 DEF GetRooms
    <2>5. QED
        BY <2>3, <2>4
<1>4. Table!TypeOK' /\ Rooming' /\ Onward
    BY <1>1, <1>3, SameKeepsTable
<1>5. TypeOK'
    BY <1>1, <1>3, <1>4 DEF TypeOK, server, talk
<1>6. \A d \in Clients \ {c} : Same(d)
    BY <1>3 DEF Same, server, talk
<1>7. /\ session'[c] = session[c] /\ room'[c] = room[c] /\ up'[c] = up[c]
      /\ answer'[c] = answer[c] /\ screen'[c] = screen[c]
      /\ pending'[c] = pending[c] /\ starting'[c] = starting[c]
      /\ loops'[c] = loops[c] /\ chats'[c] = chats[c]
      /\ history'[c] = history[c]
    BY <1>3 DEF server, talk
<1>8. /\ misread[c] = "no" /\ screen[c] = "ROOM_SELECTION"
      /\ pending[c] = "none" /\ \A i \in DOMAIN line[c] : ~IsFinal(line[c][i])
      /\ up[c] => session[c] = "lobby"
      /\ up[c] => \A i \in DOMAIN requests[c] : ~IsAsk(requests[c][i])
    BY <1>1, OnMenu DEF GetRooms
<1>9. Unconnected(c)' /\ Greeted(c)' /\ Screened(c)' /\ Served(c)'
    BY <1>3, <1>7, <1>2, <1>8
       DEF Unconnected, Greeted, Screened, Served, Seated, Menu, Waits,
           Inside, table
<1>10. Fitting(c)'
    BY <1>3, <1>7, <1>2, <1>8 DEF Fitting, Seated, IsAsk
<1>11. Awaited(c)'
    BY <1>3, <1>7, <1>2, <1>8 DEF Awaited
<1>12. Owed(c)'
    BY <1>3, <1>7, <1>2, <1>8 DEF Owed, IsAsk, Waits
<1>13. Placed(c)'
    <2>1. ~HasJoined(c) /\ ~HasJoined(c)'
        BY <1>3, <1>8 DEF HasJoined, Joined, IsFinal
    <2>2. QED
        BY <1>3, <1>7, <1>2, <1>8, <2>1 DEF Placed, Seated, Inside
<1>14. Framed(c)'
    <2>1. CASE line'[c] = line[c]
        BY <1>3, <1>7, <1>2, <1>8, <2>1 DEF Framed
    <2>2. CASE misread'[c] /= "no"
        BY <2>2 DEF Framed
    <2>3. CASE \E n \in 0 .. Len(line[c]) :
                   /\ Readable(line[c], n)
                   /\ line'[c] = SubSeq(line[c], n + 1, Len(line[c]))
        BY <1>1, <1>7, <1>2, <1>8, <2>3, TakenFramed
    <2>4. QED
        BY <1>3, <2>1, <2>2, <2>3
<1>15. Started(c)'
    BY <1>3, <1>7, <1>2, <1>8 DEF Started
<1>16. Chatted(c)'
    <2>1. CASE line'[c] = line[c]
        BY <1>3, <1>7, <1>2, <1>8, <2>1 DEF Chatted, Number
    <2>2. CASE misread'[c] /= "no"
        BY <2>2 DEF Chatted
    <2>3. CASE \E n \in 0 .. Len(line[c]) :
                   /\ \A i \in 1 .. n : ~IsChat(line[c][i])
                   /\ line'[c] = SubSeq(line[c], n + 1, Len(line[c]))
        BY <1>1, <1>7, <1>2, <1>8, <2>3, TakenChatted
    <2>4. QED
        BY <1>3, <2>1, <2>2, <2>3
<1>17. misread'[c] /= "other"
    BY <1>3
<1>18. QED
    BY <1>1, <1>3, <1>4, <1>5, <1>6, <1>7, <1>2, <1>8, <1>9, <1>10, <1>11,
       <1>12, <1>13, <1>14, <1>15, <1>16, <1>17, StepKeeps
       DEF Good

\* A room is asked for.
LEMMA CreateRoomKeeps ==
    ASSUME Inv, NEW c \in Clients, CreateRoom(c)
    PROVE  Inv'
<1>1. TypeOK /\ Table!TypeOK /\ Rooming /\ Good(c)
    BY DEF Inv, TypeOK
<1>2. /\ Unconnected(c) /\ Greeted(c) /\ Screened(c) /\ Served(c)
      /\ Fitting(c) /\ Awaited(c) /\ Owed(c) /\ Placed(c) /\ Framed(c)
      /\ Started(c) /\ Chatted(c) /\ misread[c] /= "other"
    BY <1>1 DEF Good
<1>3. /\ UNCHANGED <<table, server, up, answer, line, screen, loops, misread,
                   view, talk>>
      /\ requests' \in [Clients -> Seq(Requests)]
      /\ pending' \in [Clients -> Pendings]
      /\ Len(requests'[c]) \in DOMAIN requests'[c]
      /\ requests'[c][Len(requests'[c])].type = "CREATE_ROOM"
      /\ \A i \in DOMAIN requests'[c] :
            \/ i = Len(requests'[c])
            \/ i \in DOMAIN requests[c] /\ requests'[c][i] = requests[c][i]
      /\ up[c] /\ pending'[c] = "create"
      /\ \A d \in Clients \ {c} :
            requests'[d] = requests[d] /\ pending'[d] = pending[d]
    <2>1. [type |-> "CREATE_ROOM"] \in Requests
        BY DEF Requests, Plain
    <2>2. Send(c, [type |-> "CREATE_ROOM"])
        BY DEF CreateRoom
    <2>3. /\ requests' \in [Clients -> Seq(Requests)]
          /\ \A d \in Clients \ {c} : requests'[d] = requests[d]
          /\ Len(requests'[c]) \in DOMAIN requests'[c]
          /\ requests'[c][Len(requests'[c])] = [type |-> "CREATE_ROOM"]
          /\ \A i \in DOMAIN requests'[c] :
                \/ i = Len(requests'[c])
                \/ i \in DOMAIN requests[c] /\ requests'[c][i] = requests[c][i]
        BY <1>1, <2>1, <2>2, Sending
    <2>4. /\ pending' \in [Clients -> Pendings] /\ pending'[c] = "create"
          /\ \A d \in Clients \ {c} : pending'[d] = pending[d]
        BY <1>1 DEF CreateRoom, TypeOK, Pendings
    <2>5. requests'[c][Len(requests'[c])].type = "CREATE_ROOM"
        BY <2>3
    <2>6. QED
        BY <2>3, <2>4, <2>5 DEF CreateRoom
<1>4. Table!TypeOK' /\ Rooming' /\ Onward
    BY <1>1, <1>3, SameKeepsTable
<1>5. TypeOK'
    BY <1>1, <1>3, <1>4 DEF TypeOK, server, view, talk
<1>6. \A d \in Clients \ {c} : Same(d)
    BY <1>3 DEF Same, server, view, talk
<1>7. /\ session'[c] = session[c] /\ room'[c] = room[c] /\ up'[c] = up[c]
      /\ answer'[c] = answer[c] /\ line'[c] = line[c]
      /\ screen'[c] = screen[c] /\ starting'[c] = starting[c]
      /\ loops'[c] = loops[c] /\ chats'[c] = chats[c]
      /\ history'[c] = history[c] /\ misread'[c] = misread[c]
    BY <1>3 DEF server, view, talk
<1>8. /\ misread[c] = "no" /\ screen[c] = "ROOM_SELECTION"
      /\ pending[c] = "none" /\ \A i \in DOMAIN line[c] : ~IsFinal(line[c][i])
      /\ session[c] = "lobby"
      /\ \A i \in DOMAIN requests[c] : ~IsAsk(requests[c][i])
    BY <1>1, <1>3, OnMenu DEF CreateRoom
<1>9. Unconnected(c)' /\ Greeted(c)' /\ Screened(c)' /\ Served(c)'
    BY <1>3, <1>7, <1>2, <1>8
       DEF Unconnected, Greeted, Screened, Served, Seated, Menu, Waits,
           Inside, table
<1>10. Fitting(c)'
    BY <1>3, <1>7, <1>2, <1>8 DEF Fitting, Seated, IsAsk
<1>11. Awaited(c)'
    BY <1>3, <1>7, <1>2, <1>8 DEF Awaited
<1>12. Owed(c)'
    BY <1>3, <1>7, <1>2, <1>8 DEF Owed, IsAsk, Waits, Asks
<1>13. Placed(c)'
    BY <1>3, <1>7, <1>2, <1>8 DEF Placed, Seated, HasJoined
<1>14. Framed(c)'
    BY <1>3, <1>7, <1>2 DEF Framed
<1>15. Started(c)'
    BY <1>3, <1>7, <1>2, <1>8 DEF Started
<1>16. Chatted(c)'
    BY <1>3, <1>7, <1>2 DEF Chatted, Number
<1>17. QED
    BY <1>1, <1>3, <1>4, <1>5, <1>6, <1>7, <1>2, <1>8, <1>9, <1>10, <1>11,
       <1>12, <1>13, <1>14, <1>15, <1>16, StepKeeps
       DEF Good

\* A room of the menu is asked for.
LEMMA JoinRoomKeeps ==
    ASSUME Inv, NEW c \in Clients, NEW r \in RoomIds, JoinRoom(c, r)
    PROVE  Inv'
<1>1. TypeOK /\ Table!TypeOK /\ Rooming /\ Good(c)
    BY DEF Inv, TypeOK
<1>2. /\ Unconnected(c) /\ Greeted(c) /\ Screened(c) /\ Served(c)
      /\ Fitting(c) /\ Awaited(c) /\ Owed(c) /\ Placed(c) /\ Framed(c)
      /\ Started(c) /\ Chatted(c) /\ misread[c] /= "other"
    BY <1>1 DEF Good
<1>3. /\ UNCHANGED <<table, server, up, answer, line, screen, loops, misread,
                   view, talk>>
      /\ requests' \in [Clients -> Seq(Requests)]
      /\ pending' \in [Clients -> Pendings]
      /\ Len(requests'[c]) \in DOMAIN requests'[c]
      /\ requests'[c][Len(requests'[c])].type = "JOIN_ROOM"
      /\ \A i \in DOMAIN requests'[c] :
            \/ i = Len(requests'[c])
            \/ i \in DOMAIN requests[c] /\ requests'[c][i] = requests[c][i]
      /\ up[c] /\ pending'[c] = "join"
      /\ \A d \in Clients \ {c} :
            requests'[d] = requests[d] /\ pending'[d] = pending[d]
    <2>1. [type |-> "JOIN_ROOM", roomId |-> r] \in Requests
        BY DEF Requests
    <2>2. Send(c, [type |-> "JOIN_ROOM", roomId |-> r])
        BY DEF JoinRoom
    <2>3. /\ requests' \in [Clients -> Seq(Requests)]
          /\ \A d \in Clients \ {c} : requests'[d] = requests[d]
          /\ Len(requests'[c]) \in DOMAIN requests'[c]
          /\ requests'[c][Len(requests'[c])] = [type |-> "JOIN_ROOM", roomId |-> r]
          /\ \A i \in DOMAIN requests'[c] :
                \/ i = Len(requests'[c])
                \/ i \in DOMAIN requests[c] /\ requests'[c][i] = requests[c][i]
        BY <1>1, <2>1, <2>2, Sending
    <2>4. /\ pending' \in [Clients -> Pendings] /\ pending'[c] = "join"
          /\ \A d \in Clients \ {c} : pending'[d] = pending[d]
        BY <1>1 DEF JoinRoom, TypeOK, Pendings
    <2>5. requests'[c][Len(requests'[c])].type = "JOIN_ROOM"
        BY <2>3
    <2>6. QED
        BY <2>3, <2>4, <2>5 DEF JoinRoom
<1>4. Table!TypeOK' /\ Rooming' /\ Onward
    BY <1>1, <1>3, SameKeepsTable
<1>5. TypeOK'
    BY <1>1, <1>3, <1>4 DEF TypeOK, server, view, talk
<1>6. \A d \in Clients \ {c} : Same(d)
    BY <1>3 DEF Same, server, view, talk
<1>7. /\ session'[c] = session[c] /\ room'[c] = room[c] /\ up'[c] = up[c]
      /\ answer'[c] = answer[c] /\ line'[c] = line[c]
      /\ screen'[c] = screen[c] /\ starting'[c] = starting[c]
      /\ loops'[c] = loops[c] /\ chats'[c] = chats[c]
      /\ history'[c] = history[c] /\ misread'[c] = misread[c]
    BY <1>3 DEF server, view, talk
<1>8. /\ misread[c] = "no" /\ screen[c] = "ROOM_SELECTION"
      /\ pending[c] = "none" /\ \A i \in DOMAIN line[c] : ~IsFinal(line[c][i])
      /\ session[c] = "lobby"
      /\ \A i \in DOMAIN requests[c] : ~IsAsk(requests[c][i])
    BY <1>1, <1>3, OnMenu DEF JoinRoom
<1>9. Unconnected(c)' /\ Greeted(c)' /\ Screened(c)' /\ Served(c)'
    BY <1>3, <1>7, <1>2, <1>8
       DEF Unconnected, Greeted, Screened, Served, Seated, Menu, Waits,
           Inside, table
<1>10. Fitting(c)'
    BY <1>3, <1>7, <1>2, <1>8 DEF Fitting, Seated, IsAsk
<1>11. Awaited(c)'
    BY <1>3, <1>7, <1>2, <1>8 DEF Awaited
<1>12. Owed(c)'
    BY <1>3, <1>7, <1>2, <1>8 DEF Owed, IsAsk, Waits, Asks
<1>13. Placed(c)'
    BY <1>3, <1>7, <1>2, <1>8 DEF Placed, Seated, HasJoined
<1>14. Framed(c)'
    BY <1>3, <1>7, <1>2 DEF Framed
<1>15. Started(c)'
    BY <1>3, <1>7, <1>2, <1>8 DEF Started
<1>16. Chatted(c)'
    BY <1>3, <1>7, <1>2 DEF Chatted, Number
<1>17. QED
    BY <1>1, <1>3, <1>4, <1>5, <1>6, <1>7, <1>2, <1>8, <1>9, <1>10, <1>11,
       <1>12, <1>13, <1>14, <1>15, <1>16, StepKeeps
       DEF Good

\* A list is read and thrown away.
LEMMA DrainListKeeps ==
    ASSUME Inv, NEW c \in Clients, DrainList(c)
    PROVE  Inv'
<1>1. TypeOK /\ Table!TypeOK /\ Rooming /\ Good(c)
    BY DEF Inv, TypeOK
<1>2. /\ Unconnected(c) /\ Greeted(c) /\ Screened(c) /\ Served(c)
      /\ Fitting(c) /\ Awaited(c) /\ Owed(c) /\ Placed(c) /\ Framed(c)
      /\ Started(c) /\ Chatted(c) /\ misread[c] /= "other"
    BY <1>1 DEF Good
<1>3. /\ UNCHANGED <<table, server, up, requests, answer, screen, pending,
                   loops, view, talk>>
      /\ line' \in [Clients -> Seq(Units)]
      /\ misread' \in [Clients -> {"no", "getRooms", "getLobbyState", "other"}]
      /\ screen[c] = "ROOM_SELECTION" /\ misread[c] = "no"
      /\ misread'[c] = "no"
      /\ Length(c) \in 0 .. Len(line[c]) /\ Readable(line[c], Length(c))
      /\ \A i \in 1 .. Length(c) : ~IsChat(line[c][i]) /\ ~IsFinal(line[c][i])
      /\ line'[c] = SubSeq(line[c], Length(c) + 1, Len(line[c]))
      /\ \A i \in DOMAIN line'[c] :
            i \in Int /\ i + Length(c) \in DOMAIN line[c]
            /\ line'[c][i] = line[c][i + Length(c)]
      /\ \A i \in DOMAIN line[c] \ (1 .. Length(c)) :
            \E j \in DOMAIN line'[c] : line'[c][j] = line[c][i]
      /\ \A d \in Clients \ {c} :
            line'[d] = line[d] /\ misread'[d] = misread[d]
    <2> DEFINE l == Len(line[c])
               k == Length(c)
    <2>1. /\ misread[c] = "no" /\ screen[c] = "ROOM_SELECTION"
          /\ Whole(c) /\ IsList(First(c)) /\ Arrived(c)
        BY <1>1, OnAnswer DEF DrainList, IsList, Whole
    <2>2. /\ 1 \in DOMAIN line[c] /\ First(c) = line[c][1]
          /\ k = 1 + First(c).count /\ PartOf(First(c)) = "RoomInfo"
          /\ l \in Nat /\ k \in Nat \ {0} /\ k <= l
          /\ DOMAIN line[c] = 1 .. l
        BY <1>1, <2>1, Arriving DEF Whole
    <2> HIDE DEF k
    <2>3. k \in 0 .. Len(line[c])
        BY <2>2
    <2>4. Consume(c, k)
        BY DEF DrainList, k
    <2>5. /\ line' \in [Clients -> Seq(Units)]
          /\ \A d \in Clients \ {c} : line'[d] = line[d]
          /\ line'[c] = SubSeq(line[c], k + 1, Len(line[c]))
          /\ \A i \in DOMAIN line'[c] :
                /\ i \in Int /\ i >= 1 /\ i + k \in DOMAIN line[c]
                /\ line'[c][i] = line[c][i + k]
          /\ \A i \in DOMAIN line[c] \ (1 .. k) :
                \E j \in DOMAIN line'[c] : line'[c][j] = line[c][i]
        BY <1>1, <2>3, <2>4, Taking
    <2>6. \A i \in 2 .. k : IsInfo(line[c][i])
        <3>1. Filled(line[c])
            BY <1>2, <2>1 DEF Framed
        <3> HIDE DEF l
        <3>2. ASSUME NEW i \in 2 .. k
              PROVE  i \in DOMAIN line[c] /\ 1 < i /\ i <= 1 + line[c][1].count
            BY <2>2, <3>2
        <3>3. QED
            BY <2>1, <2>2, <3>1, <3>2 DEF Filled
    <2>7. Intact(c)
        BY <2>2, <2>6 DEF Intact, IsInfo, k
    <2>8. /\ misread' \in [Clients ->
                             {"no", "getRooms", "getLobbyState", "other"}]
          /\ misread'[c] = "no"
          /\ \A d \in Clients \ {c} : misread'[d] = misread[d]
        BY <1>1, <2>1, <2>7 DEF DrainList, Outcome, TypeOK
    <2>9. Readable(line[c], k)
        BY <2>1, <2>2 DEF Readable
    <2>10. \A i \in 1 .. k : ~IsChat(line[c][i]) /\ ~IsFinal(line[c][i])
        <3>1. \A i \in 1 .. k : i = 1 \/ i \in 2 .. k
            BY <2>2
        <3>2. QED
            BY <2>1, <2>2, <2>6, <3>1 DEF IsChat, IsList, IsInfo, IsFinal
    <2>11. QED
        BY <2>1, <2>3, <2>5, <2>8, <2>9, <2>10 DEF DrainList, k
<1>4. Table!TypeOK' /\ Rooming' /\ Onward
    BY <1>1, <1>3, SameKeepsTable
<1>5. TypeOK'
    BY <1>1, <1>3, <1>4 DEF TypeOK, server, view, talk
<1>6. \A d \in Clients \ {c} : Same(d)
    BY <1>3 DEF Same, server, view, talk
<1>7. /\ session'[c] = session[c] /\ room'[c] = room[c] /\ up'[c] = up[c]
      /\ requests'[c] = requests[c] /\ answer'[c] = answer[c]
      /\ screen'[c] = screen[c] /\ pending'[c] = pending[c]
      /\ starting'[c] = starting[c] /\ loops'[c] = loops[c]
      /\ chats'[c] = chats[c] /\ history'[c] = history[c]
    BY <1>3 DEF server, view, talk
<1>8. Unconnected(c)' /\ Greeted(c)' /\ Screened(c)' /\ Served(c)'
    BY <1>3, <1>7, <1>2
       DEF Unconnected, Greeted, Screened, Served, Seated, Menu, Waits,
           Inside, table, DrainList
<1>9. Fitting(c)'
    BY <1>3, <1>7, <1>2 DEF Fitting, Seated
<1>10. \A i, j \in DOMAIN line'[c] : i > j => i + Length(c) > j + Length(c)
    <2>1. Length(c) \in Int
        BY <1>1, <1>3, Arriving
    <2> DEFINE k == Length(c)
    <2> HIDE DEF k
    <2>2. k \in Int
        BY <2>1 DEF k
    <2>3. \A i, j \in DOMAIN line'[c] : i \in Int /\ j \in Int
        BY <1>3
    <2>4. QED
        BY <2>2, <2>3 DEF k
<1>11. misread[c] = "no" /\ misread'[c] = "no"
    BY <1>3
<1>12. \A i \in DOMAIN line'[c] :
          i + Length(c) \in DOMAIN line[c] /\ line'[c][i] = line[c][i + Length(c)]
    BY <1>3
<1>13. ASSUME NEW i \in DOMAIN line[c], IsFinal(line[c][i])
       PROVE  \E j \in DOMAIN line'[c] : line'[c][j] = line[c][i]
    <2>1. i \in DOMAIN line[c] \ (1 .. Length(c))
        BY <1>3, <1>13
    <2>2. QED
        BY <1>3, <2>1
<1>14. Awaited(c)'
    BY <1>2, <1>7, <1>10, <1>11, <1>12 DEF Awaited
<1>15. Owed(c)'
    BY <1>2, <1>7, <1>11, <1>12, <1>13 DEF Owed
<1>16. Placed(c)'
    <2>1. HasJoined(c)' <=> HasJoined(c)
        BY <1>12, <1>13 DEF HasJoined, Joined, IsFinal
    <2>2. QED
        BY <1>3, <1>7, <1>2, <2>1 DEF Placed, Seated
<1>17. Framed(c)'
    BY <1>1, <1>3, <1>7, <1>2, TakenFramed
<1>18. Started(c)'
    BY <1>3, <1>7, <1>2 DEF Started
<1>19. Chatted(c)'
    <2>1. screen[c] /= "EXITING"
        BY <1>3
    <2>2. QED
        BY <1>1, <1>3, <1>7, <1>2, <2>1, TakenChatted
<1>20. QED
    BY <1>1, <1>2, <1>3, <1>4, <1>5, <1>6, <1>8, <1>9, <1>14, <1>15, <1>16,
       <1>17, <1>18, <1>19, StepKeeps
       DEF Good

\* The room is there, and is asked for in the same frame.
LEMMA CreateAnsweredKeeps ==
    ASSUME Inv, NEW c \in Clients, CreateAnswered(c)
    PROVE  Inv'
<1>1. TypeOK /\ Table!TypeOK /\ Rooming /\ Good(c)
    BY DEF Inv, TypeOK
<1>2. /\ Unconnected(c) /\ Greeted(c) /\ Screened(c) /\ Served(c)
      /\ Fitting(c) /\ Awaited(c) /\ Owed(c) /\ Placed(c) /\ Framed(c)
      /\ Started(c) /\ Chatted(c) /\ misread[c] /= "other"
    BY <1>1 DEF Good
<1>3. /\ UNCHANGED <<table, server, up, answer, screen, loops, view, talk>>
      /\ line' \in [Clients -> Seq(Units)]
      /\ misread' \in [Clients -> {"no", "getRooms", "getLobbyState", "other"}]
      /\ screen[c] = "ROOM_SELECTION" /\ misread[c] = "no"
      /\ misread'[c] = "no"
      /\ pending[c] = "create" /\ line[c][1].type = "CREATE_ROOM_RESPONSE"
      /\ 1 \in DOMAIN line[c] /\ 1 \in 0 .. Len(line[c])
      /\ line'[c] = SubSeq(line[c], 1 + 1, Len(line[c]))
      /\ \A i \in DOMAIN line[c] : i > 1 => IsChat(line[c][i])
      /\ \A i \in DOMAIN line'[c] : IsChat(line'[c][i])
      /\ requests' \in [Clients -> Seq(Requests)]
      /\ pending' \in [Clients -> Pendings]
      /\ up[c] =>
            /\ pending'[c] = "join"
            /\ Len(requests'[c]) \in DOMAIN requests'[c]
            /\ requests'[c][Len(requests'[c])].type = "JOIN_ROOM"
            /\ \A i \in DOMAIN requests'[c] :
                  \/ i = Len(requests'[c])
                  \/ i \in DOMAIN requests[c] /\ requests'[c][i] = requests[c][i]
      /\ ~up[c] => pending'[c] = "none" /\ requests'[c] = requests[c]
      /\ \A d \in Clients \ {c} :
            /\ line'[d] = line[d] /\ misread'[d] = misread[d]
            /\ requests'[d] = requests[d] /\ pending'[d] = pending[d]
    <2>1. /\ misread[c] = "no" /\ screen[c] = "ROOM_SELECTION" /\ Arrived(c)
          /\ pending[c] = "create" /\ First(c).type = "CREATE_ROOM_RESPONSE"
          /\ \A i \in DOMAIN line[c] : i > 1 => IsChat(line[c][i])
        BY <1>1, OnAnswer DEF CreateAnswered, IsList, Gets
    <2>2. /\ 1 \in DOMAIN line[c] /\ First(c) = line[c][1]
          /\ 1 \in 0 .. Len(line[c]) /\ First(c) \in Units
        BY <1>1, <2>1, Arriving
    <2>3. /\ line' \in [Clients -> Seq(Units)]
          /\ line'[c] = SubSeq(line[c], 1 + 1, Len(line[c]))
          /\ \A d \in Clients \ {c} : line'[d] = line[d]
          /\ \A i \in DOMAIN line'[c] :
                /\ i \in Int /\ i >= 1 /\ i + 1 \in DOMAIN line[c]
                /\ line'[c][i] = line[c][i + 1]
        BY <1>1, <2>2, Taking DEF CreateAnswered
    <2>4. \A i \in DOMAIN line'[c] : IsChat(line'[c][i])
        <3>1. \A i \in DOMAIN line'[c] : i + 1 > 1
            BY <2>3
        <3>2. QED
            BY <2>1, <2>3, <3>1
    <2>5. /\ misread' \in [Clients ->
                           {"no", "getRooms", "getLobbyState", "other"}]
          /\ misread'[c] = "no"
          /\ \A d \in Clients \ {c} : misread'[d] = misread[d]
        BY <1>1, <2>1 DEF CreateAnswered, Outcome, TypeOK
    <2>6. CASE up[c]
        <3> DEFINE q == [type |-> "JOIN_ROOM", roomId |-> First(c).roomId]
        <3>1. q \in Requests
            BY <2>1, <2>2, UnitsAre DEF Requests
        <3>2. /\ Send(c, q)
              /\ pending' = [pending EXCEPT ![c] = "join"]
            BY <2>1, <2>6 DEF CreateAnswered
        <3>3. /\ requests' \in [Clients -> Seq(Requests)]
              /\ \A d \in Clients \ {c} : requests'[d] = requests[d]
              /\ Len(requests'[c]) \in DOMAIN requests'[c]
              /\ requests'[c][Len(requests'[c])] = q
              /\ \A i \in DOMAIN requests'[c] :
                    \/ i = Len(requests'[c])
                    \/ /\ i \in DOMAIN requests[c]
                       /\ requests'[c][i] = requests[c][i]
            BY <1>1, <3>1, <3>2, Sending
        <3>4. /\ pending' \in [Clients -> Pendings] /\ pending'[c] = "join"
              /\ \A d \in Clients \ {c} : pending'[d] = pending[d]
            BY <1>1, <3>2 DEF TypeOK, Pendings
        <3>5. requests'[c][Len(requests'[c])].type = "JOIN_ROOM"
            BY <3>3
        <3>6. QED
            BY <2>1, <2>2, <2>3, <2>4, <2>5, <2>6, <3>3, <3>4, <3>5
               DEF CreateAnswered
    <2>7. CASE ~up[c]
        <3>1. /\ requests' = requests
              /\ pending' = [pending EXCEPT ![c] = "none"]
            BY <2>7 DEF CreateAnswered
        <3>2. /\ pending' \in [Clients -> Pendings] /\ pending'[c] = "none"
              /\ \A d \in Clients \ {c} : pending'[d] = pending[d]
            BY <1>1, <3>1 DEF TypeOK, Pendings
        <3>3. requests \in [Clients -> Seq(Requests)]
            BY <1>1 DEF TypeOK
        <3>4. QED
            BY <2>1, <2>2, <2>3, <2>4, <2>5, <2>7, <3>1, <3>2, <3>3
               DEF CreateAnswered
    <2>8. QED
        BY <2>6, <2>7
<1>4. Table!TypeOK' /\ Rooming' /\ Onward
    BY <1>1, <1>3, SameKeepsTable
<1>5. TypeOK'
    BY <1>1, <1>3, <1>4 DEF TypeOK, server, view, talk
<1>6. \A d \in Clients \ {c} : Same(d)
    BY <1>3 DEF Same, server, view, talk
<1>7. /\ session'[c] = session[c] /\ room'[c] = room[c] /\ up'[c] = up[c]
      /\ answer'[c] = answer[c] /\ screen'[c] = screen[c]
      /\ starting'[c] = starting[c] /\ loops'[c] = loops[c]
      /\ chats'[c] = chats[c] /\ history'[c] = history[c]
    BY <1>3 DEF server, view, talk
<1>8. /\ IsFinal(line[c][1]) /\ ~HasJoined(c) /\ ~HasJoined(c)'
      /\ up[c] => requests[c] = <<>>
      /\ up[c] => session[c] = "lobby"
      /\ \A i \in DOMAIN line'[c] : ~IsFinal(line'[c][i])
    <2>1. IsFinal(line[c][1])
        BY <1>3 DEF IsFinal
    <2>2. ~HasJoined(c)
        <3>1. \A i \in DOMAIN line[c] : i = 1 \/ i > 1
            BY <1>1, Arriving
        <3>2. \A i \in DOMAIN line[c] : i > 1 => line[c][i] /= Joined
            BY <1>3 DEF Joined, IsChat
        <3>3. line[c][1] /= Joined
            BY <1>3 DEF Joined
        <3>4. QED
            BY <3>1, <3>2, <3>3 DEF HasJoined
    <2>3. ~HasJoined(c)'
        BY <1>3 DEF HasJoined, Joined, IsChat
    <2>4. up[c] => requests[c] = <<>>
        BY <1>3, <1>2, <2>1 DEF Owed
    <2>5. up[c] => session[c] = "lobby"
        <3>1. session[c] \in {"none", "lobby", "joining", "room", "done"}
            BY <1>1 DEF TypeOK
        <3>2. up[c] => session[c] /= "none" /\ session[c] /= "done"
            BY <1>3, <1>2 DEF Fitting, Served
        <3>3. up[c] => ~Seated(c)
            BY <1>3, <1>2, <2>2 DEF Placed, Inside
        <3>4. QED
            BY <3>1, <3>2, <3>3 DEF Seated
    <2>6. \A i \in DOMAIN line'[c] : ~IsFinal(line'[c][i])
        BY <1>3 DEF IsChat, IsFinal
    <2>7. QED
        BY <2>1, <2>2, <2>3, <2>4, <2>5, <2>6
<1>9. Unconnected(c)' /\ Greeted(c)' /\ Screened(c)' /\ Served(c)'
    BY <1>3, <1>7, <1>2
       DEF Unconnected, Greeted, Screened, Served, Seated, Menu, Waits,
           Inside, table
<1>10. Fitting(c)'
    <2>1. up[c] => session[c] = "lobby" /\ ~Seated(c) /\ requests[c] = <<>>
        BY <1>8 DEF Seated
    <2>2. \A i : i \notin DOMAIN <<>>
        OBVIOUS
    <2>3. ASSUME up[c], NEW i \in DOMAIN requests'[c]
          PROVE  /\ requests'[c][i].type = "JOIN_ROOM"
                 /\ i = Len(requests'[c])
        BY <1>3, <2>1, <2>2, <2>3
    <2>4. QED
        BY <1>7, <2>1, <2>3 DEF Fitting, Seated
<1>11. Awaited(c)'
    BY <1>3, <1>7, <1>2, <1>8 DEF Awaited
<1>12. Owed(c)'
    BY <1>3, <1>7, <1>2, <1>8 DEF Owed, IsAsk, Waits, Asks
<1>13. Placed(c)'
    BY <1>3, <1>7, <1>2, <1>8 DEF Placed, Seated, Inside
<1>14. Framed(c)'
    <2>1. Readable(line[c], 1)
        BY <1>3 DEF Readable, IsList, Joined
    <2>2. QED
        BY <1>1, <1>3, <1>7, <1>2, <2>1, TakenFramed
<1>15. Started(c)'
    BY <1>3, <1>7, <1>2 DEF Started
<1>16. Chatted(c)'
    <2>1. \A i \in 1 .. 1 : ~IsChat(line[c][i])
        BY <1>3 DEF IsChat
    <2>2. QED
        BY <1>1, <1>3, <1>7, <1>2, <2>1, TakenChatted
<1>17. QED
    BY <1>1, <1>3, <1>4, <1>5, <1>6, <1>7, <1>2, <1>8, <1>9, <1>10, <1>11,
       <1>12, <1>13, <1>14, <1>15, <1>16, StepKeeps
       DEF Good

\* The client is let into the room, or not.
LEMMA JoinAnsweredKeeps ==
    ASSUME Inv, NEW c \in Clients, JoinAnswered(c)
    PROVE  Inv'
<1>1. TypeOK /\ Table!TypeOK /\ Rooming /\ Good(c)
    BY DEF Inv, TypeOK
<1>2. /\ Unconnected(c) /\ Greeted(c) /\ Screened(c) /\ Served(c)
      /\ Fitting(c) /\ Awaited(c) /\ Owed(c) /\ Placed(c) /\ Framed(c)
      /\ Started(c) /\ Chatted(c) /\ misread[c] /= "other"
    BY <1>1 DEF Good
<1>3. /\ UNCHANGED <<table, server, up, requests, answer, loops, view, talk>>
      /\ line' \in [Clients -> Seq(Units)]
      /\ misread' \in [Clients -> {"no", "getRooms", "getLobbyState", "other"}]
      /\ screen[c] = "ROOM_SELECTION" /\ misread[c] = "no"
      /\ misread'[c] = "no"
      /\ pending[c] = "join" /\ line[c][1].type = "JOIN_ROOM_RESPONSE"
      /\ 1 \in DOMAIN line[c] /\ 1 \in 0 .. Len(line[c])
      /\ line'[c] = SubSeq(line[c], 1 + 1, Len(line[c]))
      /\ \A i \in DOMAIN line[c] : i > 1 => IsChat(line[c][i])
      /\ \A i \in DOMAIN line'[c] : IsChat(line'[c][i])
      /\ pending' \in [Clients -> Pendings] /\ pending'[c] = "none"
      /\ screen' \in [Clients -> Screens]
      /\ screen'[c] = IF line[c][1] = Joined THEN "LOBBY" ELSE "ROOM_SELECTION"
      /\ \A d \in Clients \ {c} :
            /\ line'[d] = line[d] /\ misread'[d] = misread[d]
            /\ screen'[d] = screen[d] /\ pending'[d] = pending[d]
    <2>1. /\ misread[c] = "no" /\ screen[c] = "ROOM_SELECTION" /\ Arrived(c)
          /\ pending[c] = "join" /\ First(c).type = "JOIN_ROOM_RESPONSE"
          /\ \A i \in DOMAIN line[c] : i > 1 => IsChat(line[c][i])
        BY <1>1, OnAnswer DEF JoinAnswered, IsList, Gets
    <2>2. /\ 1 \in DOMAIN line[c] /\ First(c) = line[c][1]
          /\ 1 \in 0 .. Len(line[c]) /\ First(c) \in Units
        BY <1>1, <2>1, Arriving
    <2>3. /\ line' \in [Clients -> Seq(Units)]
          /\ line'[c] = SubSeq(line[c], 1 + 1, Len(line[c]))
          /\ \A d \in Clients \ {c} : line'[d] = line[d]
          /\ \A i \in DOMAIN line'[c] :
                /\ i \in Int /\ i >= 1 /\ i + 1 \in DOMAIN line[c]
                /\ line'[c][i] = line[c][i + 1]
        BY <1>1, <2>2, Taking DEF JoinAnswered
    <2>4. \A i \in DOMAIN line'[c] : IsChat(line'[c][i])
        <3>1. \A i \in DOMAIN line'[c] : i + 1 > 1
            BY <2>3
        <3>2. QED
            BY <2>1, <2>3, <3>1
    <2>5. /\ misread' \in [Clients ->
                           {"no", "getRooms", "getLobbyState", "other"}]
          /\ misread'[c] = "no"
          /\ \A d \in Clients \ {c} : misread'[d] = misread[d]
        BY <1>1, <2>1 DEF JoinAnswered, Outcome, TypeOK
    <2>6. /\ pending' \in [Clients -> Pendings] /\ pending'[c] = "none"
          /\ \A d \in Clients \ {c} : pending'[d] = pending[d]
        BY <1>1 DEF JoinAnswered, TypeOK, Pendings
    <2>7. /\ screen' \in [Clients -> Screens]
          /\ screen'[c] = IF First(c) = Joined THEN "LOBBY" ELSE screen[c]
          /\ \A d \in Clients \ {c} : screen'[d] = screen[d]
        BY <1>1 DEF JoinAnswered, TypeOK, Screens
    <2>8. QED
        BY <2>1, <2>2, <2>3, <2>4, <2>5, <2>6, <2>7 DEF JoinAnswered
<1>4. Table!TypeOK' /\ Rooming' /\ Onward
    BY <1>1, <1>3, SameKeepsTable
<1>5. TypeOK'
    BY <1>1, <1>3, <1>4 DEF TypeOK, server, view, talk
<1>6. \A d \in Clients \ {c} : Same(d)
    BY <1>3 DEF Same, server, view, talk
<1>7. /\ session'[c] = session[c] /\ room'[c] = room[c] /\ up'[c] = up[c]
      /\ requests'[c] = requests[c] /\ answer'[c] = answer[c]
      /\ starting'[c] = starting[c] /\ loops'[c] = loops[c]
      /\ chats'[c] = chats[c] /\ history'[c] = history[c]
    BY <1>3 DEF server, view, talk
<1>8. /\ IsFinal(line[c][1])
      /\ HasJoined(c) <=> line[c][1] = Joined
      /\ ~HasJoined(c)'
      /\ up[c] => requests[c] = <<>>
      /\ \A i \in DOMAIN line'[c] :
            ~IsFinal(line'[c][i]) /\ ~IsNotice(line'[c][i])
    <2>1. IsFinal(line[c][1])
        BY <1>3 DEF IsFinal
    <2>2. HasJoined(c) <=> line[c][1] = Joined
        <3>1. \A i \in DOMAIN line[c] : i = 1 \/ i > 1
            BY <1>1, Arriving
        <3>2. \A i \in DOMAIN line[c] : i > 1 => line[c][i] /= Joined
            BY <1>3 DEF Joined, IsChat
        <3>3. 1 \in DOMAIN line[c]
            BY <1>3
        <3>4. QED
            BY <3>1, <3>2, <3>3 DEF HasJoined
    <2>3. ~HasJoined(c)'
        BY <1>3 DEF HasJoined, Joined, IsChat
    <2>4. up[c] => requests[c] = <<>>
        BY <1>3, <1>2, <2>1 DEF Owed
    <2>5. \A i \in DOMAIN line'[c] :
              ~IsFinal(line'[c][i]) /\ ~IsNotice(line'[c][i])
        BY <1>3 DEF IsChat, IsFinal, IsNotice
    <2>6. QED
        BY <2>1, <2>2, <2>3, <2>4, <2>5
<1>9. Unconnected(c)' /\ Greeted(c)' /\ Served(c)'
    BY <1>3, <1>7, <1>2 DEF Unconnected, Greeted, Served, Seated, Menu, table
<1>10. Screened(c)'
    BY <1>3, <1>7, <1>2 DEF Screened, Waits, Inside
<1>11. Fitting(c)'
    <2>1. up[c] => session[c] /= "none"
        BY <1>3, <1>2 DEF Fitting
    <2>2. QED
        BY <1>3, <1>7, <1>2, <2>1 DEF Fitting, Seated
<1>12. Awaited(c)'
    BY <1>3, <1>7, <1>2, <1>8 DEF Awaited
<1>13. Owed(c)'
    <2>1. \A i : i \notin DOMAIN <<>>
        OBVIOUS
    <2>2. up[c] => \A i : i \notin DOMAIN requests[c]
        BY <1>8, <2>1
    <2>3. pending'[c] \notin Waits
        BY <1>3 DEF Waits
    <2>4. QED
        BY <1>7, <1>8, <2>2, <2>3 DEF Owed
<1>14. Placed(c)'
    <2>1. CASE line[c][1] = Joined
        <3>1. screen'[c] = "LOBBY"
            BY <1>3, <2>1
        <3>2. up[c] => Seated(c)
            BY <1>3, <1>2, <1>8, <2>1 DEF Placed
        <3>3. QED
            BY <1>7, <3>1, <3>2 DEF Placed, Seated, Inside
    <2>2. CASE line[c][1] /= Joined
        <3>1. screen'[c] = "ROOM_SELECTION" /\ screen'[c] \notin Inside
            BY <1>3, <2>2 DEF Inside
        <3>2. up[c] => ~Seated(c)
            BY <1>3, <1>2, <1>8, <2>2 DEF Placed, Inside
        <3>3. QED
            BY <1>7, <1>8, <3>1, <3>2 DEF Placed, Seated
    <2>3. QED
        BY <2>1, <2>2
<1>15. Framed(c)'
    <2>1. CASE line[c][1] = Joined
        BY <1>3, <2>1 DEF Framed
    <2>2. CASE line[c][1] /= Joined
        <3>1. Readable(line[c], 1)
            BY <1>3, <2>2 DEF Readable, IsList
        <3>2. QED
            BY <1>1, <1>3, <1>7, <1>2, <3>1, TakenFramed
    <2>3. QED
        BY <2>1, <2>2
<1>16. Started(c)'
    BY <1>3, <1>7, <1>2, <1>8 DEF Started, Announced, Screened, Inside
<1>17. Chatted(c)'
    <2>1. \A i \in 1 .. 1 : ~IsChat(line[c][i])
        BY <1>3 DEF IsChat
    <2>2. QED
        BY <1>1, <1>3, <1>7, <1>2, <2>1, TakenChatted
<1>18. QED
    BY <1>1, <1>3, <1>4, <1>5, <1>6, <1>7, <1>2, <1>8, <1>9, <1>10, <1>11,
       <1>12, <1>13, <1>14, <1>15, <1>16, <1>17, StepKeeps
       DEF Good

\* The connection is lost: within a list, if anything is left.
LEMMA AnswerCutKeeps ==
    ASSUME Inv, NEW c \in Clients, AnswerCut(c)
    PROVE  Inv'
<1>1. TypeOK /\ Table!TypeOK /\ Rooming /\ Good(c)
    BY DEF Inv, TypeOK
<1>2. /\ Unconnected(c) /\ Greeted(c) /\ Screened(c) /\ Served(c)
      /\ Fitting(c) /\ Awaited(c) /\ Owed(c) /\ Placed(c) /\ Framed(c)
      /\ Started(c) /\ Chatted(c) /\ misread[c] /= "other"
    BY <1>1 DEF Good
<1>3. /\ UNCHANGED <<table, server, up, requests, answer, screen, loops,
                   misread, view, talk>>
      /\ line' \in [Clients -> Seq(Units)] /\ line'[c] = <<>>
      /\ pending' \in [Clients -> Pendings]
      /\ pending'[c] \in {"none", pending[c]} /\ ~up[c]
      /\ screen[c] = "ROOM_SELECTION" /\ misread[c] = "no"
      /\ Len(line[c]) \in 0 .. Len(line[c])
      /\ line'[c] = SubSeq(line[c], Len(line[c]) + 1, Len(line[c]))
      /\ \A i \in 1 .. Len(line[c]) : ~IsChat(line[c][i])
      /\ pending[c] \in {"create", "join"}
      /\ \A d \in Clients \ {c} :
            line'[d] = line[d] /\ pending'[d] = pending[d]
    <2> DEFINE l == Len(line[c])
    <2>1. /\ misread[c] = "no" /\ screen[c] = "ROOM_SELECTION"
          /\ pending[c] \in {"create", "join"} /\ ~up[c] /\ ~Whole(c)
        BY <1>1, OnAnswer DEF AnswerCut
    <2>2. l \in Nat /\ DOMAIN line[c] = 1 .. l /\ l \in 0 .. l
        BY <1>1, Arriving
    <2>3. /\ line' \in [Clients -> Seq(Units)]
          /\ \A d \in Clients \ {c} : line'[d] = line[d]
          /\ line'[c] = SubSeq(line[c], Len(line[c]) + 1, Len(line[c]))
          /\ line'[c] = <<>>
        BY <1>1, <2>2, Taking DEF AnswerCut
    <2>4. /\ pending' \in [Clients -> Pendings]
          /\ pending'[c] \in {"none", pending[c]}
          /\ \A d \in Clients \ {c} : pending'[d] = pending[d]
        BY <1>1 DEF AnswerCut, TypeOK, Pendings
    <2>5. \A i \in 1 .. l : ~IsChat(line[c][i])
        <3>1. CASE ~Arrived(c)
            <4>1. line[c] = <<>>
                BY <3>1 DEF Arrived
            <4>2. \A i : i \notin DOMAIN line[c]
                BY <4>1
            <4>3. QED
                BY <2>2, <4>2
        <3>2. CASE Arrived(c)
            <4>1. IsList(First(c))
                <5>1. SUFFICES ASSUME ~IsList(First(c)) PROVE FALSE
                    OBVIOUS
                <5>2. IsFinal(First(c))
                    BY <1>1, <3>2, <5>1, OnAnswer DEF AnswerCut
                <5>3. Length(c) = 1
                    BY <1>1, <3>2, <5>2, Arriving DEF IsFinal
                <5>4. 1 \in DOMAIN line[c]
                    BY <1>1, <3>2, Arriving
                <5>5. QED
                    BY <2>1, <2>2, <3>2, <5>3, <5>4 DEF Whole
            <4>2. /\ First(c) = line[c][1] /\ 1 \in DOMAIN line[c]
                  /\ Length(c) = 1 + First(c).count /\ Length(c) \in Nat
                  /\ ~(l >= Length(c))
                BY <1>1, <2>1, <3>2, <4>1, Arriving DEF Whole
            <4>3. Filled(line[c])
                BY <1>2, <2>1 DEF Framed
            <4> HIDE DEF l
            <4>4. ASSUME NEW i \in 1 .. l
                  PROVE  /\ i \in DOMAIN line[c]
                         /\ i = 1 \/ (1 < i /\ i <= 1 + line[c][1].count)
                BY <2>2, <4>2, <4>4
            <4>5. \A i \in 1 .. l : IsList(line[c][i]) \/ IsInfo(line[c][i])
                BY <4>1, <4>2, <4>3, <4>4 DEF Filled
            <4>6. QED
                BY <4>5 DEF IsList, IsInfo, IsChat
        <3>3. QED
            BY <3>1, <3>2
    <2>6. QED
        BY <2>1, <2>2, <2>3, <2>4, <2>5 DEF AnswerCut
<1>4. Table!TypeOK' /\ Rooming' /\ Onward
    BY <1>1, <1>3, SameKeepsTable
<1>5. TypeOK'
    BY <1>1, <1>3, <1>4 DEF TypeOK, server, view, talk
<1>6. \A d \in Clients \ {c} : Same(d)
    BY <1>3 DEF Same, server, view, talk
<1>7. /\ session'[c] = session[c] /\ room'[c] = room[c] /\ up'[c] = up[c]
      /\ requests'[c] = requests[c] /\ answer'[c] = answer[c]
      /\ screen'[c] = screen[c] /\ starting'[c] = starting[c]
      /\ loops'[c] = loops[c] /\ chats'[c] = chats[c]
      /\ history'[c] = history[c] /\ misread'[c] = misread[c]
    BY <1>3 DEF server, view, talk
<1>8. /\ Unconnected(c)' /\ Greeted(c)' /\ Screened(c)' /\ Served(c)'
      /\ Fitting(c)'
    BY <1>3, <1>7, <1>2
       DEF Unconnected, Greeted, Screened, Served, Fitting, Seated, Menu,
           Waits, Inside, table
<1>9. Awaited(c)' /\ Owed(c)' /\ Placed(c)' /\ Started(c)'
    BY <1>3, <1>7, <1>2 DEF Awaited, Owed, Placed, Started
<1>10. Framed(c)'
    BY <1>3, <1>7, <1>2, NoFrames DEF Framed, Served
<1>11. Chatted(c)'
    <2>1. screen[c] /= "EXITING"
        BY <1>3
    <2>2. QED
        BY <1>1, <1>3, <1>7, <1>2, <2>1, TakenChatted
<1>12. QED
    BY <1>1, <1>3, <1>4, <1>5, <1>6, <1>7, <1>2, <1>8, <1>9, <1>10, <1>11,
       StepKeeps
       DEF Good

\* What is asked in a room is for the loop the session is in there.
LEMMA AskingInRoomKeeps ==
    ASSUME Inv, NEW c \in Clients, NEW q \in Requests, q.type \in RoomKinds,
           misread[c] = "no", screen[c] \in {"LOBBY", "IN_GAME"},
           (up[c] /\ Send(c, q)) \/ UNCHANGED requests,
           loops' \in [Clients -> 0 .. MaxLoops + 1],
           loops'[c] > 0 => screen[c] = "LOBBY",
           \A d \in Clients \ {c} : loops'[d] = loops[d],
           said' \in [Clients -> 0 .. MaxSaid],
           UNCHANGED <<table, server, up, answer, line, screen, pending,
                       misread, view, chats, history>>
    PROVE  Inv'
<1>1. TypeOK /\ Table!TypeOK /\ Rooming /\ Good(c)
    BY DEF Inv, TypeOK
<1>2. /\ Unconnected(c) /\ Greeted(c) /\ Screened(c) /\ Served(c)
      /\ Fitting(c) /\ Awaited(c) /\ Owed(c) /\ Placed(c) /\ Framed(c)
      /\ Started(c) /\ Chatted(c) /\ misread[c] /= "other"
    BY <1>1 DEF Good
<1>3. /\ UNCHANGED <<table, server, up, answer, line, screen, pending,
                   misread, view, chats, history>>
      /\ requests' \in [Clients -> Seq(Requests)]
      /\ \A d \in Clients \ {c} : requests'[d] = requests[d]
      /\ \/ requests'[c] = requests[c]
         \/ up[c] /\ \A i \in DOMAIN requests'[c] :
               \/ requests'[c][i].type \in RoomKinds
               \/ i \in DOMAIN requests[c] /\ requests'[c][i] = requests[c][i]
    <2>1. CASE up[c] /\ Send(c, q)
        <3>1. /\ requests' \in [Clients -> Seq(Requests)]
              /\ \A d \in Clients \ {c} : requests'[d] = requests[d]
              /\ \A i \in DOMAIN requests'[c] :
                    \/ requests'[c][i] = q
                    \/ i \in DOMAIN requests[c] /\ requests'[c][i] = requests[c][i]
            BY <1>1, <2>1, Sending
        <3>2. QED
            BY <2>1, <3>1
    <2>2. CASE UNCHANGED requests
        BY <1>1, <2>2 DEF TypeOK
    <2>3. QED
        BY <2>1, <2>2
<1>4. Table!TypeOK' /\ Rooming' /\ Onward
    BY <1>1, <1>3, SameKeepsTable
<1>5. TypeOK'
    BY <1>1, <1>3, <1>4 DEF TypeOK, server, view
<1>6. \A d \in Clients \ {c} : Same(d)
    BY <1>3 DEF Same, server, view
<1>7. /\ session'[c] = session[c] /\ room'[c] = room[c] /\ up'[c] = up[c]
      /\ answer'[c] = answer[c] /\ line'[c] = line[c]
      /\ screen'[c] = screen[c] /\ pending'[c] = pending[c]
      /\ starting'[c] = starting[c] /\ chats'[c] = chats[c]
      /\ history'[c] = history[c] /\ misread'[c] = misread[c]
    BY <1>3 DEF server, view
<1>8. /\ pending[c] \notin Waits
      /\ screen[c] \in Inside /\ screen[c] \notin Menu
      /\ up[c] =>
            /\ Seated(c) /\ session[c] /= "none" /\ session[c] /= "lobby"
            /\ \A i \in DOMAIN requests'[c] :
                  requests'[c][i].type \in RoomKinds /\ ~IsAsk(requests'[c][i])
      /\ ~up[c] => requests'[c] = requests[c]
      /\ \A i \in DOMAIN line[c] : ~IsFinal(line[c][i])
    <2>1. screen[c] \in Inside /\ screen[c] \notin Menu
        BY DEF Inside, Menu
    <2>2. /\ pending[c] \notin Waits
          /\ \A i \in DOMAIN line[c] : ~IsFinal(line[c][i])
          /\ up[c] => Seated(c)
        BY <1>1, <2>1, OnInside
    <2>3. up[c] => \A i \in DOMAIN requests[c] :
                       requests[c][i].type \in RoomKinds
        BY <1>2, <2>2 DEF Fitting
    <2>4. up[c] => \A i \in DOMAIN requests'[c] :
                       requests'[c][i].type \in RoomKinds
        BY <1>3, <2>3
    <2>5. \A r : r.type \in RoomKinds => ~IsAsk(r)
        BY DEF RoomKinds, IsAsk
    <2>6. QED
        BY <1>3, <2>1, <2>2, <2>4, <2>5 DEF Seated
<1>9. Unconnected(c)' /\ Greeted(c)' /\ Screened(c)' /\ Served(c)'
    BY <1>3, <1>7, <1>2, <1>8
       DEF Unconnected, Greeted, Screened, Served, Seated, Waits, table
<1>10. Fitting(c)' /\ Awaited(c)' /\ Owed(c)'
    BY <1>3, <1>7, <1>2, <1>8 DEF Fitting, Awaited, Owed, Seated
<1>11. Placed(c)'
    BY <1>3, <1>7, <1>2, <1>8 DEF Placed, HasJoined, Seated, Inside
<1>12. Framed(c)'
    BY <1>3, <1>7, <1>2 DEF Framed
<1>13. Started(c)'
    BY <1>3, <1>7, <1>2 DEF Started, Announced, table
<1>14. Chatted(c)'
    BY <1>3, <1>7, <1>2 DEF Chatted, Number
<1>15. QED
    BY <1>1, <1>3, <1>4, <1>5, <1>6, <1>7, <1>2, <1>8, <1>9, <1>10, <1>11,
       <1>12, <1>13, <1>14, StepKeeps
       DEF Good

\* The state of the lobby is asked for.
LEMMA GetLobbyStateKeeps ==
    ASSUME Inv, NEW c \in Clients, GetLobbyState(c)
    PROVE  Inv'
<1>1. TypeOK
    BY DEF Inv
<1>2. /\ misread[c] = "no" /\ screen[c] = "LOBBY"
      /\ (up[c] /\ Send(c, [type |-> "GET_LOBBY_STATE"])) \/ UNCHANGED requests
    BY DEF GetLobbyState, InStep
<1>3. /\ [type |-> "GET_LOBBY_STATE"] \in Requests
      /\ [type |-> "GET_LOBBY_STATE"].type \in RoomKinds
    BY DEF Requests, Plain, RoomKinds
<1>4. /\ loops' \in [Clients -> 0 .. MaxLoops + 1]
      /\ \A d \in Clients \ {c} : loops'[d] = loops[d]
    BY <1>1, BoundsAssumption DEF GetLobbyState, TypeOK
<1>5. said' \in [Clients -> 0 .. MaxSaid]
    BY <1>1 DEF GetLobbyState, TypeOK, talk
<1>6. UNCHANGED <<table, server, up, answer, line, screen, pending, misread,
                  view, chats, history>>
    BY DEF GetLobbyState, talk
<1>7. QED
    BY <1>2, <1>3, <1>4, <1>5, <1>6, AskingInRoomKeeps

\* The start button is pressed.
LEMMA PressStartKeeps ==
    ASSUME Inv, NEW c \in Clients, PressStart(c)
    PROVE  Inv'
<1>1. TypeOK
    BY DEF Inv
<1>2. /\ misread[c] = "no" /\ screen[c] = "LOBBY" /\ loops'[c] = 0
      /\ up[c] /\ Send(c, [type |-> "START_GAME_REQUEST"])
    BY DEF PressStart, InStep, client
<1>3. /\ [type |-> "START_GAME_REQUEST"] \in Requests
      /\ [type |-> "START_GAME_REQUEST"].type \in RoomKinds
    BY DEF Requests, Plain, RoomKinds
<1>4. /\ loops' \in [Clients -> 0 .. MaxLoops + 1]
      /\ \A d \in Clients \ {c} : loops'[d] = loops[d]
      /\ said' \in [Clients -> 0 .. MaxSaid]
    BY <1>1 DEF PressStart, TypeOK, client, talk
<1>5. UNCHANGED <<table, server, up, answer, line, screen, pending, misread,
                  view, chats, history>>
    BY DEF PressStart, client, talk
<1>6. QED
    BY <1>2, <1>3, <1>4, <1>5, AskingInRoomKeeps

\* A chat message is sent.
LEMMA SendChatKeeps ==
    ASSUME Inv, NEW c \in Clients, SendChat(c)
    PROVE  Inv'
<1> DEFINE text == [from |-> c, nr |-> said[c] + 1]
           q == [type |-> "CHAT_MESSAGE", text |-> text]
<1>1. TypeOK /\ Good(c)
    BY DEF Inv
<1>2. /\ misread[c] = "no" /\ screen[c] = "IN_GAME" /\ up[c] /\ Send(c, q)
      /\ said[c] < MaxSaid /\ said' = [said EXCEPT ![c] = @ + 1]
    BY DEF SendChat, InStep
<1>3. said[c] \in Nat /\ said[c] + 1 \in 1 .. MaxSaid
    BY <1>1, <1>2, BoundsAssumption DEF TypeOK
<1>4. q \in Requests /\ q.type \in RoomKinds
    <2>1. text \in Chats
        BY <1>3 DEF Chats
    <2>2. QED
        BY <2>1 DEF Requests, RoomKinds
<1>5. said' \in [Clients -> 0 .. MaxSaid]
    BY <1>1, <1>2, <1>3 DEF TypeOK
<1>6. /\ loops' \in [Clients -> 0 .. MaxLoops + 1]
      /\ \A d \in Clients : loops'[d] = loops[d]
    BY <1>1 DEF SendChat, TypeOK, client
<1>7. loops'[c] > 0 => screen[c] = "LOBBY"
    BY <1>1, <1>6 DEF Good, Screened
<1>8. UNCHANGED <<table, server, up, answer, line, screen, pending, misread,
                  view, chats, history>>
    BY DEF SendChat, client
<1> HIDE DEF q
<1>9. QED
    BY <1>2, <1>4, <1>5, <1>6, <1>7, <1>8, AskingInRoomKeeps

\* The state is shown, and the game perhaps begins.
LEMMA LobbyReadKeeps ==
    ASSUME Inv, NEW c \in Clients, LobbyRead(c)
    PROVE  Inv'
<1>1. TypeOK /\ Table!TypeOK /\ Rooming /\ Good(c)
    BY DEF Inv, TypeOK
<1>2. /\ Unconnected(c) /\ Greeted(c) /\ Screened(c) /\ Served(c)
      /\ Fitting(c) /\ Awaited(c) /\ Owed(c) /\ Placed(c) /\ Framed(c)
      /\ Started(c) /\ Chatted(c) /\ misread[c] /= "other"
    BY <1>1 DEF Good
<1>3. /\ UNCHANGED <<table, server, up, stream, pending, misread, rooms,
                   starting, talk>>
      /\ loops' \in [Clients -> 0 .. MaxLoops + 1] /\ loops'[c] = 0
      /\ screen' \in [Clients -> Screens]
      /\ hostId' \in [Clients -> Nat] /\ drawn' \in [Clients -> Nat]
      /\ screen'[c] = "LOBBY" \/ (starting[c] /\ screen'[c] = "IN_GAME")
      /\ misread[c] = "no" /\ screen[c] = "LOBBY"
      /\ \A d \in Clients \ {c} :
            screen'[d] = screen[d] /\ loops'[d] = loops[d]
    <2>1. misread[c] = "no" /\ screen[c] = "LOBBY"
        BY <1>2 DEF LobbyRead, InStep, Screened
    <2>2. /\ loops' \in [Clients -> 0 .. MaxLoops + 1] /\ loops'[c] = 0
          /\ \A d \in Clients \ {c} : loops'[d] = loops[d]
        BY <1>1, BoundsAssumption DEF LobbyRead, TypeOK
    <2>3. /\ screen' \in [Clients -> Screens]
          /\ hostId' \in [Clients -> Nat] /\ drawn' \in [Clients -> Nat]
          /\ screen'[c] = "LOBBY" \/ (starting[c] /\ screen'[c] = "IN_GAME")
          /\ \A d \in Clients \ {c} : screen'[d] = screen[d]
        <3>1. CASE CopyLobbyState(c)
            BY <1>1, <2>1, <3>1 DEF CopyLobbyState, TypeOK
        <3>2. CASE EnterGame(c)
            BY <1>1, <3>2 DEF EnterGame, Forget, TypeOK, Screens
        <3>3. CASE UNCHANGED <<screen, hostId, drawn>>
            BY <1>1, <2>1, <3>3 DEF TypeOK
        <3>4. QED
            BY <3>1, <3>2, <3>3 DEF LobbyRead
    <2>4. QED
        BY <2>1, <2>2, <2>3 DEF LobbyRead
<1>4. Table!TypeOK' /\ Rooming' /\ Onward
    BY <1>1, <1>3, SameKeepsTable
<1>5. TypeOK'
    BY <1>1, <1>3, <1>4 DEF TypeOK, server, stream, talk
<1>6. \A d \in Clients \ {c} : Same(d)
    BY <1>3 DEF Same, server, stream, talk
<1>7. /\ session'[c] = session[c] /\ room'[c] = room[c] /\ up'[c] = up[c]
      /\ requests'[c] = requests[c] /\ answer'[c] = answer[c]
      /\ line'[c] = line[c] /\ pending'[c] = pending[c]
      /\ starting'[c] = starting[c] /\ chats'[c] = chats[c]
      /\ history'[c] = history[c] /\ misread'[c] = misread[c]
    BY <1>3 DEF server, stream, talk
<1>8. screen'[c] \in {"LOBBY", "IN_GAME"} /\ pending[c] \notin Waits
    <2>1. screen[c] \in Inside
        BY <1>3 DEF Inside
    <2>2. QED
        BY <1>1, <1>3, <2>1, OnInside
<1>9. Unconnected(c)' /\ Greeted(c)' /\ Screened(c)' /\ Served(c)'
    BY <1>3, <1>7, <1>2, <1>8
       DEF Unconnected, Greeted, Screened, Served, Seated, Waits, Menu,
           Inside, table
<1>10. Fitting(c)' /\ Awaited(c)' /\ Owed(c)'
    BY <1>3, <1>7, <1>2 DEF Fitting, Awaited, Owed, Seated
<1>11. Placed(c)'
    BY <1>3, <1>7, <1>2, <1>8 DEF Placed, HasJoined, Seated, Inside
<1>12. Framed(c)'
    BY <1>3, <1>7, <1>2, <1>8 DEF Framed
<1>13. Started(c)'
    BY <1>3, <1>7, <1>2 DEF Started, Announced, table
<1>14. Chatted(c)'
    BY <1>3, <1>7, <1>2, <1>8 DEF Chatted, Number
<1>15. QED
    BY <1>1, <1>3, <1>4, <1>5, <1>6, <1>7, <1>2, <1>8, <1>9, <1>10, <1>11,
       <1>12, <1>13, <1>14, StepKeeps
       DEF Good

\* One message of the lobby is read.
LEMMA ReadLobbyKeeps ==
    ASSUME Inv, NEW c \in Clients, ReadLobby(c)
    PROVE  Inv'
<1>1. TypeOK /\ Table!TypeOK /\ Rooming /\ Good(c)
    BY DEF Inv, TypeOK
<1>2. /\ Unconnected(c) /\ Greeted(c) /\ Screened(c) /\ Served(c)
      /\ Fitting(c) /\ Awaited(c) /\ Owed(c) /\ Placed(c) /\ Framed(c)
      /\ Started(c) /\ Chatted(c) /\ misread[c] /= "other"
    BY <1>1 DEF Good
<1>3. /\ UNCHANGED <<table, server, up, requests, answer, screen, pending,
                   rooms, drawn, talk>>
      /\ line' \in [Clients -> Seq(Units)] /\ hostId' \in [Clients -> Nat]
      /\ misread' \in [Clients -> {"no", "getRooms", "getLobbyState", "other"}]
      /\ loops' \in [Clients -> 0 .. MaxLoops + 1]
      /\ starting' \in [Clients -> BOOLEAN]
      /\ screen[c] = "LOBBY" /\ misread[c] = "no"
      /\ misread'[c] \in {"no", "getLobbyState"}
      /\ 1 \in DOMAIN line[c] /\ Length(c) \in 0 .. Len(line[c])
      /\ misread'[c] = "no" => \A i \in 1 .. Length(c) : ~IsChat(line[c][i])
      /\ line'[c] = SubSeq(line[c], Length(c) + 1, Len(line[c]))
      /\ \A i \in DOMAIN line'[c] :
            /\ i \in Int /\ i + Length(c) \in DOMAIN line[c]
            /\ i + Length(c) > 1 /\ line'[c][i] = line[c][i + Length(c)]
      /\ starting'[c] => starting[c] \/ IsNotice(line[c][1])
      /\ \A d \in Clients \ {c} :
            /\ line'[d] = line[d] /\ misread'[d] = misread[d]
            /\ starting'[d] = starting[d] /\ loops'[d] = loops[d]
    <2> DEFINE l == Len(line[c])
               k == Length(c)
    <2>1. /\ misread[c] = "no" /\ screen[c] = "LOBBY"
          /\ Whole(c) /\ Arrived(c)
        BY <1>1, <1>2, BoundsAssumption
           DEF ReadLobby, InStep, Screened, Whole, TypeOK
    <2>2. /\ 1 \in DOMAIN line[c] /\ First(c) = line[c][1]
          /\ l \in Nat /\ k \in Nat \ {0} /\ k <= l
          /\ First(c) \in Units
        BY <1>1, <2>1, Arriving DEF Whole
    <2> HIDE DEF k
    <2>3. k \in 0 .. Len(line[c])
        BY <2>2
    <2>4. Consume(c, k)
        BY DEF ReadLobby, k
    <2>5. /\ line' \in [Clients -> Seq(Units)]
          /\ \A d \in Clients \ {c} : line'[d] = line[d]
          /\ line'[c] = SubSeq(line[c], k + 1, Len(line[c]))
          /\ \A i \in DOMAIN line'[c] :
                /\ i \in Int /\ i >= 1 /\ i + k \in DOMAIN line[c]
                /\ line'[c][i] = line[c][i + k]
        BY <1>1, <2>3, <2>4, Taking
    <2>6. \A i \in DOMAIN line'[c] : i + k > 1
        BY <2>2, <2>5
    <2>7. /\ misread' \in [Clients ->
                             {"no", "getRooms", "getLobbyState", "other"}]
          /\ misread'[c] = IF IsChat(First(c)) \/ ~Intact(c)
                           THEN "getLobbyState" ELSE "no"
          /\ \A d \in Clients \ {c} : misread'[d] = misread[d]
        BY <1>1, <2>1 DEF ReadLobby, TypeOK, IsChat
    <2>8. ASSUME misread'[c] = "no", NEW i \in 1 .. k
          PROVE  ~IsChat(line[c][i])
        <3>1. Intact(c) /\ ~IsChat(First(c))
            BY <2>7, <2>8
        <3>2. i = 1 \/ i \in 2 .. k
            BY <2>2
        <3>3. PartOf(First(c)) /= "CHAT_MESSAGE"
            BY DEF PartOf
        <3>4. QED
            BY <2>2, <3>1, <3>2, <3>3 DEF Intact, IsChat, k
    <2>9. /\ loops' \in [Clients -> 0 .. MaxLoops + 1]
          /\ \A d \in Clients \ {c} : loops'[d] = loops[d]
        <3>1. loops' = [loops EXCEPT ![c] = loops[c] - 1] /\ loops[c] > 1
            BY DEF ReadLobby
        <3>2. loops[c] \in 0 .. MaxLoops + 1 /\ MaxLoops \in Nat
            BY <1>1, BoundsAssumption DEF TypeOK
        <3>3. loops[c] - 1 \in 0 .. MaxLoops + 1
            BY <3>1, <3>2
        <3>4. QED
            BY <1>1, <3>1, <3>3 DEF TypeOK
    <2>10. /\ starting' \in [Clients -> BOOLEAN]
           /\ hostId' \in [Clients -> Nat]
           /\ starting'[c] => starting[c] \/ IsNotice(line[c][1])
           /\ \A d \in Clients \ {c} : starting'[d] = starting[d]
        <3>1. CASE First(c).type = "LOBBY_STATE_RESPONSE"
            <4>1. /\ hostId' = [hostId EXCEPT ![c] = First(c).hostId]
                  /\ starting' = [starting EXCEPT ![c] = FALSE]
                BY <3>1 DEF ReadLobby
            <4>2. First(c).hostId \in Nat
                BY <2>2, <3>1, UnitsAre
            <4>3. hostId' \in [Clients -> Nat]
                BY <1>1, <4>1, <4>2 DEF TypeOK
            <4>4. QED
                BY <1>1, <4>1, <4>3 DEF TypeOK
        <3>2. CASE First(c).type /= "LOBBY_STATE_RESPONSE"
            <4>1. /\ starting' = [starting EXCEPT ![c] =
                         starting[c] \/ IsNotice(First(c))]
                  /\ hostId' = hostId
                BY <3>2 DEF ReadLobby, IsNotice
            <4>2. (starting[c] \/ IsNotice(First(c))) \in BOOLEAN
                BY <1>1 DEF TypeOK
            <4>3. QED
                BY <1>1, <2>2, <4>1, <4>2 DEF TypeOK
        <3>3. QED
            BY <3>1, <3>2
    <2>11. QED
        BY <2>1, <2>2, <2>3, <2>5, <2>6, <2>7, <2>8, <2>9, <2>10
           DEF ReadLobby, k
<1>4. Table!TypeOK' /\ Rooming' /\ Onward
    BY <1>1, <1>3, SameKeepsTable
<1>5. TypeOK'
    BY <1>1, <1>3, <1>4 DEF TypeOK, server, talk
<1>6. \A d \in Clients \ {c} : Same(d)
    BY <1>3 DEF Same, server, talk
<1>7. /\ session'[c] = session[c] /\ room'[c] = room[c] /\ up'[c] = up[c]
      /\ requests'[c] = requests[c] /\ answer'[c] = answer[c]
      /\ screen'[c] = screen[c] /\ pending'[c] = pending[c]
      /\ chats'[c] = chats[c] /\ history'[c] = history[c]
    BY <1>3 DEF server, talk
<1>8. \A i, j \in DOMAIN line'[c] : i > j => i + Length(c) > j + Length(c)
    <2>1. Length(c) \in Int
        BY <1>1, <1>3, Arriving
    <2> DEFINE k == Length(c)
    <2> HIDE DEF k
    <2>2. k \in Int
        BY <2>1 DEF k
    <2>3. \A i, j \in DOMAIN line'[c] : i \in Int /\ j \in Int
        BY <1>3
    <2>4. QED
        BY <2>2, <2>3 DEF k
<1>9. /\ pending[c] \notin Waits
      /\ \A i \in DOMAIN line[c] : ~IsFinal(line[c][i])
    <2>1. screen[c] \in Inside
        BY <1>3 DEF Inside
    <2>2. QED
        BY <1>1, <1>3, <2>1, OnInside
<1>10. \A i \in DOMAIN line'[c] :
            \E j \in DOMAIN line[c] : j > 1 /\ line'[c][i] = line[c][j]
    BY <1>3
<1>11. Unconnected(c)' /\ Greeted(c)' /\ Screened(c)' /\ Served(c)'
    BY <1>3, <1>7, <1>2, <1>9
       DEF Unconnected, Greeted, Screened, Served, Seated, Waits, Menu,
           Inside, table
<1>12. Fitting(c)' /\ Awaited(c)' /\ Owed(c)'
    <2>1. \A i \in DOMAIN line'[c] : ~IsFinal(line'[c][i])
        BY <1>9, <1>10
    <2>2. up[c] => session[c] /= "none"
        BY <1>3, <1>2 DEF Placed, Inside, Seated
    <2>3. QED
        BY <1>3, <1>7, <1>2, <1>9, <2>1, <2>2
           DEF Fitting, Awaited, Owed, Seated
<1>13. Placed(c)'
    BY <1>3, <1>7, <1>2 DEF Placed, Seated, Inside
<1>14. Framed(c)'
    BY <1>3, <1>7, <1>2 DEF Framed
<1>15. Started(c)'
    <2>1. SUFFICES ASSUME misread'[c] = "no" PROVE Started(c)'
        BY DEF Started
    <2>2. /\ \A i, j \in DOMAIN line[c] :
                IsNotice(line[c][i]) /\ i < j => Quiet(line[c][j])
          /\ Announced(c) =>
                answer[c] = <<>> /\ (up[c] => status[room[c]] /= "LOBBY")
          /\ starting[c] => \A i \in DOMAIN line[c] : Quiet(line[c][i])
        BY <1>3, <1>2 DEF Started
    <2>3. \A i, j \in DOMAIN line'[c] :
              IsNotice(line'[c][i]) /\ i < j => Quiet(line'[c][j])
        BY <1>3, <1>8, <2>2
    <2>4. starting'[c] => \A i \in DOMAIN line'[c] : Quiet(line'[c][i])
        BY <1>3, <1>10, <2>2
    <2>5. Announced(c)' => Announced(c)
        BY <1>3, <1>7, <1>10 DEF Announced
    <2>6. QED
        BY <1>3, <1>7, <2>2, <2>3, <2>4, <2>5 DEF Started, table
<1>16. Chatted(c)'
    <2>1. SUFFICES ASSUME misread'[c] = "no" PROVE Chatted(c)'
        BY DEF Chatted
    <2>2. screen[c] /= "EXITING"
        BY <1>3
    <2>3. QED
        BY <1>1, <1>3, <1>7, <1>2, <2>1, <2>2, TakenChatted
<1>17. QED
    BY <1>1, <1>3, <1>4, <1>5, <1>6, <1>7, <1>2, <1>8, <1>9, <1>10, <1>11,
       <1>12, <1>13, <1>14, <1>15, <1>16, StepKeeps
       DEF Good

\* A chat packet is shown, what is left of the lobby thrown away.
LEMMA ReceiveChatKeeps ==
    ASSUME Inv, NEW c \in Clients, ReceiveChat(c)
    PROVE  Inv'
<1>1. TypeOK /\ Table!TypeOK /\ Rooming /\ Good(c)
    BY DEF Inv, TypeOK
<1>2. /\ Unconnected(c) /\ Greeted(c) /\ Screened(c) /\ Served(c)
      /\ Fitting(c) /\ Awaited(c) /\ Owed(c) /\ Placed(c) /\ Framed(c)
      /\ Started(c) /\ Chatted(c) /\ misread[c] /= "other"
    BY <1>1 DEF Good
<1>3. /\ UNCHANGED <<table, server, up, requests, answer, screen, pending,
                   loops, view, said, chats>>
      /\ line' \in [Clients -> Seq(Units)]
      /\ history' \in [Clients -> Seq(Chats)]
      /\ misread' \in [Clients -> {"no", "getRooms", "getLobbyState", "other"}]
      /\ screen[c] = "IN_GAME" /\ misread[c] = "no" /\ misread'[c] = "no"
      /\ 1 \in DOMAIN line[c] /\ 1 \in 0 .. Len(line[c])
      /\ line'[c] = SubSeq(line[c], 1 + 1, Len(line[c]))
      /\ \A i \in DOMAIN line'[c] :
            /\ i \in Int /\ i + 1 \in DOMAIN line[c]
            /\ line'[c][i] = line[c][i + 1]
      /\ \/ /\ IsChat(line[c][1])
            /\ history'[c] = Append(history[c], line[c][1].text)
         \/ ~IsChat(line[c][1]) /\ history'[c] = history[c]
      /\ \A d \in Clients \ {c} :
            /\ line'[d] = line[d] /\ misread'[d] = misread[d]
            /\ history'[d] = history[d]
    <2>1. misread[c] = "no" /\ screen[c] = "IN_GAME" /\ Arrived(c)
        BY DEF ReceiveChat, InStep
    <2>2. /\ 1 \in DOMAIN line[c] /\ First(c) = line[c][1]
          /\ 1 \in 0 .. Len(line[c]) /\ First(c) \in Units
        BY <1>1, <2>1, Arriving
    <2>3. /\ line' \in [Clients -> Seq(Units)]
          /\ line'[c] = SubSeq(line[c], 1 + 1, Len(line[c]))
          /\ \A d \in Clients \ {c} : line'[d] = line[d]
          /\ \A i \in DOMAIN line'[c] :
                /\ i \in Int /\ i >= 1 /\ i + 1 \in DOMAIN line[c]
                /\ line'[c][i] = line[c][i + 1]
        BY <1>1, <2>2, Taking DEF ReceiveChat
    <2>4. Quiet(First(c))
        BY <1>2, <2>1, <2>2 DEF Started
    <2>5. /\ misread' \in [Clients ->
                             {"no", "getRooms", "getLobbyState", "other"}]
          /\ misread'[c] = "no"
          /\ \A d \in Clients \ {c} : misread'[d] = misread[d]
        <3>1. CASE IsChat(First(c))
            BY <1>1, <2>1, <3>1 DEF ReceiveChat, TypeOK, IsChat
        <3>2. CASE ~IsChat(First(c))
            <4>1. Harmless(First(c))
                BY <2>4, <3>2 DEF Quiet
            <4>2. misread' = [misread EXCEPT ![c] = misread[c]]
                BY <3>2, <4>1 DEF ReceiveChat, Outcome, IsChat
            <4>3. QED
                BY <1>1, <2>1, <4>2 DEF TypeOK
        <3>3. QED
            BY <3>1, <3>2
    <2>6. /\ history' \in [Clients -> Seq(Chats)]
          /\ \/ /\ IsChat(line[c][1])
                /\ history'[c] = Append(history[c], line[c][1].text)
             \/ ~IsChat(line[c][1]) /\ history'[c] = history[c]
          /\ \A d \in Clients \ {c} : history'[d] = history[d]
        <3>1. CASE IsChat(First(c))
            <4>1. history' = [history EXCEPT
                                 ![c] = Append(history[c], First(c).text)]
                BY <3>1 DEF ReceiveChat, IsChat
            <4>2. First(c).text \in Chats /\ history[c] \in Seq(Chats)
                BY <1>1, <2>2, <3>1, UnitsAre DEF TypeOK
            <4>3. Append(history[c], First(c).text) \in Seq(Chats)
                BY <4>2, AppendIs
            <4>4. QED
                BY <1>1, <2>2, <3>1, <4>1, <4>3 DEF TypeOK
        <3>2. CASE ~IsChat(First(c))
            BY <1>1, <2>2, <3>2 DEF ReceiveChat, IsChat, TypeOK
        <3>3. QED
            BY <3>1, <3>2
    <2>7. QED
        BY <2>1, <2>2, <2>3, <2>5, <2>6 DEF ReceiveChat
<1>4. Table!TypeOK' /\ Rooming' /\ Onward
    BY <1>1, <1>3, SameKeepsTable
<1>5. TypeOK'
    BY <1>1, <1>3, <1>4 DEF TypeOK, server, view
<1>6. \A d \in Clients \ {c} : Same(d)
    BY <1>3 DEF Same, server, view
<1>7. /\ session'[c] = session[c] /\ room'[c] = room[c] /\ up'[c] = up[c]
      /\ requests'[c] = requests[c] /\ answer'[c] = answer[c]
      /\ screen'[c] = screen[c] /\ pending'[c] = pending[c]
      /\ starting'[c] = starting[c] /\ loops'[c] = loops[c]
      /\ chats'[c] = chats[c]
    BY <1>3 DEF server, view
<1>8. \A i \in DOMAIN line'[c] :
            \E j \in DOMAIN line[c] : line'[c][i] = line[c][j]
    BY <1>3
<1>9. /\ pending[c] \notin Waits
      /\ \A i \in DOMAIN line'[c] : ~IsFinal(line'[c][i])
    <2>1. screen[c] \in Inside
        BY <1>3 DEF Inside
    <2>2. /\ pending[c] \notin Waits
          /\ \A i \in DOMAIN line[c] : ~IsFinal(line[c][i])
        BY <1>1, <1>3, <2>1, OnInside
    <2>3. QED
        BY <1>8, <2>2
<1>10. Unconnected(c)' /\ Greeted(c)' /\ Screened(c)' /\ Served(c)'
    BY <1>3, <1>7, <1>2, <1>9
       DEF Unconnected, Greeted, Screened, Served, Seated, Waits, Menu,
           Inside, table
<1>11. Fitting(c)' /\ Awaited(c)' /\ Owed(c)'
    <2>1. up[c] => session[c] /= "none"
        BY <1>3, <1>2 DEF Placed, Inside, Seated
    <2>2. QED
        BY <1>3, <1>7, <1>2, <1>9, <2>1 DEF Fitting, Awaited, Owed, Seated
<1>12. Placed(c)'
    BY <1>3, <1>7, <1>2 DEF Placed, Seated, Inside
<1>13. Framed(c)'
    BY <1>3, <1>7, <1>2 DEF Framed
<1>14. Started(c)'
    <2>1. /\ \A i \in DOMAIN line[c] : Quiet(line[c][i])
          /\ answer[c] = <<>> /\ (up[c] => status[room[c]] /= "LOBBY")
        BY <1>3, <1>2 DEF Started, Announced
    <2>2. \A i \in DOMAIN line'[c] : Quiet(line'[c][i])
        BY <1>8, <2>1
    <2>3. QED
        BY <1>3, <1>7, <2>1, <2>2 DEF Started, table
<1>15. Chatted(c)'
    <2>1. screen[c] /= "EXITING"
        BY <1>3
    <2>2. CASE IsChat(line[c][1])
        <3>1. line'[c] = SubSeq(line[c], 2, Len(line[c]))
            BY <1>3
        <3>2. history'[c] = Append(history[c], line[c][1].text)
            BY <1>3, <2>2
        <3>3. QED
            BY <1>1, <1>3, <1>7, <1>2, <2>1, <2>2, <3>1, <3>2, HeardChatted
    <2>3. CASE ~IsChat(line[c][1])
        <3>1. history'[c] = history[c]
            BY <1>3, <2>3
        <3>2. \A i \in 1 .. 1 : ~IsChat(line[c][i])
            BY <2>3
        <3>3. QED
            BY <1>1, <1>3, <1>7, <1>2, <2>1, <3>1, <3>2, TakenChatted
    <2>4. QED
        BY <2>2, <2>3
<1>16. QED
    BY <1>1, <1>3, <1>4, <1>5, <1>6, <1>7, <1>2, <1>8, <1>9, <1>10, <1>11,
       <1>12, <1>13, <1>14, <1>15, StepKeeps
       DEF Good

-----------------------------------------------------------------------------
(* What a session does to its client.                                      *)

\* The client's own state, and what it was sent of the chat, are left alone.
Undisturbed(c) ==
    /\ up'[c] = up[c] /\ screen'[c] = screen[c] /\ pending'[c] = pending[c]
    /\ starting'[c] = starting[c] /\ loops'[c] = loops[c]
    /\ chats'[c] = chats[c] /\ history'[c] = history[c]
    /\ misread'[c] = misread[c]

\* What a request that is read says of the client.
LEMMA OnServing ==
    ASSUME TypeOK, NEW c \in Clients, Good(c), NEW type, Reads(c, type)
    PROVE  /\ pending[c] /= "connect"
           /\ type /= "CONNECT" => pending[c] /= "hello"
           /\ up[c] => screen[c] /= "EXITING"
           /\ misread[c] = "no" /\ up[c] =>
                 /\ \A i \in DOMAIN line[c] : ~IsFinal(line[c][i])
                 /\ ~HasJoined(c)
                 /\ Seated(c) <=> screen[c] \in Inside
                 /\ Seated(c) => pending[c] \notin Waits
<1>1. /\ requests[c] /= <<>> /\ 1 \in DOMAIN requests[c]
      /\ requests[c][1].type = type
    BY Serving DEF Reads
<1>2. /\ Unconnected(c) /\ Greeted(c) /\ Screened(c) /\ Owed(c) /\ Placed(c)
    BY DEF Good
<1>3. pending[c] /= "connect"
    BY <1>1, <1>2 DEF Unconnected
<1>4. type /= "CONNECT" => pending[c] /= "hello"
    BY <1>1, <1>2 DEF Greeted
<1>5. up[c] => screen[c] /= "EXITING"
    BY <1>2 DEF Screened
<1>6. ASSUME misread[c] = "no", up[c]
      PROVE  /\ \A i \in DOMAIN line[c] : ~IsFinal(line[c][i])
             /\ ~HasJoined(c)
             /\ Seated(c) <=> screen[c] \in Inside
             /\ Seated(c) => pending[c] \notin Waits
    <2>1. \A i \in DOMAIN line[c] : ~IsFinal(line[c][i])
        BY <1>1, <1>2, <1>6 DEF Owed
    <2>2. ~HasJoined(c)
        BY <2>1 DEF HasJoined, Joined, IsFinal
    <2>3. Seated(c) <=> screen[c] \in Inside
        BY <1>2, <1>6, <2>2 DEF Placed
    <2>4. Seated(c) => pending[c] \notin Waits
        BY <1>2, <2>3 DEF Screened, Inside
    <2>5. QED
        BY <2>1, <2>2, <2>3, <2>4
<1>7. QED
    BY <1>3, <1>4, <1>5, <1>6

\* What is served once the connection is gone is seen by nobody.
LEMMA DeadKeeps ==
    ASSUME NEW c \in Clients, Good(c), ~up[c], pending[c] /= "connect",
           \A i \in DOMAIN requests'[c] :
               \E j \in DOMAIN requests[c] : requests'[c][i] = requests[c][j],
           Seated(c)' => /\ room'[c] \in RoomIds /\ room'[c] < nextRoom'
                         /\ pending[c] /= "hello",
           answer'[c] = answer[c], line'[c] = line[c], Undisturbed(c)
    PROVE  Good(c)'
<1>1. /\ up'[c] = up[c] /\ screen'[c] = screen[c] /\ pending'[c] = pending[c]
      /\ starting'[c] = starting[c] /\ loops'[c] = loops[c]
      /\ chats'[c] = chats[c] /\ history'[c] = history[c]
      /\ misread'[c] = misread[c]
    BY DEF Undisturbed
<1>2. /\ Unconnected(c) /\ Greeted(c) /\ Screened(c) /\ Served(c)
      /\ Awaited(c) /\ Framed(c) /\ Started(c) /\ Chatted(c)
      /\ misread[c] /= "other"
    BY DEF Good
<1>3. answer[c] = <<>> /\ ~up'[c]
    BY <1>1, <1>2 DEF Served
<1>4. Unconnected(c)' /\ Greeted(c)' /\ Screened(c)'
    BY <1>1, <1>2 DEF Unconnected, Greeted, Screened
<1>5. Served(c)'
    BY <1>2, <1>3 DEF Served
<1>6. Fitting(c)' /\ Owed(c)' /\ Placed(c)'
    BY <1>3 DEF Fitting, Owed, Placed
<1>7. Awaited(c)'
    BY <1>1, <1>2 DEF Awaited
<1>8. Framed(c)'
    BY <1>1, <1>2, <1>3 DEF Framed
<1>9. Started(c)'
    BY <1>1, <1>2, <1>3 DEF Started
<1>10. Chatted(c)'
    BY <1>1, <1>2 DEF Chatted, Number
<1>11. QED
    BY <1>1, <1>2, <1>4, <1>5, <1>6, <1>7, <1>8, <1>9, <1>10 DEF Good

\* A bound on the lists is one for any greater place.
LEMMA WithinMore ==
    ASSUME NEW s \in Seq(Units), NEW k \in Nat, Within(s, k)
    PROVE  Within(s, k + 1)
<1>1. ASSUME NEW j \in DOMAIN s, IsList(s[j])
      PROVE  j + s[j].count <= k + 1
    <2>1. s[j].count \in Nat /\ j \in Int
        BY <1>1, UnitsAre
    <2>2. j + s[j].count \in Int /\ j + s[j].count <= k
        BY <1>1, <2>1 DEF Within
    <2>3. QED
        BY <2>2
<1>2. QED
    BY <1>1 DEF Within

\* A request of the room menu is answered: by a header and its rooms, or by
\* what the client waits for.
LEMMA LobbyServes ==
    ASSUME TypeOK, NEW c \in Clients, Good(c), up[c], session[c] = "lobby",
           NEW type, Reads(c, type), NEW u \in Units,
           \/ /\ type = "LIST_ROOMS" /\ IsList(u)
              /\ u.count = Len(answer'[c])
              /\ \A i \in DOMAIN answer'[c] : IsInfo(answer'[c][i])
           \/ /\ type = "CREATE_ROOM" /\ u.type = "CREATE_ROOM_RESPONSE"
              /\ answer'[c] = <<>>
           \/ /\ type = "JOIN_ROOM" /\ u.type = "JOIN_ROOM_RESPONSE"
              /\ answer'[c] = <<>>,
           answer'[c] \in Seq(Units), line'[c] = Append(line[c], u),
           session'[c] = IF u = Joined THEN "joining" ELSE "lobby",
           u = Joined => room'[c] \in RoomIds /\ room'[c] < nextRoom',
           Undisturbed(c)
    PROVE  Good(c)'
<1> DEFINE s == line[c]
           t == line'[c]
<1>1. /\ up'[c] = up[c] /\ screen'[c] = screen[c] /\ pending'[c] = pending[c]
      /\ starting'[c] = starting[c] /\ loops'[c] = loops[c]
      /\ chats'[c] = chats[c] /\ history'[c] = history[c]
      /\ misread'[c] = misread[c]
    BY DEF Undisturbed
<1>2. /\ Unconnected(c) /\ Greeted(c) /\ Screened(c) /\ Served(c)
      /\ Fitting(c) /\ Awaited(c) /\ Owed(c) /\ Placed(c) /\ Framed(c)
      /\ Started(c) /\ Chatted(c) /\ misread[c] /= "other"
    BY DEF Good
<1>3. /\ pending[c] /= "connect" /\ pending[c] /= "hello"
      /\ screen[c] /= "EXITING"
      /\ misread[c] = "no" =>
            /\ \A i \in DOMAIN s : ~IsFinal(s[i])
            /\ ~HasJoined(c) /\ screen[c] \notin Inside
    BY OnServing DEF Seated
<1>4. /\ answer[c] = <<>> /\ 1 \in DOMAIN requests[c]
      /\ requests[c][1].type = type
      /\ Len(requests[c]) \in Nat
      /\ Len(requests[c]) = 1 => requests'[c] = <<>>
      /\ \A i \in DOMAIN requests'[c] :
            /\ i \in Int /\ i + 1 \in DOMAIN requests[c]
            /\ requests'[c][i] = requests[c][i + 1]
            /\ i + 1 = Len(requests[c]) => i = Len(requests'[c])
      /\ \A i \in DOMAIN requests[c] : i = 1 \/
            \E j \in DOMAIN requests'[c] : requests'[c][j] = requests[c][i]
    BY Serving
<1>5. /\ s \in Seq(Units) /\ t \in Seq(Units)
      /\ Len(t) = Len(s) + 1 /\ Len(s) \in Nat
      /\ DOMAIN s = 1 .. Len(s) /\ DOMAIN t = 1 .. Len(s) + 1
      /\ \A i \in DOMAIN s : i \in DOMAIN t /\ t[i] = s[i]
      /\ t[Len(s) + 1] = u
      /\ \A i \in DOMAIN t : i \in DOMAIN s \/ i = Len(s) + 1
    <2>1. s \in Seq(Units)
        BY DEF TypeOK
    <2>2. QED
        BY <2>1, AppendOf
<1>6. /\ ~IsChat(u) /\ ~IsNotice(u) /\ ~IsInfo(u)
      /\ type = "LIST_ROOMS" => ~IsFinal(u) /\ u /= Joined
      /\ type /= "LIST_ROOMS" => IsFinal(u) /\ ~IsList(u) /\ answer'[c] = <<>>
    BY DEF IsChat, IsNotice, IsInfo, IsList, IsFinal, Joined
<1> HIDE DEF s, t
<1>7. Unconnected(c)' /\ Greeted(c)' /\ Screened(c)'
    BY <1>1, <1>2, <1>3 DEF Unconnected, Greeted, Screened
<1>8. Served(c)'
    <2>1. \A i \in DOMAIN answer'[c] : answer'[c][i].type = "RoomInfo"
        <3>1. \A i : i \notin DOMAIN <<>>
            OBVIOUS
        <3>2. QED
            BY <3>1 DEF IsInfo
    <2>2. QED
        BY <1>1, <1>2, <1>6, <2>1 DEF Served, Seated, Joined
<1>9. u = Joined => requests'[c] = <<>>
    <2>1. u = Joined => type = "JOIN_ROOM"
        BY DEF Joined, IsList
    <2>2. QED
        BY <1>2, <1>4, <2>1 DEF Fitting
<1>10. Fitting(c)'
    <2>1. CASE u = Joined
        <3>1. \A i : i \notin DOMAIN <<>>
            OBVIOUS
        <3>2. QED
            BY <1>9, <2>1, <3>1 DEF Fitting
    <2>2. CASE u /= Joined
        BY <1>2, <1>4, <2>2 DEF Fitting, Seated
    <2>3. QED
        BY <2>1, <2>2
<1>11. misread[c] = "no" /\ type /= "LIST_ROOMS" =>
          /\ requests'[c] = <<>> /\ pending[c] \in Waits
          /\ u.type = Gets[pending[c]]
    <2>1. SUFFICES ASSUME misread[c] = "no", type /= "LIST_ROOMS"
                   PROVE  /\ requests'[c] = <<>> /\ pending[c] \in Waits
                          /\ u.type = Gets[pending[c]]
        OBVIOUS
    <2>2. IsAsk(requests[c][1])
        BY <1>4, <2>1 DEF IsAsk
    <2>3. /\ 1 = Len(requests[c]) /\ pending[c] \in Waits
          /\ requests[c][1].type = Asks[pending[c]]
        BY <1>2, <1>4, <2>1, <2>2 DEF Owed
    <2>4. u.type = Gets[pending[c]]
        BY <1>3, <1>4, <2>1, <2>3 DEF Waits, Asks, Gets
    <2>5. QED
        BY <1>4, <2>3, <2>4
<1>12. Awaited(c)'
    <2>1. SUFFICES ASSUME misread[c] = "no", NEW i \in DOMAIN t, IsFinal(t[i])
                   PROVE  /\ pending[c] \in Waits
                          /\ t[i].type = Gets[pending[c]]
                          /\ \A j \in DOMAIN t : ~(j > i)
        BY <1>1 DEF Awaited, t
    <2>2. i = Len(s) + 1
        BY <1>3, <1>5, <2>1
    <2>3. type /= "LIST_ROOMS"
        BY <1>5, <1>6, <2>1, <2>2
    <2>4. QED
        BY <1>5, <1>11, <2>1, <2>2, <2>3
<1>13. Owed(c)'
    <2>1. SUFFICES ASSUME misread[c] = "no" PROVE Owed(c)'
        BY <1>1 DEF Owed
    <2>2. CASE type /= "LIST_ROOMS"
        <3>1. requests'[c] = <<>> /\ \A i : i \notin DOMAIN requests'[c]
            BY <1>11, <2>1, <2>2
        <3>2. Len(s) + 1 \in DOMAIN t /\ IsFinal(t[Len(s) + 1])
            BY <1>5, <1>6, <2>2
        <3>3. QED
            BY <3>1, <3>2 DEF Owed, t
    <2>3. CASE type = "LIST_ROOMS"
        <3>1. \A i \in DOMAIN t : ~IsFinal(t[i])
            BY <1>3, <1>5, <1>6, <2>1, <2>3
        <3>2. /\ \A i \in DOMAIN requests[c] : IsAsk(requests[c][i]) =>
                    /\ i = Len(requests[c]) /\ pending[c] \in Waits
                    /\ requests[c][i].type = Asks[pending[c]]
              /\ pending[c] \in Waits =>
                    \E i \in DOMAIN requests[c] : IsAsk(requests[c][i])
            BY <1>2, <1>3, <2>1 DEF Owed, s
        <3>3. ~IsAsk(requests[c][1])
            BY <1>4, <2>3 DEF IsAsk
        <3>4. pending[c] \in Waits =>
                  \E i \in DOMAIN requests'[c] : IsAsk(requests'[c][i])
            BY <1>4, <3>2, <3>3
        <3>5. \A i \in DOMAIN requests'[c] : IsAsk(requests'[c][i]) =>
                  /\ i = Len(requests'[c]) /\ pending[c] \in Waits
                  /\ requests'[c][i].type = Asks[pending[c]]
            BY <1>4, <3>2
        <3>6. QED
            BY <1>1, <3>1, <3>4, <3>5 DEF Owed, t
    <2>4. QED
        BY <2>2, <2>3
<1>14. Placed(c)'
    <2>1. SUFFICES ASSUME misread[c] = "no" PROVE Placed(c)'
        BY <1>1 DEF Placed
    <2>2. HasJoined(c)' <=> u = Joined
        BY <1>3, <1>5, <2>1 DEF HasJoined, s, t
    <2>3. Seated(c)' <=> u = Joined
        BY DEF Seated
    <2>4. u = Joined => answer'[c] = <<>>
        BY <1>6
    <2>5. screen'[c] \notin Inside
        BY <1>1, <1>3, <2>1
    <2>6. QED
        BY <1>9, <2>2, <2>3, <2>4, <2>5 DEF Placed
<1>15. Framed(c)'
    <2>1. SUFFICES ASSUME misread[c] = "no", screen[c] = "ROOM_SELECTION"
                   PROVE  Framed(c)'
        BY <1>1 DEF Framed
    <2>2. Led(s) /\ Filled(s) /\ Browsed(s) /\ Within(s, Len(s))
        <3>1. Within(s, Len(s) + Len(<<>>))
            BY <1>2, <1>4, <2>1 DEF Framed, s
        <3>2. Len(s) + Len(<<>>) = Len(s)
            BY <1>5
        <3>3. QED
            BY <1>2, <2>1, <3>1, <3>2 DEF Framed, s
    <2>3. MayCome(s, u)
        BY <1>6, <2>2 DEF MayCome
    <2>4. t = Append(s, u)
        BY DEF s, t
    <2>5. /\ Led(t) /\ Filled(t) /\ Browsed(t)
          /\ \A k \in Nat : Within(s, k) => IsList(u) \/ Within(t, k)
          /\ IsList(u) =>
                /\ Within(t, Len(s) + 1 + u.count)
                /\ Reaching(t, Len(s) + 1 + u.count)
        BY <1>5, <2>2, <2>3, <2>4, AppendingKeepsFrames
    <2>6. CASE type = "LIST_ROOMS"
        <3>1. session'[c] = "lobby"
            BY <1>6, <2>6
        <3>2. /\ Within(t, Len(t) + Len(answer'[c]))
              /\ Reaching(t, Len(t) + Len(answer'[c]))
            BY <1>5, <1>6, <2>5, <2>6
        <3>3. QED
            BY <1>6, <2>5, <2>6, <3>1, <3>2 DEF Framed, t
    <2>7. CASE type /= "LIST_ROOMS"
        <3>1. Within(s, Len(s) + 1)
            BY <1>5, <2>2, WithinMore
        <3>2. Within(t, Len(t))
            BY <1>5, <1>6, <2>5, <2>7, <3>1
        <3>3. answer'[c] = <<>> /\ Len(t) + 0 = Len(t) /\ Len(answer'[c]) = 0
            BY <1>5, <1>6, <2>7
        <3>4. QED
            BY <2>5, <3>2, <3>3 DEF Framed, t
    <2>8. QED
        BY <2>6, <2>7
<1>16. Started(c)'
    BY <1>1, <1>3 DEF Started, Inside
<1>17. Chatted(c)'
    BY <1>1, <1>2, <1>6, PutChatted
<1>18. QED
    BY <1>1, <1>2, <1>7, <1>8, <1>10, <1>12, <1>13, <1>14, <1>15, <1>16,
       <1>17
       DEF Good

\* A request of a room is read.
LEMMA RoomServes ==
    ASSUME TypeOK, Table!TypeOK', Onward, NEW c \in Clients, Good(c), up[c],
           session[c] = "room", NEW type \in RoomKinds, Reads(c, type),
           session'[c] = session[c], room'[c] = room[c], Undisturbed(c)
    PROVE  /\ Unconnected(c)' /\ Greeted(c)' /\ Screened(c)' /\ Fitting(c)'
           /\ Seated(c)' /\ room'[c] \in RoomIds /\ room'[c] < nextRoom'
           /\ status[room[c]] /= "LOBBY" => status'[room[c]] /= "LOBBY"
           /\ misread[c] = "no" =>
                 /\ \A i \in DOMAIN line[c] : ~IsFinal(line[c][i])
                 /\ ~HasJoined(c) /\ pending[c] \notin Waits
                 /\ screen[c] \in Inside /\ screen[c] /= "ROOM_SELECTION"
                 /\ \A i \in DOMAIN requests'[c] : ~IsAsk(requests'[c][i])
<1>1. /\ up'[c] = up[c] /\ screen'[c] = screen[c] /\ pending'[c] = pending[c]
      /\ starting'[c] = starting[c] /\ loops'[c] = loops[c]
      /\ history'[c] = history[c] /\ misread'[c] = misread[c]
    BY DEF Undisturbed
<1>2. Unconnected(c) /\ Greeted(c) /\ Screened(c) /\ Served(c) /\ Fitting(c)
    BY DEF Good
<1>3. Seated(c) /\ Seated(c)'
    BY DEF Seated
<1>4. /\ pending[c] /= "connect" /\ pending[c] /= "hello"
      /\ screen[c] /= "EXITING"
      /\ misread[c] = "no" =>
            /\ \A i \in DOMAIN line[c] : ~IsFinal(line[c][i])
            /\ ~HasJoined(c) /\ pending[c] \notin Waits
            /\ screen[c] \in Inside
    <2>1. type /= "CONNECT"
        BY DEF RoomKinds
    <2>2. QED
        BY <1>3, <2>1, OnServing
<1>5. \A i \in DOMAIN requests'[c] :
          /\ i + 1 \in DOMAIN requests[c]
          /\ requests'[c][i] = requests[c][i + 1]
    BY Serving
<1>6. \A i \in DOMAIN requests'[c] : requests'[c][i].type \in RoomKinds
    BY <1>2, <1>3, <1>5 DEF Fitting
<1>7. \A i \in DOMAIN requests'[c] : ~IsAsk(requests'[c][i])
    BY <1>6 DEF RoomKinds, IsAsk
<1>8. Unconnected(c)' /\ Greeted(c)'
    BY <1>1, <1>2, <1>4 DEF Unconnected, Greeted
<1>9. Screened(c)'
    BY <1>1, <1>2, <1>4 DEF Screened
<1>10. Fitting(c)'
    BY <1>6 DEF Fitting, Seated
<1>11. /\ room'[c] \in RoomIds /\ room'[c] < nextRoom'
       /\ status[room[c]] /= "LOBBY" => status'[room[c]] /= "LOBBY"
    BY <1>2, <1>3, RoomStays DEF TypeOK
<1>12. QED
    BY <1>3, <1>4, <1>7, <1>8, <1>9, <1>10, <1>11 DEF Inside

\* Nothing is written for it.
LEMMA RoomHears ==
    ASSUME TypeOK, Table!TypeOK', Onward, NEW c \in Clients, Good(c), up[c],
           session[c] = "room", NEW type \in RoomKinds, Reads(c, type),
           session'[c] = session[c], room'[c] = room[c], Undisturbed(c),
           line'[c] = line[c], answer'[c] = answer[c]
    PROVE  Good(c)'
<1>1. /\ up'[c] = up[c] /\ screen'[c] = screen[c] /\ pending'[c] = pending[c]
      /\ starting'[c] = starting[c] /\ loops'[c] = loops[c]
      /\ chats'[c] = chats[c] /\ history'[c] = history[c]
      /\ misread'[c] = misread[c]
    BY DEF Undisturbed
<1>2. /\ Served(c) /\ Awaited(c) /\ Started(c) /\ Chatted(c)
      /\ misread[c] /= "other"
    BY DEF Good
<1>3. /\ Unconnected(c)' /\ Greeted(c)' /\ Screened(c)' /\ Fitting(c)'
      /\ Seated(c)' /\ room'[c] \in RoomIds /\ room'[c] < nextRoom'
      /\ status[room[c]] /= "LOBBY" => status'[room[c]] /= "LOBBY"
    BY RoomServes
<1>4. misread[c] = "no" =>
          /\ \A i \in DOMAIN line[c] : ~IsFinal(line[c][i])
          /\ ~HasJoined(c) /\ pending[c] \notin Waits
          /\ screen[c] \in Inside /\ screen[c] /= "ROOM_SELECTION"
          /\ \A i \in DOMAIN requests'[c] : ~IsAsk(requests'[c][i])
    BY RoomServes
<1>5. Served(c)'
    BY <1>1, <1>2, <1>3 DEF Served
<1>6. Awaited(c)'
    BY <1>1, <1>2 DEF Awaited
<1>7. Owed(c)'
    BY <1>1, <1>4 DEF Owed
<1>8. Placed(c)'
    BY <1>1, <1>3, <1>4 DEF Placed
<1>9. Framed(c)'
    BY <1>1, <1>4 DEF Framed
<1>10. Started(c)'
    BY <1>1, <1>2, <1>3 DEF Started, Announced
<1>11. Chatted(c)'
    BY <1>1, <1>2 DEF Chatted, Number
<1>12. QED
    BY <1>1, <1>2, <1>3, <1>5, <1>6, <1>7, <1>8, <1>9, <1>10, <1>11 DEF Good

\* The state of the lobby is written for it, or that the game starts.
LEMMA RoomAnswers ==
    ASSUME TypeOK, Table!TypeOK', Onward, NEW c \in Clients, Good(c), up[c],
           session[c] = "room", NEW type \in RoomKinds, Reads(c, type),
           session'[c] = session[c], room'[c] = room[c], Undisturbed(c),
           NEW u \in Units, line'[c] = Append(line[c], u),
           u.type \in {"GAME_STARTING_NOTIFICATION", "LOBBY_STATE_RESPONSE"},
           \A i \in DOMAIN answer'[c] : answer'[c][i].type = "LobbyPlayerInfo",
           status[room[c]] /= "LOBBY" \/ IsNotice(u) =>
               /\ Harmless(u) /\ answer'[c] = <<>>
               /\ status[room[c]] /= "LOBBY"
    PROVE  Good(c)'
<1> DEFINE s == line[c]
           t == line'[c]
<1>1. /\ up'[c] = up[c] /\ screen'[c] = screen[c] /\ pending'[c] = pending[c]
      /\ starting'[c] = starting[c] /\ loops'[c] = loops[c]
      /\ chats'[c] = chats[c] /\ history'[c] = history[c]
      /\ misread'[c] = misread[c]
    BY DEF Undisturbed
<1>2. /\ Served(c) /\ Awaited(c) /\ Started(c) /\ Chatted(c)
      /\ misread[c] /= "other"
    BY DEF Good
<1>3. /\ Unconnected(c)' /\ Greeted(c)' /\ Screened(c)' /\ Fitting(c)'
      /\ Seated(c)' /\ room'[c] \in RoomIds /\ room'[c] < nextRoom'
      /\ status[room[c]] /= "LOBBY" => status'[room[c]] /= "LOBBY"
    BY RoomServes
<1>4. misread[c] = "no" =>
          /\ \A i \in DOMAIN s : ~IsFinal(s[i])
          /\ ~HasJoined(c) /\ pending[c] \notin Waits
          /\ screen[c] \in Inside /\ screen[c] /= "ROOM_SELECTION"
          /\ \A i \in DOMAIN requests'[c] : ~IsAsk(requests'[c][i])
    BY RoomServes
<1>5. /\ Len(s) \in Nat /\ DOMAIN s = 1 .. Len(s)
      /\ \A i \in DOMAIN s : i \in DOMAIN t /\ t[i] = s[i]
      /\ t[Len(s) + 1] = u
      /\ \A i \in DOMAIN t : i \in DOMAIN s \/ i = Len(s) + 1
    <2>1. s \in Seq(Units)
        BY DEF TypeOK
    <2>2. QED
        BY <2>1, AppendOf
<1>6. ~IsChat(u) /\ ~IsFinal(u) /\ u /= Joined
    BY DEF IsChat, IsFinal, Joined
<1>7. Served(c)'
    BY <1>1, <1>2, <1>3 DEF Served, Seated
<1>8. misread[c] = "no" => \A i \in DOMAIN t : ~IsFinal(t[i])
    BY <1>4, <1>5, <1>6
<1>9. Awaited(c)'
    BY <1>1, <1>8 DEF Awaited
<1>10. Owed(c)'
    BY <1>1, <1>4, <1>8 DEF Owed
<1>11. Placed(c)'
    <2>1. ~HasJoined(c) => ~HasJoined(c)'
        BY <1>5, <1>6 DEF HasJoined
    <2>2. QED
        BY <1>1, <1>3, <1>4, <2>1 DEF Placed
<1>12. Framed(c)'
    BY <1>1, <1>4 DEF Framed
<1>13. Started(c)'
    <2>1. SUFFICES ASSUME misread[c] = "no", screen[c] \in {"LOBBY", "IN_GAME"}
                   PROVE  Started(c)'
        BY <1>1 DEF Started
    <2>2. /\ \A i, j \in DOMAIN s : IsNotice(s[i]) /\ i < j => Quiet(s[j])
          /\ Announced(c) => answer[c] = <<>> /\ status[room[c]] /= "LOBBY"
          /\ starting[c] \/ screen[c] = "IN_GAME" =>
                \A i \in DOMAIN s : Quiet(s[i])
        BY <1>2, <2>1 DEF Started
    <2>3. Announced(c) \/ IsNotice(u) =>
              Quiet(u) /\ answer'[c] = <<>> /\ status[room[c]] /= "LOBBY"
        BY <2>2 DEF Quiet
    <2>4. Announced(c)' => Announced(c) \/ IsNotice(u)
        BY <1>1, <1>5 DEF Announced
    <2>5. ASSUME NEW i \in DOMAIN t, NEW j \in DOMAIN t, IsNotice(t[i]), i < j
          PROVE  Quiet(t[j])
        <3>1. i \in DOMAIN s
            BY <1>5, <2>5
        <3>2. CASE j \in DOMAIN s
            BY <1>5, <2>2, <2>5, <3>1, <3>2
        <3>3. CASE j = Len(s) + 1
            BY <1>5, <2>3, <2>5, <3>1, <3>3 DEF Announced
        <3>4. QED
            BY <1>5, <3>2, <3>3
    <2>6. Announced(c)' => answer'[c] = <<>> /\ status'[room'[c]] /= "LOBBY"
        BY <1>3, <2>3, <2>4
    <2>7. starting[c] \/ screen[c] = "IN_GAME" => \A i \in DOMAIN t : Quiet(t[i])
        BY <1>5, <2>2, <2>3 DEF Announced
    <2>8. QED
        BY <1>1, <2>5, <2>6, <2>7 DEF Started, t
<1>14. Chatted(c)'
    BY <1>1, <1>2, <1>6, PutChatted
<1>15. QED
    BY <1>1, <1>2, <1>3, <1>7, <1>9, <1>10, <1>11, <1>12, <1>13, <1>14
       DEF Good

-----------------------------------------------------------------------------
(* The steps of a session.                                                 *)

\* The next unit of an answer is written.
LEMMA WriteUnitKeeps ==
    ASSUME Inv, NEW c \in Clients, WriteUnit(c)
    PROVE  Inv'
<1>1. TypeOK /\ Table!TypeOK /\ Rooming /\ Good(c)
    BY DEF Inv, TypeOK
<1>2. /\ Unconnected(c) /\ Greeted(c) /\ Screened(c) /\ Served(c)
      /\ Fitting(c) /\ Awaited(c) /\ Owed(c) /\ Placed(c) /\ Framed(c)
      /\ Started(c) /\ Chatted(c) /\ misread[c] /= "other"
    BY <1>1 DEF Good
<1>3. /\ UNCHANGED <<table, server, up, requests, client, talk>>
      /\ line' \in [Clients -> Seq(Units)]
      /\ answer' \in [Clients -> Seq(Units)]
      /\ answer[c] /= <<>> /\ answer[c] \in Seq(Units)
      /\ line'[c] = Append(line[c], answer[c][1])
      /\ answer'[c] = Tail(answer[c])
      /\ Len(answer'[c]) = Len(answer[c]) - 1 /\ Len(answer[c]) \in Nat \ {0}
      /\ \A i \in DOMAIN answer'[c] :
            \E j \in DOMAIN answer[c] : answer'[c][i] = answer[c][j]
      /\ 1 \in DOMAIN answer[c] /\ answer[c][1] \in Units
      /\ \A d \in Clients \ {c} :
            line'[d] = line[d] /\ answer'[d] = answer[d]
    <2> DEFINE s == line[c]
               w == answer[c]
    <2>1. /\ w \in Seq(Units) /\ s \in Seq(Units) /\ w /= <<>>
          /\ line \in [Clients -> Seq(Units)]
          /\ answer \in [Clients -> Seq(Units)]
        BY <1>1 DEF TypeOK, WriteUnit
    <2>2. /\ Tail(w) \in Seq(Units) /\ Len(Tail(w)) = Len(w) - 1
          /\ \A i \in 1 .. Len(w) - 1 : Tail(w)[i] = w[i + 1]
          /\ Head(w) = w[1] /\ w[1] \in Units /\ Len(w) \in Nat \ {0}
        BY <2>1, TailIs
    <2>3. Append(s, w[1]) \in Seq(Units)
        BY <2>1, <2>2, AppendIs
    <2>4. /\ line' = [line EXCEPT ![c] = Append(s, w[1])]
          /\ answer' = [answer EXCEPT ![c] = Tail(w)]
        BY <2>2 DEF WriteUnit
    <2>5. DOMAIN w = 1 .. Len(w) /\ DOMAIN Tail(w) = 1 .. Len(w) - 1
        BY <2>1, <2>2
    <2> HIDE DEF w, s
    <2>6. /\ line' \in [Clients -> Seq(Units)]
          /\ answer' \in [Clients -> Seq(Units)]
          /\ line'[c] = Append(s, w[1]) /\ answer'[c] = Tail(w)
          /\ \A d \in Clients \ {c} :
                line'[d] = line[d] /\ answer'[d] = answer[d]
        BY <2>1, <2>2, <2>3, <2>4
    <2>7. \A i \in DOMAIN Tail(w) : i + 1 \in DOMAIN w /\ Tail(w)[i] = w[i + 1]
        BY <2>2, <2>5
    <2>8. 1 \in DOMAIN w
        BY <2>2, <2>5
    <2>9. QED
        BY <2>1, <2>2, <2>6, <2>7, <2>8 DEF WriteUnit, s, w
<1>4. Table!TypeOK' /\ Rooming' /\ Onward
    BY <1>1, <1>3, SameKeepsTable
<1>5. TypeOK'
    BY <1>1, <1>3, <1>4 DEF TypeOK, server, client, talk, view
<1>6. \A d \in Clients \ {c} : Same(d)
    BY <1>3 DEF Same, server, client, talk, view
<1>7. /\ session'[c] = session[c] /\ room'[c] = room[c] /\ up'[c] = up[c]
      /\ requests'[c] = requests[c] /\ screen'[c] = screen[c]
      /\ pending'[c] = pending[c] /\ starting'[c] = starting[c]
      /\ loops'[c] = loops[c] /\ chats'[c] = chats[c]
      /\ history'[c] = history[c] /\ misread'[c] = misread[c]
    BY <1>3 DEF server, client, talk, view
<1>8. /\ up[c] /\ pending[c] /= "hello" /\ screen[c] /= "EXITING"
      /\ session[c] \in {"lobby", "room"}
      /\ answer[c][1].type \in {"RoomInfo", "LobbyPlayerInfo"}
      /\ misread[c] = "no" /\ Seated(c) => screen[c] /= "ROOM_SELECTION"
    <2>1. up[c]
        BY <1>3, <1>2 DEF Served
    <2>2. pending[c] /= "hello"
        BY <1>3, <1>2 DEF Greeted
    <2>3. screen[c] /= "EXITING"
        BY <1>2, <2>1 DEF Screened
    <2>4. session[c] \in {"lobby", "room"}
        <3>1. session[c] \in {"none", "lobby", "joining", "room", "done"}
            BY <1>1 DEF TypeOK
        <3>2. QED
            BY <1>3, <1>2, <2>1, <3>1 DEF Served, Fitting
    <2>5. answer[c][1].type \in {"RoomInfo", "LobbyPlayerInfo"}
        BY <1>3, <1>2 DEF Served
    <2>6. misread[c] = "no" /\ Seated(c) => screen[c] /= "ROOM_SELECTION"
        BY <1>3, <1>2, <2>1 DEF Placed
    <2>7. QED
        BY <2>1, <2>2, <2>3, <2>4, <2>5, <2>6
<1>9. /\ ~IsChat(answer[c][1]) /\ ~IsFinal(answer[c][1])
         /\ ~IsNotice(answer[c][1]) /\ ~IsList(answer[c][1])
         /\ answer[c][1] /= Joined
    BY <1>8 DEF IsChat, IsFinal, IsNotice, IsList, Joined
<1>10. /\ \A i \in DOMAIN line[c] : i \in DOMAIN line'[c] /\ line'[c][i] = line[c][i]
      /\ \A i \in DOMAIN line'[c] :
            \/ i \in DOMAIN line[c] /\ line'[c][i] = line[c][i]
            \/ line'[c][i] = answer[c][1]
    <2> DEFINE s == line[c]
               u == answer[c][1]
               t == line'[c]
    <2>1. s \in Seq(Units) /\ u \in Units /\ t = Append(s, u)
        BY <1>1, <1>3 DEF TypeOK
    <2> HIDE DEF s, u, t
    <2>2. QED
        BY <2>1, AppendOf DEF s, u, t
<1>11. misread[c] = "no" => \A i \in DOMAIN line'[c] : ~IsFinal(line'[c][i])
    <2> DEFINE s == line[c]
    <2>1. SUFFICES ASSUME misread[c] = "no", NEW i \in DOMAIN s, IsFinal(s[i])
                   PROVE  FALSE
        BY <1>9, <1>10
    <2>2. /\ pending[c] \in Waits
          /\ \A j \in DOMAIN s : j > i => IsChat(s[j])
        BY <1>2, <2>1 DEF Awaited
    <2>3. screen[c] = "ROOM_SELECTION"
        BY <1>2, <1>8, <2>2 DEF Screened
    <2>4. session[c] = "lobby"
        BY <1>8, <2>1, <2>3 DEF Seated
    <2>5. Reaching(s, Len(s) + Len(answer[c])) /\ Filled(s)
        BY <1>3, <1>2, <2>1, <2>3, <2>4 DEF Framed
    <2>6. PICK j \in DOMAIN s :
              IsList(s[j]) /\ j + s[j].count = Len(s) + Len(answer[c])
        BY <2>5 DEF Reaching
    <2>7. s \in Seq(Units)
        BY <1>1 DEF TypeOK
    <2> HIDE DEF s
    <2>8. i \in Int /\ j \in Int /\ i <= Len(s) /\ Len(s) \in Nat
        BY <2>7
    <2>9. CASE i < j
        BY <2>2, <2>6, <2>9 DEF IsChat, IsList
    <2>10. CASE i = j
        BY <2>1, <2>6, <2>10 DEF IsFinal, IsList
    <2>11. CASE j < i
        <3>1. i <= j + s[j].count
            BY <1>3, <2>6, <2>8
        <3>2. IsInfo(s[i])
            BY <2>5, <2>6, <2>11, <3>1 DEF Filled
        <3>3. QED
            BY <2>1, <3>2 DEF IsFinal, IsInfo
    <2>12. QED
        BY <2>8, <2>9, <2>10, <2>11
<1>12. Unconnected(c)' /\ Greeted(c)' /\ Screened(c)'
    BY <1>3, <1>7, <1>2, <1>8 DEF Unconnected, Greeted, Screened
<1>13. Served(c)'
    BY <1>3, <1>7, <1>2, <1>8 DEF Served, Seated, table
<1>14. Fitting(c)'
    BY <1>3, <1>7, <1>2, <1>8 DEF Fitting, Seated
<1>15. Awaited(c)'
    BY <1>7, <1>11 DEF Awaited
<1>16. Owed(c)'
    BY <1>3, <1>7, <1>2, <1>10, <1>11 DEF Owed
<1>17. Placed(c)'
    <2>1. HasJoined(c)' <=> HasJoined(c)
        BY <1>9, <1>10 DEF HasJoined
    <2>2. QED
        BY <1>7, <1>2, <1>8, <2>1 DEF Placed, Seated
<1>18. Framed(c)'
    <2> DEFINE s == line[c]
               t == line'[c]
               u == answer[c][1]
               m == Len(answer[c])
    <2>1. SUFFICES ASSUME misread[c] = "no", screen[c] = "ROOM_SELECTION"
                   PROVE  Framed(c)'
        BY <1>7 DEF Framed
    <2>2. session[c] = "lobby"
        BY <1>8, <2>1 DEF Seated
    <2>3. /\ Led(s) /\ Filled(s) /\ Browsed(s)
          /\ \A i \in DOMAIN answer[c] : IsInfo(answer[c][i])
          /\ Reaching(s, Len(s) + m) /\ Within(s, Len(s) + m)
        BY <1>3, <1>2, <1>8, <2>1, <2>2 DEF Framed
    <2>4. /\ s \in Seq(Units) /\ Len(s) \in Nat /\ u \in Units
          /\ t = Append(s, u) /\ m \in Nat \ {0} /\ Len(answer'[c]) = m - 1
          /\ IsInfo(u) /\ ~IsList(u)
        <3>1. s \in Seq(Units)
            BY <1>1 DEF TypeOK
        <3>2. IsInfo(u)
            BY <1>3, <2>3
        <3>3. QED
            BY <1>3, <1>9, <3>1, <3>2
    <2> HIDE DEF s, t, u, m
    <2>5. Len(s) + m \in Nat /\ Len(s) + m > Len(s)
        BY <2>4
    <2>6. MayCome(s, u)
        BY <2>3, <2>4, <2>5 DEF MayCome
    <2>7. /\ Led(t) /\ Filled(t) /\ Browsed(t)
          /\ Within(t, Len(s) + m) /\ Reaching(t, Len(s) + m)
        BY <2>3, <2>4, <2>5, <2>6, AppendingKeepsFrames
    <2>8. Len(s) + m = Len(t) + Len(answer'[c])
        <3>1. Len(t) = Len(s) + 1
            BY <2>4, AppendOf
        <3>2. QED
            BY <2>4, <3>1
    <2>9. \A i \in DOMAIN answer'[c] : IsInfo(answer'[c][i])
        BY <1>3, <2>3
    <2>10. QED
        BY <1>7, <2>2, <2>7, <2>8, <2>9 DEF Framed, t
<1>19. Started(c)'
    <2>1. SUFFICES ASSUME misread[c] = "no", screen[c] \in {"LOBBY", "IN_GAME"}
                   PROVE  Started(c)'
        BY <1>7 DEF Started
    <2>2. ~Announced(c)
        BY <1>3, <1>2, <2>1 DEF Started
    <2>3. ~Announced(c)'
        BY <1>7, <1>9, <1>10, <2>2 DEF Announced
    <2>4. QED
        BY <1>7, <2>3 DEF Started, Announced
<1>20. Chatted(c)'
    <2>1. answer[c][1] \in Units /\ ~IsChat(answer[c][1])
        BY <1>3, <1>9
    <2>2. QED
        BY <1>1, <1>3, <1>7, <1>2, <2>1, PutChatted
<1>21. QED
    BY <1>1, <1>3, <1>4, <1>5, <1>6, <1>7, <1>2, <1>8, <1>9, <1>10, <1>11,
       <1>12, <1>13, <1>14, <1>15, <1>16, <1>17, <1>18, <1>19, <1>20,
       StepKeeps
       DEF Good

\* The client is greeted.
LEMMA ServeConnectKeeps ==
    ASSUME Inv, NEW c \in Clients, ServeConnect(c)
    PROVE  Inv'
<1>1. TypeOK /\ Table!TypeOK /\ Rooming /\ Good(c)
    BY DEF Inv, TypeOK
<1>2. /\ Unconnected(c) /\ Greeted(c) /\ Screened(c) /\ Served(c)
      /\ Fitting(c) /\ Awaited(c) /\ Owed(c) /\ Placed(c) /\ Framed(c)
      /\ Started(c) /\ Chatted(c) /\ misread[c] /= "other"
    BY <1>1 DEF Good
<1>3. /\ UNCHANGED <<table, room, up, client, talk>>
      /\ requests' \in [Clients -> Seq(Requests)]
      /\ \A i \in DOMAIN requests'[c] :
            \E j \in DOMAIN requests[c] : requests'[c][i] = requests[c][j]
      /\ line' \in [Clients -> Seq(Units)]
      /\ answer' \in [Clients -> Seq(Units)]
      /\ session' \in [Clients -> {"none", "lobby", "joining", "room", "done"}]
      /\ session[c] = "none" /\ session'[c] = "lobby" /\ answer[c] = <<>>
      /\ requests[c] = <<[type |-> "CONNECT"]>> => requests'[c] = <<>>
      /\ line[c] \in Seq(Units)
      /\ up[c] =>
            /\ line'[c] = Append(line[c], [type |-> "CONNECT_OK"])
            /\ answer'[c] = <<>>
      /\ ~up[c] => line'[c] = line[c] /\ answer'[c] = answer[c]
      /\ pending[c] /= "connect"
      /\ up[c] => screen[c] /= "EXITING"
      /\ \A d \in Clients \ {c} :
            /\ requests'[d] = requests[d] /\ line'[d] = line[d]
            /\ answer'[d] = answer[d] /\ session'[d] = session[d]
    <2>1. Reads(c, "CONNECT")
        BY DEF ServeConnect
    <2>2. /\ requests' \in [Clients -> Seq(Requests)]
          /\ \A d \in Clients \ {c} : requests'[d] = requests[d]
          /\ \A i \in DOMAIN requests'[c] :
                \E j \in DOMAIN requests[c] : requests'[c][i] = requests[c][j]
          /\ answer[c] = <<>>
        BY <1>1, <2>1, Serving
    <2>3. requests[c] = <<[type |-> "CONNECT"]>> => requests'[c] = <<>>
        <3>1. Len(requests[c]) = 1 => requests'[c] = <<>>
            BY <1>1, <2>1, Serving
        <3>2. QED
            BY <3>1
    <2> DEFINE w == <<[type |-> "CONNECT_OK"]>>
    <2>4. /\ w \in Seq(Units) /\ w /= <<>> /\ w[1] = [type |-> "CONNECT_OK"]
          /\ Tail(w) = <<>>
        <3>1. [type |-> "CONNECT_OK"] \in Units
            BY DEF Units, Plain
        <3>2. QED
            BY <3>1
    <2>5. Answers(c, w)
        BY DEF ServeConnect
    <2> HIDE DEF w
    <2>6. /\ line' \in [Clients -> Seq(Units)]
          /\ answer' \in [Clients -> Seq(Units)]
          /\ \A d \in Clients \ {c} :
                line'[d] = line[d] /\ answer'[d] = answer[d]
          /\ line[c] \in Seq(Units)
          /\ up[c] => line'[c] = Append(line[c], w[1]) /\ answer'[c] = Tail(w)
          /\ ~up[c] => line'[c] = line[c] /\ answer'[c] = answer[c]
        BY <1>1, <2>4, <2>5, Answering
    <2>7. /\ session' \in [Clients ->
                           {"none", "lobby", "joining", "room", "done"}]
          /\ session[c] = "none" /\ session'[c] = "lobby"
          /\ \A d \in Clients \ {c} : session'[d] = session[d]
        BY <1>1 DEF ServeConnect, TypeOK
    <2>8. pending[c] /= "connect" /\ (up[c] => screen[c] /= "EXITING")
        BY <1>1, <2>1, OnServing
    <2>9. QED
        BY <2>2, <2>3, <2>4, <2>6, <2>7, <2>8 DEF ServeConnect
<1>4. Table!TypeOK' /\ Rooming' /\ Onward
    BY <1>1, <1>3, SameKeepsTable
<1>5. TypeOK'
    BY <1>1, <1>3, <1>4 DEF TypeOK, client, talk, view
<1>6. \A d \in Clients \ {c} : Same(d)
    BY <1>3 DEF Same, client, talk, view
<1>7. /\ room'[c] = room[c] /\ up'[c] = up[c] /\ screen'[c] = screen[c]
      /\ pending'[c] = pending[c] /\ starting'[c] = starting[c]
      /\ loops'[c] = loops[c] /\ chats'[c] = chats[c]
      /\ history'[c] = history[c] /\ misread'[c] = misread[c]
    BY <1>3 DEF client, talk, view
<1>8. Undisturbed(c)
    BY <1>7 DEF Undisturbed
<1>9. ~Seated(c)'
    BY <1>3 DEF Seated
<1>10. Good(c)'
    <2>1. CASE ~up[c]
        BY <1>1, <1>3, <1>8, <1>9, <2>1, DeadKeeps
    <2>2. CASE up[c]
        <3> DEFINE u == [type |-> "CONNECT_OK"]
        <3>1. /\ requests[c] = <<[type |-> "CONNECT"]>> /\ line[c] = <<>>
              /\ pending[c] = "hello"
            BY <1>3, <1>2, <2>2 DEF Fitting
        <3>2. /\ requests'[c] = <<>> /\ answer'[c] = <<>>
              /\ line'[c] = Append(line[c], u) /\ line'[c] = <<u>>
            BY <1>3, <2>2, <3>1
        <3>3. /\ 1 \in DOMAIN line'[c] /\ line'[c][1] = u
              /\ \A i \in DOMAIN line'[c] : i = 1
              /\ \A i : i \notin DOMAIN requests'[c]
              /\ Len(line'[c]) = 1 /\ Len(answer'[c]) = 0
            BY <3>2
        <3>4. /\ IsFinal(u) /\ ~IsList(u) /\ ~IsInfo(u) /\ ~IsChat(u)
              /\ u.type = "CONNECT_OK" /\ u /= Joined /\ u \in Units
            BY DEF IsFinal, IsList, IsInfo, IsChat, Joined, Units, Plain
        <3> HIDE DEF u
        <3>5. screen[c] = "ROOM_SELECTION"
            BY <1>3, <1>2, <2>2, <3>1 DEF Screened, Waits
        <3>6. Unconnected(c)' /\ Greeted(c)' /\ Screened(c)' /\ Served(c)'
            BY <1>3, <1>7, <1>2, <1>9, <2>2, <3>1, <3>2, <3>3, <3>4, <3>5
               DEF Unconnected, Greeted, Screened, Served
        <3>7. Fitting(c)'
            BY <1>3, <1>9, <3>3 DEF Fitting
        <3>8. Awaited(c)'
            BY <1>7, <3>1, <3>3, <3>4 DEF Awaited, Waits, Gets
        <3>9. Owed(c)'
            BY <3>2, <3>3, <3>4 DEF Owed
        <3>10. Placed(c)'
            <4>1. ~HasJoined(c)'
                BY <3>3, <3>4 DEF HasJoined
            <4>2. screen'[c] \notin Inside
                BY <1>7, <3>5 DEF Inside
            <4>3. QED
                BY <1>9, <4>1, <4>2 DEF Placed
        <3>11. Framed(c)'
            <4>1. Led(line'[c]) /\ Filled(line'[c]) /\ Browsed(line'[c])
                BY <3>3, <3>4 DEF Led, Filled, Browsed
            <4>2. \A k : Within(line'[c], k)
                BY <3>3, <3>4 DEF Within
            <4>3. QED
                BY <3>2, <4>1, <4>2 DEF Framed
        <3>12. Started(c)'
            BY <1>7, <3>5 DEF Started
        <3>13. Chatted(c)'
            BY <1>1, <1>7, <1>2, <3>2, <3>4, PutChatted
        <3>14. QED
            BY <1>7, <1>2, <3>6, <3>7, <3>8, <3>9, <3>10, <3>11, <3>12, <3>13
               DEF Good
    <2>3. QED
        BY <2>1, <2>2
<1>11. QED
    BY <1>1, <1>3, <1>4, <1>5, <1>6, <1>7, <1>2, <1>8, <1>9, <1>10, StepKeeps
       DEF Good

\* The list of the rooms is begun.
LEMMA ServeListRoomsKeeps ==
    ASSUME Inv, NEW c \in Clients, ServeListRooms(c)
    PROVE  Inv'
<1>1. TypeOK /\ Table!TypeOK /\ Rooming /\ Good(c)
    BY DEF Inv, TypeOK
<1>2. /\ Unconnected(c) /\ Greeted(c) /\ Screened(c) /\ Served(c)
      /\ Fitting(c) /\ Awaited(c) /\ Owed(c) /\ Placed(c) /\ Framed(c)
      /\ Started(c) /\ Chatted(c) /\ misread[c] /= "other"
    BY <1>1 DEF Good
<1>3. /\ UNCHANGED <<table, server, up, client, talk>>
      /\ requests' \in [Clients -> Seq(Requests)]
      /\ \A i \in DOMAIN requests'[c] :
            \E j \in DOMAIN requests[c] : requests'[c][i] = requests[c][j]
      /\ line' \in [Clients -> Seq(Units)]
      /\ answer' \in [Clients -> Seq(Units)]
      /\ session[c] = "lobby" /\ Reads(c, "LIST_ROOMS")
      /\ up[c] => line'[c] = Append(line[c], RoomList[1])
      /\ up[c] => /\ Len(answer'[c]) = RoomList[1].count
                  /\ \A i \in DOMAIN answer'[c] : IsInfo(answer'[c][i])
      /\ ~up[c] => line'[c] = line[c] /\ answer'[c] = answer[c]
      /\ RoomList[1] \in Units /\ IsList(RoomList[1])
      /\ \A d \in Clients \ {c} :
            /\ requests'[d] = requests[d] /\ line'[d] = line[d]
            /\ answer'[d] = answer[d]
    <2>1. Reads(c, "LIST_ROOMS")
        BY DEF ServeListRooms
    <2>2. /\ requests' \in [Clients -> Seq(Requests)]
          /\ \A d \in Clients \ {c} : requests'[d] = requests[d]
          /\ \A i \in DOMAIN requests'[c] :
                \E j \in DOMAIN requests[c] : requests'[c][i] = requests[c][j]
          /\ answer[c] = <<>>
        BY <1>1, <2>1, Serving
    <2> DEFINE w == RoomList
    <2>3. /\ w \in Seq(Units) /\ Len(w) >= 1 /\ w /= <<>>
          /\ IsList(w[1]) /\ w[1].count = Len(w) - 1
          /\ \A i \in 2 .. Len(w) : IsInfo(w[i])
        BY <1>1, RoomListIs
    <2>4. Answers(c, w)
        BY DEF ServeListRooms
    <2> HIDE DEF w
    <2>5. /\ line' \in [Clients -> Seq(Units)]
          /\ answer' \in [Clients -> Seq(Units)]
          /\ \A d \in Clients \ {c} :
                line'[d] = line[d] /\ answer'[d] = answer[d]
          /\ w[1] \in Units
          /\ up[c] => line'[c] = Append(line[c], w[1]) /\ answer'[c] = Tail(w)
          /\ ~up[c] => line'[c] = line[c] /\ answer'[c] = answer[c]
        BY <1>1, <2>3, <2>4, Answering
    <2>6. /\ Len(Tail(w)) = w[1].count
          /\ \A i \in DOMAIN Tail(w) : IsInfo(Tail(w)[i])
        <3>1. /\ Tail(w) \in Seq(Units) /\ Len(Tail(w)) = Len(w) - 1
              /\ \A i \in 1 .. Len(w) - 1 : Tail(w)[i] = w[i + 1]
              /\ Len(w) \in Nat
            BY <2>3, TailIs
        <3>2. \A i \in DOMAIN Tail(w) : i + 1 \in 2 .. Len(w) /\ Tail(w)[i] = w[i + 1]
            <4> DEFINE l == Len(w)
            <4>1. l \in Nat /\ DOMAIN Tail(w) = 1 .. l - 1
                BY <3>1
            <4> HIDE DEF l
            <4>2. \A i \in 1 .. l - 1 : i + 1 \in 2 .. l
                BY <4>1
            <4>3. QED
                BY <3>1, <4>1, <4>2 DEF l
        <3>3. QED
            BY <2>3, <3>1, <3>2
    <2>7. QED
        BY <2>1, <2>2, <2>3, <2>5, <2>6 DEF ServeListRooms, w
<1>4. Table!TypeOK' /\ Rooming' /\ Onward
    BY <1>1, <1>3, SameKeepsTable
<1>5. TypeOK'
    BY <1>1, <1>3, <1>4 DEF TypeOK, server, client, talk, view
<1>6. \A d \in Clients \ {c} : Same(d)
    BY <1>3 DEF Same, server, client, talk, view
<1>7. /\ session'[c] = session[c] /\ room'[c] = room[c] /\ up'[c] = up[c]
      /\ screen'[c] = screen[c] /\ pending'[c] = pending[c]
      /\ starting'[c] = starting[c] /\ loops'[c] = loops[c]
      /\ chats'[c] = chats[c] /\ history'[c] = history[c]
      /\ misread'[c] = misread[c]
    BY <1>3 DEF server, client, talk, view
<1>8. Undisturbed(c)
    BY <1>7 DEF Undisturbed
<1>9. pending[c] /= "connect" /\ ~Seated(c)' /\ RoomList[1] /= Joined
    <2>1. pending[c] /= "connect"
        BY <1>1, <1>3, OnServing
    <2>2. QED
        BY <1>3, <1>7, <2>1 DEF Seated, IsList, Joined
<1>10. Good(c)'
    <2>1. CASE ~up[c]
        BY <1>1, <1>3, <1>8, <1>9, <2>1, DeadKeeps
    <2>2. CASE up[c]
        <3>1. answer'[c] \in Seq(Units)
            BY <1>3
        <3>2. session'[c] = "lobby"
            BY <1>3, <1>7
        <3> DEFINE u == RoomList[1]
        <3>3. /\ u \in Units /\ IsList(u) /\ u.count = Len(answer'[c])
              /\ \A i \in DOMAIN answer'[c] : IsInfo(answer'[c][i])
              /\ line'[c] = Append(line[c], u) /\ u /= Joined
            BY <1>3, <1>9, <2>2
        <3> HIDE DEF u
        <3>4. QED
            BY <1>1, <1>3, <1>8, <2>2, <3>1, <3>2, <3>3, LobbyServes
    <2>3. QED
        BY <2>1, <2>2
<1>11. QED
    BY <1>1, <1>3, <1>4, <1>5, <1>6, <1>7, <1>2, <1>8, <1>9, <1>10, StepKeeps
       DEF Good

\* A room is created.
LEMMA ServeCreateRoomKeeps ==
    ASSUME Inv, NEW c \in Clients, ServeCreateRoom(c)
    PROVE  Inv'
<1>1. TypeOK /\ Table!TypeOK /\ Rooming /\ Good(c)
    BY DEF Inv, TypeOK
<1>2. /\ Unconnected(c) /\ Greeted(c) /\ Screened(c) /\ Served(c)
      /\ Fitting(c) /\ Awaited(c) /\ Owed(c) /\ Placed(c) /\ Framed(c)
      /\ Started(c) /\ Chatted(c) /\ misread[c] /= "other"
    BY <1>1 DEF Good
<1>3. /\ UNCHANGED <<server, up, client, talk>>
      /\ requests' \in [Clients -> Seq(Requests)]
      /\ \A i \in DOMAIN requests'[c] :
            \E j \in DOMAIN requests[c] : requests'[c][i] = requests[c][j]
      /\ line' \in [Clients -> Seq(Units)]
      /\ answer' \in [Clients -> Seq(Units)]
      /\ session[c] = "lobby" /\ Reads(c, "CREATE_ROOM") /\ Table!OnCreateRoom
      /\ up[c] =>
            /\ answer'[c] = <<>>
            /\ \E u \in Units : /\ u.type = "CREATE_ROOM_RESPONSE"
                               /\ line'[c] = Append(line[c], u)
      /\ ~up[c] => line'[c] = line[c] /\ answer'[c] = answer[c]
      /\ \A d \in Clients \ {c} :
            /\ requests'[d] = requests[d] /\ line'[d] = line[d]
            /\ answer'[d] = answer[d]
    <2>1. Reads(c, "CREATE_ROOM")
        BY DEF ServeCreateRoom
    <2>2. /\ requests' \in [Clients -> Seq(Requests)]
          /\ \A d \in Clients \ {c} : requests'[d] = requests[d]
          /\ \A i \in DOMAIN requests'[c] :
                \E j \in DOMAIN requests[c] : requests'[c][i] = requests[c][j]
          /\ answer[c] = <<>>
        BY <1>1, <2>1, Serving
    <2> DEFINE u == [type |-> "CREATE_ROOM_RESPONSE", roomId |-> nextRoom]
               w == <<u>>
    <2>3. nextRoom \in RoomIds
        BY <1>1, RoomTypes
           DEF ServeCreateRoom, Table!OnCreateRoom, Table!TypeOK
    <2>4. u \in Units /\ u.type = "CREATE_ROOM_RESPONSE"
        BY <2>3 DEF Units
    <2>5. Answers(c, w)
        BY DEF ServeCreateRoom
    <2> HIDE DEF u
    <2>6. w \in Seq(Units) /\ w /= <<>> /\ w[1] = u /\ Tail(w) = <<>>
        BY <2>4
    <2> HIDE DEF w
    <2>7. /\ line' \in [Clients -> Seq(Units)]
          /\ answer' \in [Clients -> Seq(Units)]
          /\ \A d \in Clients \ {c} :
                line'[d] = line[d] /\ answer'[d] = answer[d]
          /\ up[c] => line'[c] = Append(line[c], w[1]) /\ answer'[c] = Tail(w)
          /\ ~up[c] => line'[c] = line[c] /\ answer'[c] = answer[c]
        BY <1>1, <2>5, <2>6, Answering
    <2>8. QED
        BY <2>1, <2>2, <2>4, <2>6, <2>7 DEF ServeCreateRoom
<1>4. Table!TypeOK' /\ Rooming' /\ Onward
    BY <1>1, <1>3, CreateKeepsTable
<1>5. TypeOK'
    BY <1>1, <1>3, <1>4 DEF TypeOK, server, client, talk, view
<1>6. \A d \in Clients \ {c} : Same(d)
    BY <1>3 DEF Same, server, client, talk, view
<1>7. /\ session'[c] = session[c] /\ room'[c] = room[c] /\ up'[c] = up[c]
      /\ screen'[c] = screen[c] /\ pending'[c] = pending[c]
      /\ starting'[c] = starting[c] /\ loops'[c] = loops[c]
      /\ chats'[c] = chats[c] /\ history'[c] = history[c]
      /\ misread'[c] = misread[c]
    BY <1>3 DEF server, client, talk, view
<1>8. Undisturbed(c)
    BY <1>7 DEF Undisturbed
<1>9. pending[c] /= "connect" /\ ~Seated(c)'
    <2>1. pending[c] /= "connect"
        BY <1>1, <1>3, OnServing
    <2>2. QED
        BY <1>3, <1>7, <2>1 DEF Seated
<1>10. Good(c)'
    <2>1. CASE ~up[c]
        BY <1>1, <1>3, <1>8, <1>9, <2>1, DeadKeeps
    <2>2. CASE up[c]
        <3>1. PICK u \in Units : /\ u.type = "CREATE_ROOM_RESPONSE"
                                 /\ line'[c] = Append(line[c], u)
            BY <1>3, <2>2
        <3>2. /\ answer'[c] = <<>> /\ answer'[c] \in Seq(Units) /\ u /= Joined
              /\ session'[c] = "lobby"
            BY <1>3, <1>7, <2>2, <3>1 DEF Joined
        <3>3. QED
            BY <1>1, <1>3, <1>8, <2>2, <3>1, <3>2, LobbyServes
    <2>3. QED
        BY <2>1, <2>2
<1>11. QED
    BY <1>1, <1>3, <1>4, <1>5, <1>6, <1>7, <1>2, <1>8, <1>9, <1>10, StepKeeps
       DEF Good

\* A room is joined, or not.
LEMMA ServeJoinRoomKeeps ==
    ASSUME Inv, NEW c \in Clients, ServeJoinRoom(c)
    PROVE  Inv'
<1>1. TypeOK /\ Table!TypeOK /\ Rooming /\ Good(c)
    BY DEF Inv, TypeOK
<1>2. /\ Unconnected(c) /\ Greeted(c) /\ Screened(c) /\ Served(c)
      /\ Fitting(c) /\ Awaited(c) /\ Owed(c) /\ Placed(c) /\ Framed(c)
      /\ Started(c) /\ Chatted(c) /\ misread[c] /= "other"
    BY <1>1 DEF Good
<1>3. /\ UNCHANGED <<up, client, talk>>
      /\ requests' \in [Clients -> Seq(Requests)]
      /\ \A i \in DOMAIN requests'[c] :
            \E j \in DOMAIN requests[c] : requests'[c][i] = requests[c][j]
      /\ line' \in [Clients -> Seq(Units)]
      /\ answer' \in [Clients -> Seq(Units)]
      /\ session' \in [Clients -> {"none", "lobby", "joining", "room", "done"}]
      /\ room' \in [Clients -> RoomIds \cup {MaxRooms}]
      /\ session[c] = "lobby" /\ Reads(c, "JOIN_ROOM")
      /\ Table!TypeOK' /\ Rooming' /\ Onward
      /\ \E u \in Units :
            /\ u.type = "JOIN_ROOM_RESPONSE"
            /\ up[c] => answer'[c] = <<>> /\ line'[c] = Append(line[c], u)
            /\ session'[c] = IF u = Joined THEN "joining" ELSE "lobby"
            /\ u = Joined => room'[c] \in RoomIds /\ room'[c] < nextRoom'
      /\ ~up[c] => line'[c] = line[c] /\ answer'[c] = answer[c]
      /\ \A d \in Clients \ {c} :
            /\ requests'[d] = requests[d] /\ line'[d] = line[d]
            /\ answer'[d] = answer[d] /\ session'[d] = session[d]
            /\ room'[d] = room[d]
    <2>1. Reads(c, "JOIN_ROOM")
        BY DEF ServeJoinRoom
    <2>2. /\ requests' \in [Clients -> Seq(Requests)]
          /\ \A d \in Clients \ {c} : requests'[d] = requests[d]
          /\ \A i \in DOMAIN requests'[c] :
                \E j \in DOMAIN requests[c] : requests'[c][i] = requests[c][j]
          /\ answer[c] = <<>>
        BY <1>1, <2>1, Serving
    <2> DEFINE ok == [type |-> "JOIN_ROOM_RESPONSE", status |-> 1]
               no == [type |-> "JOIN_ROOM_RESPONSE", status |-> 0]
               r == Request(c).roomId
    <2>3. /\ ok \in Units /\ ok.type = "JOIN_ROOM_RESPONSE" /\ ok = Joined
          /\ no \in Units /\ no.type = "JOIN_ROOM_RESPONSE" /\ no /= Joined
        BY DEF Units, Joined
    <2>4. /\ session[c] = "lobby"
          /\ session \in [Clients ->
                          {"none", "lobby", "joining", "room", "done"}]
          /\ room \in [Clients -> RoomIds \cup {MaxRooms}]
        BY <1>1 DEF ServeJoinRoom, TypeOK
    <2>5. ASSUME NEW u \in {ok, no}, Answers(c, <<u>>)
          PROVE  /\ line' \in [Clients -> Seq(Units)]
                 /\ answer' \in [Clients -> Seq(Units)]
                 /\ \A d \in Clients \ {c} :
                       line'[d] = line[d] /\ answer'[d] = answer[d]
                 /\ up[c] => answer'[c] = <<>> /\ line'[c] = Append(line[c], u)
                 /\ ~up[c] => line'[c] = line[c] /\ answer'[c] = answer[c]
        <3>1. u \in Units
            BY <2>3
        <3> DEFINE w == <<u>>
        <3>2. w \in Seq(Units) /\ w /= <<>> /\ w[1] = u /\ Tail(w) = <<>>
            BY <3>1
        <3>3. Answers(c, w)
            BY <2>5
        <3> HIDE DEF w
        <3>4. /\ line' \in [Clients -> Seq(Units)]
              /\ answer' \in [Clients -> Seq(Units)]
              /\ \A d \in Clients \ {c} :
                    line'[d] = line[d] /\ answer'[d] = answer[d]
              /\ up[c] => line'[c] = Append(line[c], w[1]) /\ answer'[c] = Tail(w)
              /\ ~up[c] => line'[c] = line[c] /\ answer'[c] = answer[c]
            BY <1>1, <3>2, <3>3, Answering
        <3>5. QED
            BY <3>2, <3>4
    <2> HIDE DEF ok, no, r
    <2>6. CASE /\ Table!OnJoinRoom(r, c) /\ Answers(c, <<ok>>)
               /\ session' = [session EXCEPT ![c] = "joining"]
               /\ room' = [room EXCEPT ![c] = r]
        <3>1. /\ Table!TypeOK' /\ Rooming' /\ Onward
              /\ r \in RoomIds /\ r < nextRoom
            BY <1>1, <2>6, JoinKeepsTable
        <3>2. nextRoom' = nextRoom
            BY <2>6 DEF Table!OnJoinRoom
        <3>3. /\ session' \in [Clients ->
                               {"none", "lobby", "joining", "room", "done"}]
              /\ room' \in [Clients -> RoomIds \cup {MaxRooms}]
              /\ session'[c] = "joining" /\ room'[c] = r
              /\ \A d \in Clients \ {c} :
                    session'[d] = session[d] /\ room'[d] = room[d]
            BY <2>4, <2>6, <3>1
        <3>4. /\ line' \in [Clients -> Seq(Units)]
              /\ answer' \in [Clients -> Seq(Units)]
              /\ \A d \in Clients \ {c} :
                    line'[d] = line[d] /\ answer'[d] = answer[d]
              /\ up[c] => answer'[c] = <<>> /\ line'[c] = Append(line[c], ok)
              /\ ~up[c] => line'[c] = line[c] /\ answer'[c] = answer[c]
            BY <2>5, <2>6
        <3>5. QED
            BY <2>1, <2>2, <2>3, <2>4, <3>1, <3>2, <3>3, <3>4 DEF ServeJoinRoom
    <2>7. CASE Answers(c, <<no>>) /\ UNCHANGED <<table, server>>
        <3>1. Table!TypeOK' /\ Rooming' /\ Onward
            BY <1>1, <2>7, SameKeepsTable
        <3>2. session' = session /\ room' = room
            BY <2>7 DEF server
        <3>3. /\ line' \in [Clients -> Seq(Units)]
              /\ answer' \in [Clients -> Seq(Units)]
              /\ \A d \in Clients \ {c} :
                    line'[d] = line[d] /\ answer'[d] = answer[d]
              /\ up[c] => answer'[c] = <<>> /\ line'[c] = Append(line[c], no)
              /\ ~up[c] => line'[c] = line[c] /\ answer'[c] = answer[c]
            BY <2>5, <2>7
        <3>4. QED
            BY <2>1, <2>2, <2>3, <2>4, <3>1, <3>2, <3>3 DEF ServeJoinRoom
    <2>8. QED
        BY <2>6, <2>7 DEF ServeJoinRoom, ok, no, r
<1>4. Table!TypeOK' /\ Rooming' /\ Onward
    BY <1>3
<1>5. TypeOK'
    BY <1>1, <1>3, <1>4 DEF TypeOK, client, talk, view
<1>6. \A d \in Clients \ {c} : Same(d)
    BY <1>3 DEF Same, client, talk, view
<1>7. /\ up'[c] = up[c] /\ screen'[c] = screen[c] /\ pending'[c] = pending[c]
      /\ starting'[c] = starting[c] /\ loops'[c] = loops[c]
      /\ chats'[c] = chats[c] /\ history'[c] = history[c]
      /\ misread'[c] = misread[c]
    BY <1>3 DEF client, talk, view
<1>8. Undisturbed(c)
    BY <1>7 DEF Undisturbed
<1>9. pending[c] /= "connect" /\ pending[c] /= "hello"
    BY <1>1, <1>3, OnServing
<1>10. Good(c)'
    <2>1. PICK u \in Units :
              /\ u.type = "JOIN_ROOM_RESPONSE"
              /\ up[c] => answer'[c] = <<>> /\ line'[c] = Append(line[c], u)
              /\ session'[c] = IF u = Joined THEN "joining" ELSE "lobby"
              /\ u = Joined => room'[c] \in RoomIds /\ room'[c] < nextRoom'
        BY <1>3
    <2>2. CASE ~up[c]
        <3>1. Seated(c)' => room'[c] \in RoomIds /\ room'[c] < nextRoom'
            BY <2>1 DEF Seated
        <3>2. QED
            BY <1>1, <1>3, <1>8, <1>9, <2>2, <3>1, DeadKeeps
    <2>3. CASE up[c]
        <3>1. answer'[c] \in Seq(Units)
            BY <1>3
        <3>2. QED
            BY <1>1, <1>3, <1>8, <2>1, <2>3, <3>1, LobbyServes
    <2>4. QED
        BY <2>2, <2>3
<1>11. QED
    BY <1>1, <1>3, <1>4, <1>5, <1>6, <1>7, <1>2, <1>8, <1>9, <1>10, StepKeeps
       DEF Good

\* The client is entered into the map of the rooms.
LEMMA EnterRoomKeeps ==
    ASSUME Inv, NEW c \in Clients, EnterRoom(c)
    PROVE  Inv'
<1>1. TypeOK /\ Table!TypeOK /\ Rooming /\ Good(c)
    BY DEF Inv, TypeOK
<1>2. /\ Unconnected(c) /\ Greeted(c) /\ Screened(c) /\ Served(c)
      /\ Fitting(c) /\ Awaited(c) /\ Owed(c) /\ Placed(c) /\ Framed(c)
      /\ Started(c) /\ Chatted(c) /\ misread[c] /= "other"
    BY <1>1 DEF Good
<1>3. /\ UNCHANGED <<table, room, up, stream, client, talk>>
      /\ session' \in [Clients -> {"none", "lobby", "joining", "room", "done"}]
      /\ session[c] = "joining" /\ session'[c] = "room"
      /\ \A d \in Clients \ {c} :
            session'[d] = session[d]
    BY <1>1 DEF EnterRoom, TypeOK
<1>4. Table!TypeOK' /\ Rooming' /\ Onward
    BY <1>1, <1>3, SameKeepsTable
<1>5. TypeOK'
    BY <1>1, <1>3, <1>4 DEF TypeOK, stream, client, talk, view
<1>6. \A d \in Clients \ {c} : Same(d)
    BY <1>3 DEF Same, stream, client, talk, view
<1>7. /\ room'[c] = room[c] /\ up'[c] = up[c] /\ requests'[c] = requests[c]
      /\ answer'[c] = answer[c] /\ line'[c] = line[c]
      /\ screen'[c] = screen[c] /\ pending'[c] = pending[c]
      /\ starting'[c] = starting[c] /\ loops'[c] = loops[c]
      /\ chats'[c] = chats[c] /\ history'[c] = history[c]
      /\ misread'[c] = misread[c]
    BY <1>3 DEF stream, client, talk, view
<1>8. Seated(c) /\ Seated(c)'
    BY <1>3 DEF Seated
<1>9. Unconnected(c)' /\ Greeted(c)' /\ Screened(c)'
    BY <1>3, <1>7, <1>2, <1>8 DEF Unconnected, Greeted, Screened
<1>10. Served(c)'
    BY <1>3, <1>7, <1>2, <1>8 DEF Served, table
<1>11. Fitting(c)' /\ Awaited(c)' /\ Owed(c)'
    BY <1>3, <1>7, <1>2, <1>8 DEF Fitting, Awaited, Owed, Seated
<1>12. Placed(c)'
    BY <1>3, <1>7, <1>2, <1>8 DEF Placed, HasJoined
<1>13. Framed(c)'
    BY <1>3, <1>7, <1>2 DEF Framed
<1>14. Started(c)'
    BY <1>3, <1>7, <1>2 DEF Started, Announced, table
<1>15. Chatted(c)'
    BY <1>3, <1>7, <1>2 DEF Chatted, Number
<1>16. QED
    BY <1>1, <1>3, <1>4, <1>5, <1>6, <1>7, <1>2, <1>8, <1>9, <1>10, <1>11,
       <1>12, <1>13, <1>14, <1>15, StepKeeps
       DEF Good

\* The host starts the game, or another asks in vain.
LEMMA ServeStartGameKeeps ==
    ASSUME Inv, NEW c \in Clients, ServeStartGame(c)
    PROVE  Inv'
<1>1. TypeOK /\ Table!TypeOK /\ Rooming /\ Good(c)
    BY DEF Inv, TypeOK
<1>2. /\ Unconnected(c) /\ Greeted(c) /\ Screened(c) /\ Served(c)
      /\ Fitting(c) /\ Awaited(c) /\ Owed(c) /\ Placed(c) /\ Framed(c)
      /\ Started(c) /\ Chatted(c) /\ misread[c] /= "other"
    BY <1>1 DEF Good
<1>3. /\ UNCHANGED <<server, up, answer, line, client, talk>>
      /\ requests' \in [Clients -> Seq(Requests)]
      /\ \A i \in DOMAIN requests'[c] :
            \E j \in DOMAIN requests[c] : requests'[c][i] = requests[c][j]
      /\ session[c] = "room" /\ Reads(c, "START_GAME_REQUEST")
      /\ room[c] \in RoomIds /\ Table!OnStartGame(room[c], c)
      /\ \A d \in Clients \ {c} :
            requests'[d] = requests[d]
    <2>1. Reads(c, "START_GAME_REQUEST")
        BY DEF ServeStartGame
    <2>2. /\ requests' \in [Clients -> Seq(Requests)]
          /\ \A d \in Clients \ {c} : requests'[d] = requests[d]
          /\ \A i \in DOMAIN requests'[c] :
                \E j \in DOMAIN requests[c] : requests'[c][i] = requests[c][j]
          /\ answer[c] = <<>>
        BY <1>1, <2>1, Serving
    <2>3. session[c] = "room" /\ room[c] \in RoomIds
        BY <1>2 DEF ServeStartGame, Served, Seated
    <2>4. QED
        BY <2>1, <2>2, <2>3 DEF ServeStartGame
<1>4. Table!TypeOK' /\ Rooming' /\ Onward
    BY <1>1, <1>3, StartKeepsTable
<1>5. TypeOK'
    BY <1>1, <1>3, <1>4 DEF TypeOK, server, client, talk, view
<1>6. \A d \in Clients \ {c} : Same(d)
    BY <1>3 DEF Same, server, client, talk, view
<1>7. /\ session'[c] = session[c] /\ room'[c] = room[c] /\ up'[c] = up[c]
      /\ answer'[c] = answer[c] /\ line'[c] = line[c]
      /\ screen'[c] = screen[c] /\ pending'[c] = pending[c]
      /\ starting'[c] = starting[c] /\ loops'[c] = loops[c]
      /\ chats'[c] = chats[c] /\ history'[c] = history[c]
      /\ misread'[c] = misread[c]
    BY <1>3 DEF server, client, talk, view
<1>8. Undisturbed(c)
    BY <1>7 DEF Undisturbed
<1>9. /\ pending[c] /= "connect" /\ pending[c] /= "hello"
         /\ room'[c] \in RoomIds /\ room'[c] < nextRoom'
    <2>1. pending[c] /= "connect" /\ pending[c] /= "hello"
        BY <1>1, <1>3, OnServing
    <2>2. room'[c] \in RoomIds /\ room'[c] < nextRoom'
        BY <1>1, <1>3, <1>4, <1>7, <1>2, RoomStays DEF Seated
    <2>3. QED
        BY <2>1, <2>2
<1>10. Good(c)'
    <2>1. CASE ~up[c]
        BY <1>1, <1>3, <1>7, <1>8, <1>9, <2>1, DeadKeeps
    <2>2. CASE up[c]
        <3>1. "START_GAME_REQUEST" \in RoomKinds
            BY DEF RoomKinds
        <3>2. QED
            BY <1>1, <1>3, <1>4, <1>7, <1>8, <2>2, <3>1, RoomHears
    <2>3. QED
        BY <2>1, <2>2
<1>11. QED
    BY <1>1, <1>3, <1>4, <1>5, <1>6, <1>7, <1>2, <1>8, <1>9, <1>10, StepKeeps
       DEF Good

\* The state of the lobby is asked for.
LEMMA ServeLobbyStateKeeps ==
    ASSUME Inv, NEW c \in Clients, ServeLobbyState(c)
    PROVE  Inv'
<1>1. TypeOK /\ Table!TypeOK /\ Rooming /\ Good(c)
    BY DEF Inv, TypeOK
<1>2. /\ Unconnected(c) /\ Greeted(c) /\ Screened(c) /\ Served(c)
      /\ Fitting(c) /\ Awaited(c) /\ Owed(c) /\ Placed(c) /\ Framed(c)
      /\ Started(c) /\ Chatted(c) /\ misread[c] /= "other"
    BY <1>1 DEF Good
<1>3. /\ UNCHANGED <<table, server, up, client, talk>>
      /\ requests' \in [Clients -> Seq(Requests)]
      /\ \A i \in DOMAIN requests'[c] :
            \E j \in DOMAIN requests[c] : requests'[c][i] = requests[c][j]
      /\ line' \in [Clients -> Seq(Units)]
      /\ answer' \in [Clients -> Seq(Units)]
      /\ session[c] = "room" /\ Reads(c, "GET_LOBBY_STATE")
      /\ \E u \in Units :
            /\ up[c] => line'[c] = Append(line[c], u)
            /\ u.type \in {"GAME_STARTING_NOTIFICATION", "LOBBY_STATE_RESPONSE"}
            /\ up[c] => \A i \in DOMAIN answer'[c] :
                           answer'[c][i].type = "LobbyPlayerInfo"
            /\ up[c] /\ (status[room[c]] /= "LOBBY" \/ IsNotice(u)) =>
                  /\ Harmless(u) /\ answer'[c] = <<>>
                  /\ status[room[c]] /= "LOBBY"
      /\ ~up[c] => line'[c] = line[c] /\ answer'[c] = answer[c]
      /\ \A d \in Clients \ {c} :
            /\ requests'[d] = requests[d] /\ line'[d] = line[d]
            /\ answer'[d] = answer[d]
    <2>1. Reads(c, "GET_LOBBY_STATE")
        BY DEF ServeLobbyState
    <2>2. /\ requests' \in [Clients -> Seq(Requests)]
          /\ \A d \in Clients \ {c} : requests'[d] = requests[d]
          /\ \A i \in DOMAIN requests'[c] :
                \E j \in DOMAIN requests[c] : requests'[c][i] = requests[c][j]
          /\ answer[c] = <<>>
        BY <1>1, <2>1, Serving
    <2>3. session[c] = "room" /\ room[c] \in RoomIds
        BY <1>2 DEF ServeLobbyState, Served, Seated
    <2> DEFINE notice == [type |-> "GAME_STARTING_NOTIFICATION"]
               w == IF status[room[c]] = "PLAYING" THEN <<notice>>
                                                   ELSE LobbyState(room[c])
    <2>4. /\ notice \in Units /\ Harmless(notice)
          /\ notice.type = "GAME_STARTING_NOTIFICATION"
        BY DEF Units, Plain, Harmless
    <2>5. status[room[c]] \in {"NONE", "LOBBY", "PLAYING"}
        BY <1>1, <2>3 DEF Table!TypeOK, RoomIds
    <2> HIDE DEF notice
    <2>6. /\ w \in Seq(Units) /\ Len(w) >= 1 /\ w /= <<>>
          /\ w[1].type \in {"GAME_STARTING_NOTIFICATION", "LOBBY_STATE_RESPONSE"}
          /\ \A i \in 2 .. Len(w) : w[i].type = "LobbyPlayerInfo"
          /\ status[room[c]] /= "LOBBY" \/ IsNotice(w[1]) =>
                /\ Len(w) = 1 /\ Harmless(w[1])
                /\ status[room[c]] /= "LOBBY"
        <3>1. CASE status[room[c]] = "PLAYING"
            <4>1. w = <<notice>>
                BY <3>1
            <4> HIDE DEF w
            <4>2. w \in Seq(Units) /\ Len(w) = 1 /\ w /= <<>> /\ w[1] = notice
                BY <2>4, <4>1
            <4>3. QED
                BY <2>4, <3>1, <4>2
        <3>2. CASE status[room[c]] /= "PLAYING"
            <4>1. w = LobbyState(room[c])
                BY <3>2
            <4> HIDE DEF w
            <4>2. /\ w \in Seq(Units) /\ Len(w) >= 1
                  /\ w[1].type = "LOBBY_STATE_RESPONSE"
                  /\ \A i \in 2 .. Len(w) : w[i].type = "LobbyPlayerInfo"
                  /\ status[room[c]] = "NONE" => Len(w) = 1 /\ Harmless(w[1])
                BY <1>1, <2>3, <4>1, LobbyStateIs
            <4>3. w /= <<>> /\ ~IsNotice(w[1])
                BY <4>2 DEF IsNotice
            <4>4. QED
                BY <2>5, <3>2, <4>2, <4>3
        <3>3. QED
            BY <3>1, <3>2
    <2>7. Answers(c, w)
        BY <2>4 DEF ServeLobbyState, notice
    <2> HIDE DEF w
    <2>8. /\ line' \in [Clients -> Seq(Units)]
          /\ answer' \in [Clients -> Seq(Units)]
          /\ \A d \in Clients \ {c} :
                line'[d] = line[d] /\ answer'[d] = answer[d]
          /\ w[1] \in Units
          /\ up[c] => line'[c] = Append(line[c], w[1]) /\ answer'[c] = Tail(w)
          /\ ~up[c] => line'[c] = line[c] /\ answer'[c] = answer[c]
        BY <1>1, <2>6, <2>7, Answering
    <2>9. /\ \A i \in DOMAIN Tail(w) : Tail(w)[i].type = "LobbyPlayerInfo"
          /\ Len(w) = 1 => Tail(w) = <<>>
        <3>1. /\ Tail(w) \in Seq(Units) /\ Len(Tail(w)) = Len(w) - 1
              /\ \A i \in 1 .. Len(w) - 1 : Tail(w)[i] = w[i + 1]
              /\ Len(w) \in Nat
            BY <2>6, TailIs
        <3>2. \A i \in DOMAIN Tail(w) :
                  i + 1 \in 2 .. Len(w) /\ Tail(w)[i] = w[i + 1]
            <4> DEFINE l == Len(w)
            <4>1. l \in Nat /\ DOMAIN Tail(w) = 1 .. l - 1
                BY <3>1
            <4> HIDE DEF l
            <4>2. \A i \in 1 .. l - 1 : i + 1 \in 2 .. l
                BY <4>1
            <4>3. QED
                BY <3>1, <4>1, <4>2 DEF l
        <3>3. Len(w) = 1 => Tail(w) = <<>>
            <4> DEFINE q == Tail(w)
            <4>1. q \in Seq(Units) /\ Len(q) = Len(w) - 1
                BY <3>1
            <4> HIDE DEF q
            <4>2. Len(w) = 1 => q = <<>>
                BY <4>1
            <4>3. QED
                BY <4>2 DEF q
        <3>4. QED
            BY <2>6, <3>2, <3>3
    <2>10. \E u \in Units :
              /\ up[c] => line'[c] = Append(line[c], u)
              /\ u.type \in {"GAME_STARTING_NOTIFICATION", "LOBBY_STATE_RESPONSE"}
              /\ up[c] => \A i \in DOMAIN answer'[c] :
                             answer'[c][i].type = "LobbyPlayerInfo"
              /\ up[c] /\ (status[room[c]] /= "LOBBY" \/ IsNotice(u)) =>
                    /\ Harmless(u) /\ answer'[c] = <<>>
                    /\ status[room[c]] /= "LOBBY"
        <3>1. w[1] \in Units
            BY <2>8
        <3>2. up[c] => \A i \in DOMAIN answer'[c] :
                          answer'[c][i].type = "LobbyPlayerInfo"
            BY <2>8, <2>9
        <3>3. up[c] /\ (status[room[c]] /= "LOBBY" \/ IsNotice(w[1])) =>
                  /\ Harmless(w[1]) /\ answer'[c] = <<>>
                  /\ status[room[c]] /= "LOBBY"
            BY <2>6, <2>8, <2>9
        <3>4. QED
            BY <2>6, <2>8, <3>1, <3>2, <3>3
    <2>11. QED
        BY <2>1, <2>2, <2>3, <2>8, <2>10 DEF ServeLobbyState
<1>4. Table!TypeOK' /\ Rooming' /\ Onward
    BY <1>1, <1>3, SameKeepsTable
<1>5. TypeOK'
    BY <1>1, <1>3, <1>4 DEF TypeOK, server, client, talk, view
<1>6. \A d \in Clients \ {c} : Same(d)
    BY <1>3 DEF Same, server, client, talk, view
<1>7. /\ session'[c] = session[c] /\ room'[c] = room[c] /\ up'[c] = up[c]
      /\ screen'[c] = screen[c] /\ pending'[c] = pending[c]
      /\ starting'[c] = starting[c] /\ loops'[c] = loops[c]
      /\ chats'[c] = chats[c] /\ history'[c] = history[c]
      /\ misread'[c] = misread[c]
    BY <1>3 DEF server, client, talk, view
<1>8. Undisturbed(c)
    BY <1>7 DEF Undisturbed
<1>9. /\ pending[c] /= "connect" /\ pending[c] /= "hello"
         /\ room'[c] \in RoomIds /\ room'[c] < nextRoom'
    <2>1. pending[c] /= "connect" /\ pending[c] /= "hello"
        BY <1>1, <1>3, OnServing
    <2>2. room'[c] \in RoomIds /\ room'[c] < nextRoom'
        BY <1>1, <1>3, <1>4, <1>7, <1>2, RoomStays DEF Seated
    <2>3. QED
        BY <2>1, <2>2
<1>10. Good(c)'
    <2>1. CASE ~up[c]
        BY <1>1, <1>3, <1>8, <1>9, <2>1, DeadKeeps
    <2>2. CASE up[c]
        <3>1. "GET_LOBBY_STATE" \in RoomKinds
            BY DEF RoomKinds
        <3>2. PICK u \in Units :
                  /\ line'[c] = Append(line[c], u)
                  /\ u.type \in {"GAME_STARTING_NOTIFICATION",
                                "LOBBY_STATE_RESPONSE"}
                  /\ \A i \in DOMAIN answer'[c] :
                        answer'[c][i].type = "LobbyPlayerInfo"
                  /\ status[room[c]] /= "LOBBY" \/ IsNotice(u) =>
                        /\ Harmless(u) /\ answer'[c] = <<>>
                        /\ status[room[c]] /= "LOBBY"
            BY <1>3, <2>2
        <3>3. QED
            BY <1>1, <1>3, <1>4, <1>7, <1>8, <2>2, <3>1, <3>2, RoomAnswers
    <2>3. QED
        BY <2>1, <2>2
<1>11. QED
    BY <1>1, <1>3, <1>4, <1>5, <1>6, <1>7, <1>2, <1>8, <1>9, <1>10, StepKeeps
       DEF Good

\* A chat packet comes to a client of the room, wherever its own answers are.
LEMMA ChatArrives ==
    ASSUME TypeOK, Table!TypeOK', Onward, NEW c \in Clients, Good(c), up[c],
           session[c] = "room", NEW u \in Units, IsChat(u),
           line'[c] = Append(line[c], u), chats'[c] = Append(chats[c], u.text),
           session'[c] = session[c], room'[c] = room[c], up'[c] = up[c],
           requests'[c] = requests[c], answer'[c] = answer[c],
           screen'[c] = screen[c], pending'[c] = pending[c],
           starting'[c] = starting[c], loops'[c] = loops[c],
           history'[c] = history[c], misread'[c] = misread[c]
    PROVE  Good(c)'
<1> DEFINE s == line[c]
           t == line'[c]
<1>1. /\ Unconnected(c) /\ Greeted(c) /\ Screened(c) /\ Served(c)
      /\ Fitting(c) /\ Awaited(c) /\ Owed(c) /\ Placed(c) /\ Framed(c)
      /\ Started(c) /\ Chatted(c) /\ misread[c] /= "other"
    BY DEF Good
<1>2. Seated(c) /\ Seated(c)'
    BY DEF Seated
<1>3. /\ pending[c] /= "connect" /\ pending[c] /= "hello"
      /\ screen[c] /= "EXITING"
    BY <1>1, <1>2 DEF Unconnected, Greeted, Screened
<1>4. /\ s \in Seq(Units) /\ t = Append(s, u) /\ Len(t) = Len(s) + 1
      /\ Len(s) \in Nat /\ DOMAIN s = 1 .. Len(s)
      /\ \A i \in DOMAIN s : i \in DOMAIN t /\ t[i] = s[i]
      /\ t[Len(s) + 1] = u
      /\ \A i \in DOMAIN t : i \in DOMAIN s \/ i = Len(s) + 1
    <2>1. s \in Seq(Units)
        BY DEF TypeOK
    <2>2. QED
        BY <2>1, AppendOf
<1>5. ~IsFinal(u) /\ ~IsNotice(u) /\ ~IsList(u) /\ u /= Joined /\ Quiet(u)
    BY DEF IsChat, IsFinal, IsNotice, IsList, Joined, Quiet
<1> HIDE DEF s, t
<1>6. HasJoined(c)' <=> HasJoined(c)
    BY <1>4, <1>5 DEF HasJoined, s, t
<1>7. Unconnected(c)' /\ Greeted(c)' /\ Screened(c)'
    BY <1>1, <1>3 DEF Unconnected, Greeted, Screened
<1>8. room'[c] \in RoomIds /\ room'[c] < nextRoom'
      /\ (status[room[c]] /= "LOBBY" => status'[room[c]] /= "LOBBY")
    BY <1>1, <1>2, RoomStays DEF TypeOK
<1>9. Served(c)'
    BY <1>1, <1>8 DEF Served, Seated
<1>10. Fitting(c)'
    BY <1>1, <1>2 DEF Fitting, Seated
<1>11. Awaited(c)'
    <2>1. SUFFICES ASSUME misread[c] = "no", NEW i \in DOMAIN t, IsFinal(t[i])
                   PROVE  /\ pending[c] \in Waits
                          /\ t[i].type = Gets[pending[c]]
                          /\ \A j \in DOMAIN t : j > i => IsChat(t[j])
        BY DEF Awaited, t
    <2>2. i \in DOMAIN s /\ IsFinal(s[i]) /\ t[i] = s[i]
        BY <1>4, <1>5, <2>1
    <2>3. /\ pending[c] \in Waits /\ s[i].type = Gets[pending[c]]
          /\ \A j \in DOMAIN s : j > i => IsChat(s[j])
        BY <1>1, <2>1, <2>2 DEF Awaited, s
    <2>4. QED
        BY <1>4, <2>2, <2>3
<1>12. Owed(c)'
    <2>1. SUFFICES ASSUME misread[c] = "no" PROVE Owed(c)'
        BY DEF Owed
    <2>2. (\E i \in DOMAIN t : IsFinal(t[i])) <=> \E i \in DOMAIN s : IsFinal(s[i])
        BY <1>4, <1>5
    <2>3. /\ \A i \in DOMAIN requests[c] : IsAsk(requests[c][i]) =>
                /\ i = Len(requests[c]) /\ pending[c] \in Waits
                /\ requests[c][i].type = Asks[pending[c]]
          /\ (\E i \in DOMAIN s : IsFinal(s[i])) => requests[c] = <<>>
          /\ pending[c] \in Waits =>
                \/ \E i \in DOMAIN requests[c] : IsAsk(requests[c][i])
                \/ \E i \in DOMAIN s : IsFinal(s[i])
        BY <1>1, <2>1 DEF Owed, s
    <2>4. \A i \in DOMAIN t : IsFinal(t[i]) => requests[c] = <<>>
        BY <2>2, <2>3
    <2>5. pending[c] \in Waits =>
              \/ \E i \in DOMAIN requests[c] : IsAsk(requests[c][i])
              \/ \E i \in DOMAIN t : IsFinal(t[i])
        BY <2>2, <2>3
    <2>6. QED
        BY <2>3, <2>4, <2>5 DEF Owed, t
<1>13. Placed(c)'
    BY <1>1, <1>2, <1>6 DEF Placed
<1>14. Framed(c)'
    <2>1. SUFFICES ASSUME misread[c] = "no", screen[c] = "ROOM_SELECTION"
                   PROVE  Framed(c)'
        BY DEF Framed
    <2>2. HasJoined(c)
        BY <1>1, <1>2, <2>1 DEF Placed, Inside
    <2>3. Led(s) /\ Filled(s) /\ Browsed(s) /\ Within(s, Len(s))
        <3>1. Len(s) + 0 = Len(s)
            BY <1>4
        <3>2. QED
            BY <1>1, <2>1, <3>1 DEF Framed, s
    <2>4. MayCome(s, u)
        BY <2>2, <2>3 DEF MayCome, HasJoined, s
    <2>5. /\ Led(t) /\ Filled(t) /\ Browsed(t)
          /\ \A k \in Nat : Within(s, k) => IsList(u) \/ Within(t, k)
        BY <1>4, <2>3, <2>4, AppendingKeepsFrames
    <2>6. Within(s, Len(s) + 1)
        BY <1>4, <2>3, WithinMore
    <2>7. Within(t, Len(t) + 0)
        BY <1>4, <1>5, <2>5, <2>6
    <2>8. QED
        BY <2>5, <2>7 DEF Framed, t
<1>15. Started(c)'
    <2>1. SUFFICES ASSUME misread[c] = "no", screen[c] \in {"LOBBY", "IN_GAME"}
                   PROVE  Started(c)'
        BY DEF Started
    <2>2. /\ \A i, j \in DOMAIN s : IsNotice(s[i]) /\ i < j => Quiet(s[j])
          /\ Announced(c) => answer[c] = <<>> /\ status[room[c]] /= "LOBBY"
          /\ starting[c] \/ screen[c] = "IN_GAME" =>
                \A i \in DOMAIN s : Quiet(s[i])
        BY <1>1, <2>1 DEF Started, s
    <2>3. \A i, j \in DOMAIN t : IsNotice(t[i]) /\ i < j => Quiet(t[j])
        <3>1. ASSUME NEW i \in DOMAIN t, NEW j \in DOMAIN t, IsNotice(t[i]), i < j
              PROVE  Quiet(t[j])
            <4>1. i \in DOMAIN s /\ t[i] = s[i]
                BY <1>4, <1>5, <3>1
            <4>2. QED
                BY <1>4, <1>5, <2>2, <3>1, <4>1
        <3>2. QED
            BY <3>1
    <2>4. Announced(c)' => Announced(c)
        BY <1>4, <1>5 DEF Announced, s, t
    <2>5. starting[c] \/ screen[c] = "IN_GAME" => \A i \in DOMAIN t : Quiet(t[i])
        BY <1>4, <1>5, <2>2
    <2>6. QED
        BY <1>8, <2>2, <2>3, <2>4, <2>5 DEF Started, t
<1>16. Chatted(c)'
    BY <1>1, ToldChatted
<1>17. QED
    BY <1>1, <1>7, <1>9, <1>10, <1>11, <1>12, <1>13, <1>14, <1>15, <1>16
       DEF Good

\* A chat message is passed on to the others in the room.
LEMMA ServeChatKeeps ==
    ASSUME Inv, NEW c \in Clients, ServeChat(c)
    PROVE  Inv'
<1> DEFINE u == Request(c)
           R == Recipients(c)
<1>1. /\ TypeOK /\ Table!TypeOK /\ Rooming /\ \A d \in Clients : Good(d)
      /\ session[c] = "room" /\ Reads(c, "CHAT_MESSAGE")
      /\ UNCHANGED <<table, server, up, answer, client, said, history>>
    BY DEF Inv, TypeOK, ServeChat
<1>2. /\ requests' \in [Clients -> Seq(Requests)]
      /\ \A d \in Clients \ {c} : requests'[d] = requests[d]
      /\ \A i \in DOMAIN requests'[c] :
            \E j \in DOMAIN requests[c] : requests'[c][i] = requests[c][j]
      /\ u \in Requests /\ u.type = "CHAT_MESSAGE"
    BY <1>1, Serving
<1>3. u \in Units /\ IsChat(u) /\ u.text \in Chats
    <2>1. u \in [type : {"CHAT_MESSAGE"}, text : Chats]
        <3> HIDE DEF u
        <3>1. QED
            BY <1>2 DEF Requests, Plain
    <2> HIDE DEF u
    <2>2. QED
        BY <2>1 DEF Units, IsChat
<1>4. \A d \in R : d \in Clients /\ d /= c /\ up[d] /\ session[d] = "room"
    BY DEF Recipients
<1>5. /\ line' = [d \in Clients |->
                     IF d \in R THEN Append(line[d], u) ELSE line[d]]
      /\ chats' = [d \in Clients |->
                      IF d \in R THEN Append(chats[d], u.text) ELSE chats[d]]
    BY DEF ServeChat
<1> HIDE DEF u, R
<1>6. /\ line' \in [Clients -> Seq(Units)]
      /\ chats' \in [Clients -> Seq(Chats)]
    <2>1. /\ \A d \in Clients : line[d] \in Seq(Units) /\ chats[d] \in Seq(Chats)
        BY <1>1 DEF TypeOK
    <2>2. \A d \in Clients : /\ Append(line[d], u) \in Seq(Units)
                             /\ Append(chats[d], u.text) \in Seq(Chats)
        BY <1>3, <2>1, AppendIs
    <2>3. QED
        BY <1>5, <2>1, <2>2
<1>7. Table!TypeOK' /\ Rooming' /\ Onward
    BY <1>1, SameKeepsTable
<1>8. TypeOK'
    BY <1>1, <1>2, <1>6, <1>7 DEF TypeOK, server, client, view
<1>9. \A d \in Clients :
          /\ session'[d] = session[d] /\ room'[d] = room[d] /\ up'[d] = up[d]
          /\ answer'[d] = answer[d] /\ screen'[d] = screen[d]
          /\ pending'[d] = pending[d] /\ starting'[d] = starting[d]
          /\ loops'[d] = loops[d] /\ history'[d] = history[d]
          /\ misread'[d] = misread[d]
    BY <1>1 DEF server, client, view
<1>10. \A d \in Clients \ R : line'[d] = line[d] /\ chats'[d] = chats[d]
    BY <1>5
<1>11. ASSUME NEW d \in R
       PROVE  Good(d)'
    <2>1. /\ d \in Clients /\ up[d] /\ session[d] = "room"
          /\ requests'[d] = requests[d]
          /\ line'[d] = Append(line[d], u)
          /\ chats'[d] = Append(chats[d], u.text)
        BY <1>2, <1>4, <1>5
    <2>2. QED
        BY <1>1, <1>3, <1>7, <1>9, <2>1, ChatArrives
<1>12. ASSUME NEW d \in Clients \ R, d /= c
       PROVE  Good(d)'
    <2>1. Same(d)
        BY <1>2, <1>9, <1>10, <1>12 DEF Same
    <2>2. QED
        BY <1>1, <1>7, <2>1, OthersKeep
<1>13. Good(c)'
    <2>1. line'[c] = line[c] /\ chats'[c] = chats[c]
        BY <1>4, <1>10
    <2>2. Undisturbed(c)
        BY <1>9, <2>1 DEF Undisturbed
    <2>3. CASE ~up[c]
        <3>1. Served(c)
            BY <1>1 DEF Good
        <3>2. room'[c] \in RoomIds /\ room'[c] < nextRoom'
            BY <1>1, <1>7, <1>9, <3>1, RoomStays DEF Seated
        <3>3. pending[c] /= "connect" /\ pending[c] /= "hello"
            BY <1>1, OnServing
        <3>4. QED
            BY <1>1, <1>2, <1>9, <2>1, <2>2, <2>3, <3>2, <3>3, DeadKeeps
    <2>4. CASE up[c]
        <3>1. "CHAT_MESSAGE" \in RoomKinds
            BY DEF RoomKinds
        <3>2. QED
            BY <1>1, <1>7, <1>9, <2>1, <2>2, <2>4, <3>1, RoomHears
    <2>5. QED
        BY <2>3, <2>4
<1>14. \A d \in Clients : Good(d)'
    BY <1>11, <1>12, <1>13
<1>15. QED
    BY <1>7, <1>8, <1>14 DEF Inv

\* The session of a client that is gone ends.
LEMMA SessionEndsKeeps ==
    ASSUME Inv, NEW c \in Clients, SessionEnds(c)
    PROVE  Inv'
<1>1. TypeOK /\ Table!TypeOK /\ Rooming /\ Good(c)
    BY DEF Inv, TypeOK
<1>2. /\ Unconnected(c) /\ Greeted(c) /\ Screened(c) /\ Served(c)
      /\ Fitting(c) /\ Awaited(c) /\ Owed(c) /\ Placed(c) /\ Framed(c)
      /\ Started(c) /\ Chatted(c) /\ misread[c] /= "other"
    BY <1>1 DEF Good
<1>3. /\ UNCHANGED <<room, up, answer, line, client, talk>>
      /\ requests' \in [Clients -> Seq(Requests)] /\ requests'[c] = <<>>
      /\ session' \in [Clients -> {"none", "lobby", "joining", "room", "done"}]
      /\ session'[c] = "done" /\ ~up[c] /\ pending[c] /= "connect"
      /\ Table!TypeOK' /\ Rooming' /\ Onward
      /\ \A d \in Clients \ {c} :
            requests'[d] = requests[d] /\ session'[d] = session[d]
    <2>1. Table!TypeOK' /\ Rooming' /\ Onward
        <3>1. CASE session[c] = "room"
            BY <1>1, <3>1, LeaveKeepsTable DEF SessionEnds
        <3>2. CASE session[c] /= "room"
            BY <1>1, <3>2, SameKeepsTable DEF SessionEnds
        <3>3. QED
            BY <3>1, <3>2
    <2>2. /\ requests' \in [Clients -> Seq(Requests)] /\ requests'[c] = <<>>
          /\ \A d \in Clients \ {c} : requests'[d] = requests[d]
        BY <1>1 DEF SessionEnds, TypeOK
    <2>3. /\ session' \in [Clients ->
                           {"none", "lobby", "joining", "room", "done"}]
          /\ session'[c] = "done"
          /\ \A d \in Clients \ {c} : session'[d] = session[d]
        BY <1>1 DEF SessionEnds, TypeOK
    <2>4. QED
        BY <2>1, <2>2, <2>3 DEF SessionEnds
<1>4. Table!TypeOK' /\ Rooming' /\ Onward
    BY <1>3
<1>5. TypeOK'
    BY <1>1, <1>3, <1>4 DEF TypeOK, client, talk, view
<1>6. \A d \in Clients \ {c} : Same(d)
    BY <1>3 DEF Same, client, talk, view
<1>7. /\ room'[c] = room[c] /\ up'[c] = up[c] /\ answer'[c] = answer[c]
      /\ line'[c] = line[c] /\ screen'[c] = screen[c]
      /\ pending'[c] = pending[c] /\ starting'[c] = starting[c]
      /\ loops'[c] = loops[c] /\ chats'[c] = chats[c]
      /\ history'[c] = history[c] /\ misread'[c] = misread[c]
    BY <1>3 DEF client, talk, view
<1>8. Undisturbed(c)
    BY <1>7 DEF Undisturbed
<1>9. Good(c)'
    <2>1. \A i : i \notin DOMAIN <<>>
        OBVIOUS
    <2>2. ~Seated(c)'
        BY <1>3 DEF Seated
    <2>3. QED
        BY <1>1, <1>3, <1>7, <1>8, <2>1, <2>2, DeadKeeps
<1>10. QED
    BY <1>1, <1>3, <1>4, <1>5, <1>6, <1>7, <1>2, <1>8, <1>9, StepKeeps
       DEF Good

\* The connection is lost.
LEMMA LoseKeeps ==
    ASSUME Inv, NEW c \in Clients, Lose(c)
    PROVE  Inv'
<1>1. TypeOK /\ Table!TypeOK /\ Rooming /\ Good(c)
    BY DEF Inv, TypeOK
<1>2. /\ Unconnected(c) /\ Greeted(c) /\ Screened(c) /\ Served(c)
      /\ Fitting(c) /\ Awaited(c) /\ Owed(c) /\ Placed(c) /\ Framed(c)
      /\ Started(c) /\ Chatted(c) /\ misread[c] /= "other"
    BY <1>1 DEF Good
<1>3. /\ UNCHANGED <<table, server, requests, line, client, talk>>
      /\ up' \in [Clients -> BOOLEAN] /\ up[c] /\ ~up'[c]
      /\ answer' \in [Clients -> Seq(Units)] /\ answer'[c] = <<>>
      /\ \A d \in Clients \ {c} :
            up'[d] = up[d] /\ answer'[d] = answer[d]
    BY <1>1 DEF Lose, Cut, TypeOK
<1>4. Table!TypeOK' /\ Rooming' /\ Onward
    BY <1>1, <1>3, SameKeepsTable
<1>5. TypeOK'
    BY <1>1, <1>3, <1>4 DEF TypeOK, server, client, talk, view
<1>6. \A d \in Clients \ {c} : Same(d)
    BY <1>3 DEF Same, server, client, talk, view
<1>7. /\ session'[c] = session[c] /\ room'[c] = room[c]
      /\ requests'[c] = requests[c] /\ line'[c] = line[c]
      /\ screen'[c] = screen[c] /\ pending'[c] = pending[c]
      /\ starting'[c] = starting[c] /\ loops'[c] = loops[c]
      /\ chats'[c] = chats[c] /\ history'[c] = history[c]
      /\ misread'[c] = misread[c]
    BY <1>3 DEF server, client, talk, view
<1>8. screen[c] /= "EXITING" /\ pending[c] /= "connect"
    BY <1>3, <1>2 DEF Screened, Unconnected
<1>9. Unconnected(c)' /\ Greeted(c)' /\ Screened(c)'
    BY <1>3, <1>7, <1>2, <1>8 DEF Unconnected, Greeted, Screened, Seated
<1>10. Served(c)'
    BY <1>3, <1>7, <1>2 DEF Served, Seated, table
<1>11. Fitting(c)' /\ Owed(c)' /\ Placed(c)'
    BY <1>3 DEF Fitting, Owed, Placed
<1>12. Awaited(c)'
    BY <1>3, <1>7, <1>2 DEF Awaited
<1>13. Framed(c)'
    BY <1>3, <1>7, <1>2 DEF Framed
<1>14. Started(c)'
    BY <1>3, <1>7, <1>2 DEF Started, Announced
<1>15. Chatted(c)'
    BY <1>3, <1>7, <1>2 DEF Chatted, Number
<1>16. QED
    BY <1>1, <1>3, <1>4, <1>5, <1>6, <1>7, <1>2, <1>8, <1>9, <1>10, <1>11,
       <1>12, <1>13, <1>14, <1>15, StepKeeps
       DEF Good

\* A player is kicked: off the table, and the connection is lost.
LEMMA ShellKickKeeps ==
    ASSUME Inv, NEW c \in Clients, ShellKick(c)
    PROVE  Inv'
<1>1. TypeOK /\ Table!TypeOK /\ Rooming /\ Good(c)
    BY DEF Inv, TypeOK
<1>2. /\ Unconnected(c) /\ Greeted(c) /\ Screened(c) /\ Served(c)
      /\ Fitting(c) /\ Awaited(c) /\ Owed(c) /\ Placed(c) /\ Framed(c)
      /\ Started(c) /\ Chatted(c) /\ misread[c] /= "other"
    BY <1>1 DEF Good
<1>3. /\ UNCHANGED <<server, requests, line, client, talk>>
      /\ up' \in [Clients -> BOOLEAN] /\ up[c] /\ ~up'[c]
      /\ answer' \in [Clients -> Seq(Units)] /\ answer'[c] = <<>>
      /\ \A d \in Clients \ {c} :
            up'[d] = up[d] /\ answer'[d] = answer[d]
    BY <1>1 DEF ShellKick, Cut, TypeOK
<1>4. Table!TypeOK' /\ Rooming' /\ Onward
    BY <1>1, RemoveKeepsTable DEF ShellKick
<1>17. nextRoom' = nextRoom
    BY DEF ShellKick, Table!RemoveFromFirst
<1>5. TypeOK'
    BY <1>1, <1>3, <1>4 DEF TypeOK, server, client, talk, view
<1>6. \A d \in Clients \ {c} : Same(d)
    BY <1>3 DEF Same, server, client, talk, view
<1>7. /\ session'[c] = session[c] /\ room'[c] = room[c]
      /\ requests'[c] = requests[c] /\ line'[c] = line[c]
      /\ screen'[c] = screen[c] /\ pending'[c] = pending[c]
      /\ starting'[c] = starting[c] /\ loops'[c] = loops[c]
      /\ chats'[c] = chats[c] /\ history'[c] = history[c]
      /\ misread'[c] = misread[c]
    BY <1>3 DEF server, client, talk, view
<1>8. screen[c] /= "EXITING" /\ pending[c] /= "connect"
    BY <1>3, <1>2 DEF Screened, Unconnected
<1>9. Unconnected(c)' /\ Greeted(c)' /\ Screened(c)'
    BY <1>3, <1>7, <1>2, <1>8 DEF Unconnected, Greeted, Screened, Seated
<1>10. Served(c)'
    BY <1>3, <1>17, <1>7, <1>2 DEF Served, Seated
<1>11. Fitting(c)' /\ Owed(c)' /\ Placed(c)'
    BY <1>3 DEF Fitting, Owed, Placed
<1>12. Awaited(c)'
    BY <1>3, <1>7, <1>2 DEF Awaited
<1>13. Framed(c)'
    BY <1>3, <1>7, <1>2 DEF Framed
<1>14. Started(c)'
    BY <1>3, <1>7, <1>2 DEF Started, Announced
<1>15. Chatted(c)'
    BY <1>3, <1>7, <1>2 DEF Chatted, Number
<1>16. QED
    BY <1>1, <1>3, <1>4, <1>5, <1>6, <1>7, <1>2, <1>8, <1>9, <1>10, <1>11,
       <1>12, <1>13, <1>14, <1>15, StepKeeps
       DEF Good

\* A room is deleted from the shell: nobody is told.
LEMMA ShellDeleteKeeps ==
    ASSUME Inv, NEW r \in RoomIds, ShellDelete(r)
    PROVE  Inv'
<1>1. /\ TypeOK /\ Table!TypeOK /\ Rooming /\ \A c \in Clients : Good(c)
      /\ UNCHANGED <<server, up, stream, client, talk>>
    BY DEF Inv, TypeOK, ShellDelete
<1>2. Table!TypeOK' /\ Rooming' /\ Onward
    BY <1>1, DeleteKeepsTable DEF ShellDelete
<1>3. TypeOK'
    BY <1>1, <1>2 DEF TypeOK, server, stream, client, view, talk
<1>4. \A c \in Clients : Same(c)
    BY <1>1 DEF Same, server, stream, client, view, talk
<1>5. \A c \in Clients : Good(c)'
    BY <1>1, <1>2, <1>4, OthersKeep
<1>6. QED
    BY <1>2, <1>3, <1>5 DEF Inv

-----------------------------------------------------------------------------
(* Every step.                                                             *)

LEMMA InitInv == Init => Inv
<1> SUFFICES ASSUME Init PROVE Inv
    OBVIOUS
<1>1. Table!TypeOK /\ Rooming
    BY RoomTypes, FS_EmptySet
       DEF Init, Table!Init, Table!TypeOK, Rooming, RoomIds
<1>2. TypeOK
    <2>1. 0 \in 0 .. MaxLoops + 1 /\ 0 \in 0 .. MaxSaid
        BY BoundsAssumption
    <2>2. /\ <<>> \in Seq(Requests) /\ <<>> \in Seq(Units)
          /\ <<>> \in Seq(Chats)
        OBVIOUS
    <2>3. /\ session \in [Clients ->
                          {"none", "lobby", "joining", "room", "done"}]
          /\ room \in [Clients -> RoomIds \cup {MaxRooms}]
        BY DEF Init
    <2>4. up \in [Clients -> BOOLEAN] /\ starting \in [Clients -> BOOLEAN]
        BY DEF Init
    <2>5. screen \in [Clients -> Screens]
        BY DEF Init, Screens
    <2>6. pending \in [Clients -> Pendings]
        BY DEF Init, Pendings
    <2>7. requests \in [Clients -> Seq(Requests)]
        BY <2>2 DEF Init
    <2>8. /\ answer \in [Clients -> Seq(Units)]
          /\ line \in [Clients -> Seq(Units)]
        BY <2>2 DEF Init
    <2>9. /\ chats \in [Clients -> Seq(Chats)]
          /\ history \in [Clients -> Seq(Chats)]
        BY <2>2 DEF Init
    <2>10. /\ rooms \in [Clients -> SUBSET RoomIds]
           /\ hostId \in [Clients -> Nat] /\ drawn \in [Clients -> Nat]
        BY DEF Init
    <2>11. /\ loops \in [Clients -> 0 .. MaxLoops + 1]
           /\ said \in [Clients -> 0 .. MaxSaid]
        BY <2>1 DEF Init
    <2>12. misread \in [Clients ->
                            {"no", "getRooms", "getLobbyState", "other"}]
        BY DEF Init
    <2>13. QED
        BY <1>1, <2>3, <2>4, <2>5, <2>6, <2>7, <2>8, <2>9, <2>10, <2>11, <2>12
           DEF TypeOK
<1>3. ASSUME NEW c \in Clients
      PROVE  Good(c)
    <2>1. /\ session[c] = "none" /\ up[c] = FALSE /\ misread[c] = "no"
          /\ requests[c] = <<>> /\ answer[c] = <<>> /\ line[c] = <<>>
          /\ pending[c] = "connect" /\ loops[c] = 0 /\ starting[c] = FALSE
          /\ history[c] = <<>> /\ chats[c] = <<>>
          /\ screen[c] \in {"USERNAME_INPUT", "MAIN_MENU"}
        BY DEF Init
    <2>2. /\ Unconnected(c) /\ Greeted(c) /\ Screened(c) /\ Served(c)
          /\ Fitting(c) /\ Awaited(c) /\ Owed(c) /\ Placed(c)
        BY <2>1 DEF Unconnected, Greeted, Screened, Served, Fitting, Awaited,
                    Owed, Placed, Seated, Waits, Inside
    <2>3. Framed(c) /\ Started(c)
        BY <2>1 DEF Framed, Started
    <2>4. Packets(<<>>, 0) = 0
        <3>1. Places(<<>>, "CHAT_MESSAGE") = {}
            BY DEF Places
        <3>2. {j \in Places(<<>>, "CHAT_MESSAGE") : j <= 0} = {}
            BY <3>1
        <3>3. QED
            BY <3>2, FS_EmptySet DEF Packets
    <2>5. Chatted(c)
        BY <2>1, <2>4 DEF Chatted, Number
    <2>6. QED
        BY <2>1, <2>2, <2>3, <2>5 DEF Good
<1>4. QED
    BY <1>1, <1>2, <1>3 DEF Inv

LEMMA SessionKeeps ==
    ASSUME Inv, NEW c \in Clients, Session(c)
    PROVE  Inv'
BY WriteUnitKeeps, ServeConnectKeeps, ServeListRoomsKeeps,
   ServeCreateRoomKeeps, ServeJoinRoomKeeps, EnterRoomKeeps,
   ServeStartGameKeeps, ServeLobbyStateKeeps, ServeChatKeeps, SessionEndsKeeps
   DEF Session

LEMMA ClientKeeps ==
    ASSUME Inv, NEW c \in Clients, Client(c)
    PROVE  Inv'
BY MenusKeep, QuitKeeps, ConnectKeeps, ConnectAnsweredKeeps,
   ConnectFailsKeeps, GetRoomsKeeps, CreateRoomKeeps, JoinRoomKeeps,
   DrainListKeeps, CreateAnsweredKeeps, JoinAnsweredKeeps, AnswerCutKeeps,
   GetLobbyStateKeeps, ReadLobbyKeeps, LobbyReadKeeps, PressStartKeeps,
   SendChatKeeps, ReceiveChatKeeps
   DEF Client

LEMMA StutterKeeps ==
    ASSUME Inv, UNCHANGED vars
    PROVE  Inv'
<1>1. /\ TypeOK /\ Table!TypeOK /\ Rooming /\ \A c \in Clients : Good(c)
      /\ UNCHANGED <<table, server, up, stream, client, talk>>
    BY DEF Inv, TypeOK, vars
<1>2. Table!TypeOK' /\ Rooming' /\ Onward
    BY <1>1, SameKeepsTable
<1>3. TypeOK'
    BY <1>1, <1>2 DEF TypeOK, server, stream, client, view, talk
<1>4. \A c \in Clients : Same(c)
    BY <1>1 DEF Same, server, stream, client, view, talk
<1>5. \A c \in Clients : Good(c)'
    BY <1>1, <1>2, <1>4, OthersKeep
<1>6. QED
    BY <1>2, <1>3, <1>5 DEF Inv

LEMMA NextInv == Inv /\ [Next]_vars => Inv'
<1> SUFFICES ASSUME Inv, [Next]_vars PROVE Inv'
    OBVIOUS
<1>1. ASSUME NEW c \in Clients, Session(c) \/ Client(c)
      PROVE  Inv'
    BY <1>1, SessionKeeps, ClientKeeps
<1>5. ASSUME NEW c \in Clients, Lose(c) \/ ShellKick(c)
      PROVE  Inv'
    BY <1>5, LoseKeeps, ShellKickKeeps
<1>2. ASSUME NEW r \in RoomIds, ShellDelete(r)
      PROVE  Inv'
    BY <1>2, ShellDeleteKeeps
<1>3. CASE UNCHANGED vars
    BY <1>3, StutterKeeps
<1>4. QED
    BY <1>1, <1>2, <1>3, <1>5 DEF Next

LEMMA Invariance == Spec => []Inv
BY InitInv, NextInv, PTL DEF Spec

-----------------------------------------------------------------------------
(* What follows.                                                           *)

\* The state is well formed: the session has a room, the screen, the request
\* that is waited for and both directions of the stream are what the code
\* could have put there.
THEOREM TypesCorrect == Spec => []TypeOK
BY Invariance, PTL DEF Inv

\* What reads a message knows its type, except where a room list has come
\* only in part and where a chat message comes while the lobby is polled.
THEOREM MisreadsCorrect == Spec => []OnlyTwoMisreads
<1>1. Inv => OnlyTwoMisreads
    BY DEF Inv, Good, OnlyTwoMisreads
<1>2. QED
    BY <1>1, Invariance, PTL

LEMMA OwedOnceHolds ==
    ASSUME Inv, NEW c \in Clients, NEW p \in Waits, up[c], misread[c] = "no"
    PROVE  HowMany(requests[c], Asks[p]) + HowMany(line[c], Gets[p])
             = IF pending[c] = p THEN 1 ELSE 0
<1> DEFINE R == Places(requests[c], Asks[p])
           L == Places(line[c], Gets[p])
<1>1. Awaited(c) /\ Owed(c) /\ TypeOK
    BY DEF Inv, Good
<1>2. /\ \A i \in R : i \in DOMAIN requests[c] /\ IsAsk(requests[c][i])
      /\ \A i \in L : i \in DOMAIN line[c] /\ IsFinal(line[c][i])
      /\ \A q \in Waits : q /= p => Asks[q] /= Asks[p] /\ Gets[q] /= Gets[p]
    BY DEF Places, Asks, Gets, Waits, IsAsk, IsFinal
<1>3. HowMany(requests[c], Asks[p]) = Cardinality(R)
    BY DEF HowMany
<1>4. HowMany(line[c], Gets[p]) = Cardinality(L)
    BY DEF HowMany
<1>5. /\ requests[c] \in Seq(Requests) /\ line[c] \in Seq(Units)
      /\ DOMAIN requests[c] = 1 .. Len(requests[c])
      /\ DOMAIN line[c] = 1 .. Len(line[c])
    BY <1>1 DEF TypeOK
<1>6. CASE pending[c] /= p
    <2>1. R = {}
        BY <1>1, <1>2, <1>6 DEF Owed, Places
    <2>2. L = {}
        BY <1>1, <1>2, <1>6 DEF Awaited, Places
    <2>3. QED
        BY <1>3, <1>4, <1>6, <2>1, <2>2, FS_EmptySet
<1>7. CASE /\ pending[c] = p
           /\ \E i \in DOMAIN requests[c] : IsAsk(requests[c][i])
    <2>1. R = {Len(requests[c])}
        BY <1>1, <1>2, <1>7 DEF Owed, Places
    <2>2. L = {}
        BY <1>1, <1>2, <1>7 DEF Owed
    <2>3. Cardinality(R) = 1 /\ Cardinality(L) = 0
        BY <2>1, <2>2, FS_Singleton, FS_EmptySet
    <2>4. QED
        BY <1>3, <1>4, <1>7, <2>3
<1>8. CASE pending[c] = p /\ \E i \in DOMAIN line[c] : IsFinal(line[c][i])
    <2>1. PICK i \in DOMAIN line[c] : IsFinal(line[c][i])
        BY <1>8
    <2>2. /\ line[c][i].type = Gets[p] /\ requests[c] = <<>>
          /\ \A j \in DOMAIN line[c] : j > i => IsChat(line[c][j])
        BY <1>1, <1>8, <2>1 DEF Awaited, Owed
    <2>3. \A j \in L : j = i
        <3> SUFFICES ASSUME NEW j \in L, j /= i PROVE FALSE
            OBVIOUS
        <3>1. j < i \/ j > i
            BY <1>2, <1>5
        <3>2. j > i => IsChat(line[c][j])
            BY <1>2, <2>2
        <3>3. j < i => IsChat(line[c][i])
            BY <1>1, <1>2, <2>1 DEF Awaited
        <3>4. ~IsChat(line[c][i]) /\ ~IsChat(line[c][j])
            BY <1>2, <2>1 DEF IsChat, IsFinal
        <3>5. QED
            BY <3>1, <3>2, <3>3, <3>4
    <2>4. i \in L
        BY <2>2 DEF Places
    <2>5. L = {i}
        BY <2>3, <2>4
    <2>6. R = {}
        BY <1>2, <2>2
    <2>7. Cardinality(R) = 0 /\ Cardinality(L) = 1
        BY <2>5, <2>6, FS_Singleton, FS_EmptySet
    <2>8. QED
        BY <1>3, <1>4, <1>8, <2>7
<1>9. QED
    BY <1>1, <1>6, <1>7, <1>8 DEF Owed

\* What the client waits for is on its way once, as request or as answer, and
\* what it does not wait for is not: however many lists were asked for before
\* createRoom, joinRoom and sendConnectRequest, no answer is left over.
THEOREM OwedCorrect == Spec => []OwedOnce
<1>1. DOMAIN Asks = Waits
    BY DEF Asks, Waits
<1>2. Inv => OwedOnce
    BY <1>1, OwedOnceHolds DEF OwedOnce
<1>3. QED
    BY <1>2, Invariance, PTL

LEMMA RequestsFitHolds ==
    ASSUME Inv, NEW c \in Clients, requests[c] /= <<>>, up[c]
    PROVE  /\ session[c] = "none" => Request(c).type = "CONNECT"
           /\ session[c] = "lobby" => Request(c).type
                  \in {"LIST_ROOMS", "CREATE_ROOM", "JOIN_ROOM"}
           /\ session[c] = "room" => Request(c).type \in RoomKinds
<1>1. Fitting(c) /\ requests[c] \in Seq(Requests)
    BY DEF Inv, Good, TypeOK
<1>2. 1 \in DOMAIN requests[c] /\ Request(c) = requests[c][1]
    BY <1>1 DEF Request
<1>3. session[c] = "none" => Request(c).type = "CONNECT"
    BY <1>1, <1>2 DEF Fitting
<1>4. QED
    BY <1>1, <1>2, <1>3 DEF Fitting, Seated

\* A request is read by the loop of the session, handleClient's or
\* handleInRoomClient's, that has a case for it.
THEOREM RequestsCorrect == Spec => []RequestsFit
<1>1. Inv => RequestsFit
    BY RequestsFitHolds DEF RequestsFit, RoomKinds
<1>2. QED
    BY <1>1, Invariance, PTL

\* The client shows a lobby or a game only while the server has it in a room,
\* and who is in a room is shown it or has the answer to joinRoom to read.
THEOREM ScreenCorrect == Spec => []ScreenMatchesSession
<1>1. ASSUME Inv, NEW c \in Clients, up[c], misread[c] = "no"
      PROVE  /\ screen[c] \in {"LOBBY", "IN_GAME"} => Seated(c)
             /\ Seated(c) => screen[c] \in Inside \/ pending[c] = "join"
    <2>1. Placed(c) /\ Awaited(c)
        BY <1>1 DEF Inv, Good
    <2>2. HasJoined(c) => pending[c] = "join"
        BY <1>1, <2>1
           DEF HasJoined, Joined, Awaited, IsFinal, Waits, Gets
    <2>3. QED
        BY <1>1, <2>1, <2>2 DEF Placed, Inside
<1>2. Inv => ScreenMatchesSession
    BY <1>1 DEF ScreenMatchesSession, Seated, Inside
<1>3. QED
    BY <1>2, Invariance, PTL

LEMMA ChatInOrderHolds ==
    ASSUME Inv, NEW c \in Clients, misread[c] = "no"
    PROVE  /\ IsPrefix(history[c], chats[c])
           /\ up[c] =>
                 /\ Number(c, Len(line[c])) = Len(chats[c])
                 /\ \A i \in Places(line[c], "CHAT_MESSAGE") :
                       line[c][i].text = chats[c][Number(c, i)]
<1>1. /\ Chatted(c) /\ Screened(c) /\ line[c] \in Seq(Units)
      /\ history[c] \in Seq(Chats) /\ chats[c] \in Seq(Chats)
    BY DEF Inv, Good, TypeOK
<1>2. CASE screen[c] = "EXITING"
    <2>1. history[c] = <<>> /\ ~up[c]
        BY <1>1, <1>2 DEF Screened, Inside
    <2>2. QED
        BY <1>1, <2>1 DEF IsPrefix
<1>3. CASE screen[c] /= "EXITING"
    <2>1. /\ Number(c, Len(line[c])) = Len(chats[c])
          /\ \A i \in DOMAIN history[c] : history[c][i] = chats[c][i]
          /\ \A i \in Places(line[c], "CHAT_MESSAGE") :
                line[c][i].text = chats[c][Number(c, i)]
        BY <1>1, <1>3 DEF Chatted, Places, IsChat
    <2>2. Packets(line[c], Len(line[c])) \in Nat
        <3>1. line[c] \in Seq(Units) /\ Len(line[c]) \in Int
            BY <1>1
        <3>2. QED
            BY <3>1, PacketsNat
    <2>3. Len(history[c]) <= Len(chats[c])
        BY <1>1, <2>1, <2>2 DEF Number
    <2>4. IsPrefix(history[c], chats[c])
        BY <1>1, <2>1, <2>3 DEF IsPrefix
    <2>5. QED
        BY <2>1, <2>4
<1>4. QED
    BY <1>2, <1>3

\* The chat history shows what the server relayed, each message once and in
\* order, and the rest is on the line, in order too.
THEOREM ChatCorrect == Spec => []ChatInOrder
<1>1. Inv => ChatInOrder
    BY ChatInOrderHolds DEF ChatInOrder
<1>2. QED
    BY <1>1, Invariance, PTL

=============================================================================
