------------------------------ MODULE ViewProofs ------------------------------
(***************************************************************************)
(* What a client comes to see, for any bounds: the players of Roster, its  *)
(* own ship of PlayerSync and the entities of EntityView.                  *)
(*                                                                         *)
(* The three have the same difficulty: what holds on the screen holds      *)
(* because of what is still under way to it. Each inductive invariant      *)
(* speaks of the whole channel: which message about a thing is the last,   *)
(* and what the client will have made of it when all are read.             *)
(*                                                                         *)
(* The three share nothing but the kind of the network, and the lemmas on  *)
(* sequences.                                                              *)
(***************************************************************************)
EXTENDS Roster, PlayerSync, EntityView, SequenceTheorems, FiniteSetTheorems,
        NaturalsInduction, WellFoundedInduction, TLAPS

-----------------------------------------------------------------------------
(* Sequences and sets.                                                     *)

\* The elements of two sequences joined.
LEMMA ConcatIs ==
    ASSUME NEW T, NEW a \in Seq(T), NEW b \in Seq(T)
    PROVE  /\ a \o b \in Seq(T) /\ Len(a \o b) = Len(a) + Len(b)
           /\ \A j \in 1 .. Len(a) + Len(b) :
                 (a \o b)[j] = IF j <= Len(a) THEN a[j] ELSE b[j - Len(a)]
OBVIOUS

\* Taking one element out of a sequence, as RemoveAt does.
LEMMA RemovalOfOne ==
    ASSUME NEW T, NEW s \in Seq(T), NEW i \in 1 .. Len(s)
    PROVE  LET r == SubSeq(s, 1, i - 1) \o SubSeq(s, i + 1, Len(s))
           IN  /\ r \in Seq(T)
               /\ Len(r) = Len(s) - 1
               /\ \A j \in 1 .. Len(s) - 1 : r[j] = IF j < i THEN s[j] ELSE s[j + 1]
<1> DEFINE a == SubSeq(s, 1, i - 1)
           b == SubSeq(s, i + 1, Len(s))
<1>1. /\ a \in Seq(T) /\ Len(a) = i - 1
      /\ \A j \in 1 .. i - 1 : a[j] = s[j]
    OBVIOUS
<1>2. /\ b \in Seq(T) /\ Len(b) = Len(s) - i
      /\ \A j \in 1 .. Len(s) - i : b[j] = s[i + j]
    OBVIOUS
<1> HIDE DEF a, b
<1>3. /\ a \o b \in Seq(T) /\ Len(a \o b) = Len(s) - 1
      /\ \A j \in 1 .. Len(s) - 1 :
            (a \o b)[j] = IF j <= i - 1 THEN a[j] ELSE b[j - (i - 1)]
    <2>1. a \in Seq(T) /\ b \in Seq(T) /\ Len(a) + Len(b) = Len(s) - 1
        BY <1>1, <1>2
    <2>2. /\ a \o b \in Seq(T) /\ Len(a \o b) = Len(a) + Len(b)
          /\ \A j \in 1 .. Len(a) + Len(b) :
                (a \o b)[j] = IF j <= Len(a) THEN a[j] ELSE b[j - Len(a)]
        BY <2>1, ConcatIs
    <2>3. Len(a) = i - 1
        BY <1>1
    <2>4. QED
        BY <2>1, <2>2, <2>3
<1>4. \A j \in 1 .. Len(s) - 1 : (a \o b)[j] = IF j < i THEN s[j] ELSE s[j + 1]
    BY <1>1, <1>2, <1>3
<1>5. QED
    BY <1>3, <1>4 DEF a, b

\* One element is taken out of a sequence: those before it stay, those behind
\* it move up.
LEMMA RemovalIs ==
    ASSUME NEW T, NEW s \in Seq(T), NEW i \in DOMAIN s
    PROVE  /\ RemoveAt(s, i) \in Seq(T)
           /\ Len(RemoveAt(s, i)) = Len(s) - 1
           /\ i = 1 => \A j \in 1 .. Len(s) - 1 : RemoveAt(s, i)[j] = s[j + 1]
           /\ \A j \in DOMAIN RemoveAt(s, i) :
                 \E k \in DOMAIN s : RemoveAt(s, i)[j] = s[k]
<1>1. DOMAIN s = 1 .. Len(s) /\ Len(s) \in Nat
    OBVIOUS
<1> DEFINE r == RemoveAt(s, i)
<1>2. /\ r \in Seq(T) /\ Len(r) = Len(s) - 1
      /\ \A j \in 1 .. Len(s) - 1 : r[j] = IF j < i THEN s[j] ELSE s[j + 1]
    BY <1>1, RemovalOfOne DEF RemoveAt
<1> HIDE DEF r
<1>3. ASSUME NEW j \in DOMAIN r
      PROVE  \E k \in DOMAIN s : r[j] = s[k]
    <2>1. j \in 1 .. Len(s) - 1
        BY <1>2
    <2>2. j \in DOMAIN s /\ j + 1 \in DOMAIN s /\ r[j] \in {s[j], s[j + 1]}
        BY <1>1, <1>2, <2>1
    <2>3. QED
        BY <2>2
<1>4. QED
    BY <1>1, <1>2, <1>3 DEF r

\* The smaller of two numbers.
LEMMA MinOfTwo ==
    ASSUME NEW a \in Nat, NEW b \in Nat
    PROVE  Min({a, b}) = IF a <= b THEN a ELSE b
<1> DEFINE c == IF a <= b THEN a ELSE b
<1>1. /\ c \in {a, b} /\ \A y \in {a, b} : c <= y
      /\ \A z \in {a, b} : (\A y \in {a, b} : z <= y) => z = c
    OBVIOUS
<1>2. QED
    BY <1>1 DEF Min

\* Every set of naturals that is not empty has a least element.
LEMMA LeastOf ==
    ASSUME NEW S \in SUBSET Nat, S /= {}
    PROVE  \E n \in S : \A m \in S : n <= m
<1> DEFINE R == {ss \in Nat \X Nat : ss[1] < ss[2]}
<1>1. IsWellFoundedOn(R, Nat)
    BY NatLessThanWellFounded DEF OpToRel
<1>2. PICK n \in S : \A m \in S : <<m, n>> \notin R
    BY <1>1, WFMin
<1>3. \A m \in S : ~(m < n)
    BY <1>2
<1>4. QED
    BY <1>3

\* A sequence that never repeats is as long as the set of its elements is
\* large.
LEMMA LenIsCardinality ==
    ASSUME NEW T, NEW s \in Seq(T), NEW S,
           \A i \in DOMAIN s : s[i] \in S,
           \A e \in S : \E i \in DOMAIN s : s[i] = e,
           \A i, j \in DOMAIN s : i /= j => s[i] /= s[j]
    PROVE  Cardinality(S) = Len(s)
<1>1. Len(s) \in Nat /\ DOMAIN s = 1 .. Len(s)
    OBVIOUS
<1> DEFINE f == [i \in 1 .. Len(s) |-> s[i]]
<1>2. f \in Bijection(1 .. Len(s), S)
    BY <1>1 DEF Bijection, Injection, Surjection, IsInjective
<1>3. QED
    BY <1>1, <1>2, FS_CountingElements DEF ExistsBijection

\* SetToSeq is a sequence of exactly the set's elements.
LEMMA SetToSeqIs ==
    ASSUME NEW S, IsFiniteSet(S)
    PROVE  /\ SetToSeq(S) \in Seq(S)
           /\ Len(SetToSeq(S)) = Cardinality(S)
           /\ \A e \in S : \E k \in DOMAIN SetToSeq(S) :
                 SetToSeq(S)[k] = e
<1> DEFINE n == Cardinality(S)
           s == SetToSeq(S)
<1>1. PICK f \in Bijection(1 .. n, S) : TRUE
    BY FS_CardinalityType DEF ExistsBijection
<1>2. f \in [1 .. n -> S] /\ IsInjective(f)
    BY <1>1 DEF Bijection, Injection, IsInjective
<1>3. s \in [1 .. n -> S] /\ IsInjective(s)
    BY <1>2 DEF SetToSeq
<1>4. n \in Nat
    BY FS_CardinalityType
<1>5. s \in Seq(S) /\ Len(s) = n
    BY <1>3, <1>4
<1>6. s \in Injection(1 .. n, S)
    BY <1>3 DEF Injection, IsInjective
<1>7. Cardinality(1 .. n) = n
    BY <1>4, FS_Interval
<1>8. s \in Surjection(1 .. n, S)
    BY <1>6, <1>7, FS_Injection
<1>9. \A e \in S : \E k \in DOMAIN s : s[k] = e
    BY <1>3, <1>8 DEF Surjection
<1>10. QED
    BY <1>5, <1>9

-----------------------------------------------------------------------------
(* Players: Roster.                                                        *)

\* The messages are of three kinds.
LEMMA CrewMessages ==
    /\ \A m \in ShipMessages :
          \/ m = Kicked
          \/ \E p \in Players : m = State(p) \/ m = Gone(p)
    /\ Kicked \in ShipMessages
    /\ Kicked.type = "YOU_HAVE_BEEN_KICKED"
    /\ \A p \in Players :
          /\ State(p) \in ShipMessages /\ Gone(p) \in ShipMessages
    /\ \A p :
          /\ State(p).type = "PLAYER_STATE" /\ State(p).id = p
          /\ Gone(p).type = "PLAYER_DISCONNECT" /\ Gone(p).id = p
BY DEF ShipMessages, Kicked, State, Gone

\* A state, a notice of departure and a kick differ, and say of whom they are.
LEMMA CrewKinds ==
    \A p, q :
        /\ Gone(p) /= State(q)
        /\ Kicked /= Gone(p) /\ Kicked /= State(p)
        /\ Gone(p) = Gone(q) => p = q
        /\ State(p) = State(q) => p = q
<1>1. ASSUME NEW p, NEW q
      PROVE  /\ Gone(p) /= State(q)
             /\ Kicked /= Gone(p) /\ Kicked /= State(p)
             /\ Gone(p) = Gone(q) => p = q
             /\ State(p) = State(q) => p = q
    <2>1. /\ State(p).type = "PLAYER_STATE" /\ State(p).id = p
          /\ Gone(p).type = "PLAYER_DISCONNECT" /\ Gone(p).id = p
          /\ State(q).type = "PLAYER_STATE" /\ State(q).id = q
          /\ Gone(q).id = q /\ Kicked.type = "YOU_HAVE_BEEN_KICKED"
        BY CrewMessages
    <2>2. /\ Gone(p) /= State(q)
          /\ Kicked /= Gone(p) /\ Kicked /= State(p)
        BY <2>1
    <2>3. Gone(p) = Gone(q) => p = q
        BY <2>1
    <2>4. State(p) = State(q) => p = q
        BY <2>1
    <2>5. QED
        BY <2>2, <2>3, <2>4
<1>2. QED
    BY <1>1

\* What Post adds is at the end, and all of it unless something was missed.
LEMMA PostAppends ==
    ASSUME RosterTypeOK,
           NEW more \in Seq(ShipMessages), Post(more)
    PROVE  /\ down' \in Seq(ShipMessages) /\ Len(down') <= MaxUnread
           /\ missed' \in BOOLEAN /\ (missed => missed')
           /\ Me \notin known => UNCHANGED <<down, missed>>
           /\ Me \in known /\ ~missed' => down' = down \o more
           /\ \A i \in DOMAIN down' :
                 \/ i \in DOMAIN down /\ down'[i] = down[i]
                 \/ \E j \in DOMAIN more : down'[i] = more[j]
<1> USE DEF RosterTypeOK
<1>1. CASE Me \notin known
    BY <1>1 DEF Post
<1>2. CASE Me \in known
    <2> DEFINE full == down \o more
               n == Min({Len(full), Capacity})
    <2>1. Capacity \in Nat /\ Capacity <= MaxUnread
        BY BoundAssumption DEF Capacity
    <2>2. /\ full \in Seq(ShipMessages) /\ Len(full) = Len(down) + Len(more)
          /\ \A i \in 1 .. Len(full) :
                full[i] = IF i <= Len(down) THEN down[i] ELSE more[i - Len(down)]
        OBVIOUS
    <2>3. n = IF Len(full) <= Capacity THEN Len(full) ELSE Capacity
        <3>1. Len(full) \in Nat
            BY <2>2
        <3> HIDE DEF full
        <3>2. QED
            BY <2>1, <3>1, MinOfTwo
    <2>4. down' = SubSeq(full, 1, n) /\ missed' = (missed \/ Len(full) > Capacity)
        BY <1>2 DEF Post
    <2> HIDE DEF full, n
    <2>5. /\ down' \in Seq(ShipMessages) /\ Len(down') = n
          /\ \A i \in 1 .. n : down'[i] = full[i]
        BY <2>1, <2>2, <2>3, <2>4
    <2>6. ~missed' => down' = full
        <3>1. Len(full) <= Capacity => n = Len(full)
            BY <2>3
        <3>2. ~missed' => ~(Len(full) > Capacity)
            BY <2>4
        <3>3. ~missed' => Len(full) <= Capacity
            BY <3>2, <2>1, <2>2
        <3>4. SubSeq(full, 1, Len(full)) = full
            BY <2>2, SubSeqFull
        <3>5. QED
            BY <2>4, <3>1, <3>3, <3>4
    <2>7. ASSUME NEW i \in DOMAIN down'
          PROVE  \/ i \in DOMAIN down /\ down'[i] = down[i]
                 \/ \E j \in DOMAIN more : down'[i] = more[j]
        <3>1. i \in 1 .. Len(full) /\ down'[i] = full[i]
            BY <2>1, <2>2, <2>3, <2>5
        <3>2. CASE i <= Len(down)
            BY <2>2, <3>1, <3>2
        <3>3. CASE ~(i <= Len(down))
            <4>1. i - Len(down) \in 1 .. Len(more)
                BY <2>2, <3>1, <3>3
            <4>2. down'[i] = more[i - Len(down)] /\ i - Len(down) \in DOMAIN more
                BY <2>2, <3>1, <3>3, <4>1
            <4>3. QED
                BY <4>2
        <3>4. QED
            BY <3>2, <3>3
    <2>8. Len(down') <= MaxUnread
        <3>1. /\ Len(full) \in Nat /\ Capacity \in Nat /\ MaxUnread \in Nat
              /\ Capacity <= MaxUnread
            BY <2>1, <2>2, BoundAssumption
        <3>2. n <= MaxUnread
            BY <2>3, <3>1
        <3>3. QED
            BY <2>5, <3>2
    <2>9. missed' \in BOOLEAN /\ (missed => missed')
        BY <2>4
    <2>10. Me \in known /\ ~missed' => down' = down \o more
        BY <2>6 DEF full
    <2>11. QED
        BY <1>2, <2>5, <2>7, <2>8, <2>9, <2>10
<1>3. QED
    BY <1>1, <1>2

\* A broadcast has one state for each player the server has the address of.
LEMMA CrewBroadcast ==
    ASSUME RosterTypeOK
    PROVE  LET more == SetToSeq({State(p) : p \in known})
           IN  /\ more \in Seq(ShipMessages)
               /\ \A j \in DOMAIN more : \E p \in known : more[j] = State(p)
<1> DEFINE S == {State(p) : p \in known}
<1>1. IsFiniteSet(Others)
    BY PlayersAssumption
<1>2. IsFiniteSet(known)
    BY <1>1, FS_AddElement, FS_Subset DEF RosterTypeOK, Players
<1>3. IsFiniteSet(S)
    <2> DEFINE f == [p \in known |-> State(p)]
    <2>1. f \in Surjection(known, S)
        BY DEF Surjection
    <2>2. QED
        BY <1>2, <2>1, FS_Surjection
<1>4. SetToSeq(S) \in Seq(S)
    BY <1>3, SetToSeqIs
<1>5. S \subseteq ShipMessages
    BY CrewMessages DEF RosterTypeOK
<1> DEFINE more == SetToSeq(S)
<1>6. more \in Seq(ShipMessages) /\ \A j \in DOMAIN more : more[j] \in S
    <2> HIDE DEF S
    <2>1. QED
        BY <1>4, <1>5
<1>7. QED
    BY <1>6

\* Every step keeps the types: nothing is queued beyond the bound, and whoever
\* is known is present.
LEMMA CrewTypes ==
    ASSUME RosterTypeOK,
           [RosterNext]_(rosterVars)
    PROVE  RosterTypeOK'
<1> USE DEF RosterTypeOK
<1>1. CASE BroadcastGameState
    BY <1>1, CrewBroadcast, PostAppends
       DEF BroadcastGameState, listVars, screenVars
<1>2. ASSUME NEW c \in Players, NEW i \in DOMAIN up[c], Handle(c, i)
      PROVE  RosterTypeOK'
    <2>1. up' \in [Players -> Seq({"PLAYER_INPUT", "PLAYER_DISCONNECT"})]
        BY <1>2, RemovalIs DEF Handle
    <2>2. /\ network' = network /\ reading' = reading /\ status' = status
          /\ ships' = ships /\ over' = over
        BY <1>2 DEF Handle, screenVars
    <2>3. /\ known' \subseteq present' /\ present' \subseteq present
          /\ silent' = silent
        BY <1>2 DEF Handle, DisconnectPlayer, Erase, listVars
    <2>4. (UNCHANGED <<down, missed>>) \/ Post(<<Gone(c)>>)
        BY <1>2 DEF Handle, DisconnectPlayer, listVars
    <2>5. <<Gone(c)>> \in Seq(ShipMessages)
        BY CrewMessages
    <2>6. down' \in Seq(ShipMessages) /\ Len(down') <= MaxUnread /\ missed' \in BOOLEAN
        BY <2>4, <2>5, PostAppends
    <2>7. QED
        BY <2>1, <2>2, <2>3, <2>6
<1>3. ASSUME NEW c \in Players, Kick(c)
      PROVE  RosterTypeOK'
    <2>1. (IF c = Me THEN <<Kicked>> ELSE <<Gone(c)>>) \in Seq(ShipMessages)
        BY CrewMessages
    <2>2. QED
        BY <1>3, <2>1, PostAppends DEF Kick, Erase, screenVars
<1>4. ASSUME NEW c \in Players, SessionEnds(c)
      PROVE  RosterTypeOK'
    BY <1>4 DEF SessionEnds, Erase, screenVars
<1>5. CASE Tick
    <2>1. up' \in [Players -> Seq({"PLAYER_INPUT", "PLAYER_DISCONNECT"})]
        <3>1. CASE UNCHANGED up
            BY <3>1
        <3>2. ASSUME NEW next \in {"PLAYING", "PAUSED", "GAME_OVER"},
                     NEW chatting \in BOOLEAN, Play(next, chatting)
              PROVE  up' \in [Players -> Seq({"PLAYER_INPUT", "PLAYER_DISCONNECT"})]
            <4> DEFINE leave == IF next = "GAME_OVER" THEN <<"PLAYER_DISCONNECT">>
                                                     ELSE << >>
                       input == IF chatting \/ Me \in known \/ up[Me] /= << >>
                                THEN << >> ELSE <<"PLAYER_INPUT">>
            <4>1. /\ leave \in Seq({"PLAYER_INPUT", "PLAYER_DISCONNECT"})
                  /\ input \in Seq({"PLAYER_INPUT", "PLAYER_DISCONNECT"})
                <5>1. /\ << >> \in Seq({"PLAYER_INPUT", "PLAYER_DISCONNECT"})
                      /\ <<"PLAYER_DISCONNECT">> \in Seq({"PLAYER_INPUT", "PLAYER_DISCONNECT"})
                      /\ <<"PLAYER_INPUT">> \in Seq({"PLAYER_INPUT", "PLAYER_DISCONNECT"})
                    OBVIOUS
                <5>2. QED
                    BY <5>1
            <4>2. up' = [up EXCEPT ![Me] = @ \o leave \o input]
                BY <3>2 DEF Play
            <4> HIDE DEF leave, input
            <4>3. up[Me] \o leave \o input \in Seq({"PLAYER_INPUT", "PLAYER_DISCONNECT"})
                BY <4>1, ConcatIs DEF Players
            <4>4. QED
                BY <4>2, <4>3
        <3>3. QED
            BY <1>5, <3>1, <3>2 DEF Tick, Watch
    <2>2. status' \in Statuses /\ ships' \subseteq ships /\ reading' = TRUE
        BY <1>5 DEF Tick, Play, Watch, Statuses
    <2>3. QED
        BY <1>5, <2>1, <2>2 DEF Tick, listVars
<1>6. CASE Update
    <2>1. Head(down) \in ShipMessages /\ Tail(down) \in Seq(ShipMessages)
          /\ Len(Tail(down)) = Len(down) - 1
        BY <1>6 DEF Update
    <2>2. status' \in Statuses /\ ships' \subseteq Players
        <3>1. CASE Head(down) = Kicked
            BY <1>6, <3>1, CrewMessages
               DEF Update, ReadMessage, Statuses
        <3>2. ASSUME NEW p \in Players,
                     Head(down) = State(p) \/ Head(down) = Gone(p)
              PROVE  status' \in Statuses /\ ships' \subseteq Players
            BY <1>6, <3>2, CrewMessages
               DEF Update, ReadMessage, Statuses
        <3>3. QED
            BY <2>1, <3>1, <3>2, CrewMessages
    <2>3. down' \in Seq(ShipMessages) /\ Len(down') <= MaxUnread
        BY <1>6, <2>1, BoundAssumption DEF Update
    <2>4. QED
        BY <1>6, <2>2, <2>3 DEF Update, listVars
<1>7. CASE FrameEnds \/ Menu
    BY <1>7 DEF FrameEnds, Menu, Statuses, listVars
<1>8. ASSUME NEW c \in Players,
             up' = [up EXCEPT ![c] = Append(@, "PLAYER_DISCONNECT")]
      PROVE  up' \in [Players -> Seq({"PLAYER_INPUT", "PLAYER_DISCONNECT"})]
    <2>1. Append(up[c], "PLAYER_DISCONNECT") \in Seq({"PLAYER_INPUT", "PLAYER_DISCONNECT"})
        OBVIOUS
    <2>2. QED
        BY <1>8, <2>1
<1>12. CASE Quit \/ \E p \in Others : OtherIsOver(p)
    <2>1. Me \in Players /\ Others \subseteq Players
        BY DEF Players
    <2>2. up' \in [Players -> Seq({"PLAYER_INPUT", "PLAYER_DISCONNECT"})]
        BY <1>8, <1>12, <2>1 DEF Quit, OtherIsOver
    <2>3. QED
        BY <1>12, <2>2 DEF Quit, OtherIsOver, Statuses,
           listVars, screenVars
<1>9. CASE LoseAny
    <2>1. /\ up' \in [Players -> Seq({"PLAYER_INPUT", "PLAYER_DISCONNECT"})]
          /\ down' \in Seq(ShipMessages) /\ Len(down') <= MaxUnread
        <3>1. CASE UNCHANGED up /\ \E i \in DOMAIN down : down' = RemoveAt(down, i)
            <4>1. PICK i \in DOMAIN down : down' = RemoveAt(down, i)
                BY <3>1
            <4>2. down' \in Seq(ShipMessages) /\ Len(down') = Len(down) - 1
                BY <4>1, RemovalIs
            <4>3. QED
                BY <3>1, <4>2, BoundAssumption
        <3>2. CASE /\ UNCHANGED down
                   /\ \E c \in Players : \E i \in DOMAIN up[c] :
                         up' = [up EXCEPT ![c] = RemoveAt(@, i)]
            BY <3>2, RemovalIs
        <3>3. QED
            BY <1>9, <3>1, <3>2 DEF LoseAny
    <2>2. QED
        BY <1>9, <2>1 DEF LoseAny, listVars, screenVars
<1>10. CASE Overtake
    <2>1. PICK i \in DOMAIN down : down' = <<down[i]>> \o RemoveAt(down, i)
        BY <1>10 DEF Overtake
    <2>2. /\ <<down[i]>> \in Seq(ShipMessages) /\ Len(<<down[i]>>) = 1
          /\ RemoveAt(down, i) \in Seq(ShipMessages)
          /\ Len(RemoveAt(down, i)) = Len(down) - 1
        BY RemovalIs
    <2>3. down' \in Seq(ShipMessages) /\ Len(down') <= MaxUnread
        BY <2>1, <2>2, ConcatIs
    <2>4. QED
        BY <1>10, <2>3 DEF Overtake, listVars, screenVars
<1>11. CASE UNCHANGED rosterVars
    BY <1>11 DEF rosterVars, listVars, screenVars
<1>13. QED
    BY <1>1, <1>2, <1>3, <1>4, <1>5, <1>6, <1>7, <1>9, <1>10, <1>11,
       <1>12 DEF RosterNext

\* A client that the server has not heard of has been sent nothing.
UnknownSeesNothing == Me \in present \ known => down = << >> /\ ships = {}

\* A notice is of a player that has left, and nobody comes back.
NoticesAreTrue ==
    \A i \in DOMAIN down, p \in Players :
        down[i] = Gone(p) => p \notin present

\* Whoever has left with notice is off the screen for good once what is
\* under way has been read: the notice is behind all states of that ship.
GhostsAreNoticed ==
    network = "perfect" /\ Me \in known /\ ~missed =>
        \A p \in Players \ (present \cup silent) :
            /\ p \in ships => \E i \in DOMAIN down : down[i] = Gone(p)
            /\ \A i \in DOMAIN down : down[i] = State(p) =>
                  \E j \in DOMAIN down : j > i /\ down[j] = Gone(p)

CrewInv == RosterTypeOK /\ UnknownSeesNothing /\ NoticesAreTrue /\ GhostsAreNoticed

\* Steps that send nothing and read nothing.
LEMMA CrewFrame ==
    ASSUME CrewInv, UNCHANGED <<network, known, down, missed>>,
           present' \subseteq present, ships' \subseteq ships,
           present \cup silent \subseteq present' \cup silent'
    PROVE  UnknownSeesNothing' /\ NoticesAreTrue' /\ GhostsAreNoticed'
<1>1. UnknownSeesNothing'
    BY DEF CrewInv, UnknownSeesNothing
<1>2. NoticesAreTrue'
    BY DEF CrewInv, NoticesAreTrue
<1>3. GhostsAreNoticed'
    BY DEF CrewInv, GhostsAreNoticed
<1>4. QED
    BY <1>1, <1>2, <1>3

\* Somebody is erased, and the others are told.
LEMMA CrewDeparture ==
    ASSUME CrewInv, NEW c \in present, Erase(c),
           UNCHANGED <<network, silent, ships>>,
           \/ c = Me /\ UNCHANGED <<down, missed>>
           \/ c = Me /\ Post(<<Kicked>>)
           \/ c /= Me /\ Post(<<Gone(c)>>)
    PROVE  UnknownSeesNothing' /\ NoticesAreTrue' /\ GhostsAreNoticed'
<1> DEFINE more == IF c = Me THEN <<Kicked>> ELSE <<Gone(c)>>
<1>1. RosterTypeOK /\ c \in Players
    BY DEF CrewInv, RosterTypeOK
<1>2. /\ present' = present \ {c} /\ known' = known \ {c}
      /\ known \subseteq present
    BY <1>1 DEF Erase, RosterTypeOK
<1>3. more \in Seq(ShipMessages) /\ Len(more) = 1
    BY <1>1, CrewMessages
<1>4. more[1] = IF c = Me THEN Kicked ELSE Gone(c)
    OBVIOUS
<1> HIDE DEF more
<1>5. (c = Me /\ UNCHANGED <<down, missed>>) \/ Post(more)
    BY DEF more
<1>6. /\ missed => missed'
      /\ Me \notin known => UNCHANGED down
      /\ Me \in known' /\ ~missed' => down' = down \o more
      /\ \A i \in DOMAIN down' :
            (i \in DOMAIN down /\ down'[i] = down[i]) \/ down'[i] = more[1]
    <2>1. CASE c = Me /\ UNCHANGED <<down, missed>>
        BY <1>2, <2>1
    <2>2. CASE Post(more)
        BY <1>1, <1>2, <1>3, <2>2, PostAppends
    <2>3. QED
        BY <1>5, <2>1, <2>2
<1>7. UnknownSeesNothing'
    BY <1>2, <1>6 DEF CrewInv, UnknownSeesNothing
<1>8. NoticesAreTrue'
    <2> SUFFICES ASSUME NEW i \in DOMAIN down', NEW p \in Players,
                        down'[i] = Gone(p)
                 PROVE  p \notin present'
        BY DEF NoticesAreTrue
    <2>1. CASE i \in DOMAIN down /\ down'[i] = down[i]
        BY <1>2, <2>1 DEF CrewInv, NoticesAreTrue
    <2>2. CASE down'[i] = more[1]
        <3>1. p = c
            BY <1>4, <2>2, CrewKinds
        <3>2. QED
            BY <1>2, <3>1
    <2>3. QED
        BY <1>6, <2>1, <2>2
<1>9. GhostsAreNoticed'
    <2> SUFFICES ASSUME network' = "perfect", Me \in known', ~missed',
                        NEW p \in Players \ (present' \cup silent')
                 PROVE  /\ p \in ships' =>
                              \E i \in DOMAIN down' : down'[i] = Gone(p)
                        /\ \A i \in DOMAIN down' : down'[i] = State(p) =>
                              \E j \in DOMAIN down' : j > i /\ down'[j] = Gone(p)
        BY DEF GhostsAreNoticed
    <2>1. /\ Me \in known /\ ~missed /\ c /= Me /\ more[1] = Gone(c)
          /\ down' = down \o more
        BY <1>2, <1>4, <1>6
    <2>2. /\ DOMAIN down = 1 .. Len(down) /\ DOMAIN down' = 1 .. Len(down) + 1
          /\ \A i \in 1 .. Len(down) : down'[i] = down[i]
          /\ down'[Len(down) + 1] = Gone(c)
          /\ Len(down) \in Nat
        <3>1. down \in Seq(ShipMessages) /\ more \in Seq(ShipMessages)
            BY <1>1, <1>3 DEF RosterTypeOK
        <3>2. /\ down \o more \in Seq(ShipMessages)
              /\ Len(down \o more) = Len(down) + Len(more)
              /\ \A j \in 1 .. Len(down) + Len(more) : (down \o more)[j] =
                    IF j <= Len(down) THEN down[j] ELSE more[j - Len(down)]
            BY <3>1, ConcatIs
        <3>3. /\ Len(down) \in Nat /\ DOMAIN down = 1 .. Len(down)
              /\ DOMAIN (down \o more) = 1 .. Len(down \o more)
            BY <3>1, <3>2
        <3>4. Len(down \o more) = Len(down) + 1
              /\ \A j \in 1 .. Len(down) : (down \o more)[j] = down[j]
            BY <1>3, <3>2, <3>3
        <3>5. (down \o more)[Len(down) + 1] = more[1]
            BY <1>3, <3>2, <3>3
        <3>6. QED
            BY <2>1, <3>3, <3>4, <3>5
    <2>3. CASE p = c
        <3>1. Gone(c) /= State(c)
            BY CrewKinds
        <3>2. ASSUME NEW i \in DOMAIN down', down'[i] = State(p)
              PROVE  Len(down) + 1 > i
            BY <2>2, <2>3, <3>1, <3>2
        <3>3. Len(down) + 1 \in DOMAIN down' /\ down'[Len(down) + 1] = Gone(p)
            BY <2>2, <2>3
        <3>4. QED
            BY <3>2, <3>3
    <2>4. CASE p /= c
        <3>1. p \in Players \ (present \cup silent) /\ network = "perfect"
            BY <1>2, <2>4
        <3>2. /\ p \in ships => \E i \in DOMAIN down : down[i] = Gone(p)
              /\ \A i \in DOMAIN down : down[i] = State(p) =>
                    \E j \in DOMAIN down : j > i /\ down[j] = Gone(p)
            BY <2>1, <3>1 DEF CrewInv, GhostsAreNoticed
        <3>3. Gone(c) /= State(p)
            BY CrewKinds
        <3>4. QED
            BY <2>2, <3>2, <3>3
    <2>5. QED
        BY <2>3, <2>4
<1>10. QED
    BY <1>7, <1>8, <1>9

\* Only states of players on the list are sent.
LEMMA CrewBroadcastStep ==
    ASSUME CrewInv,
           BroadcastGameState
    PROVE  UnknownSeesNothing' /\ NoticesAreTrue' /\ GhostsAreNoticed'
<1> DEFINE more == SetToSeq({State(p) : p \in known})
<1>1. /\ RosterTypeOK /\ Me \in known /\ Post(more)
      /\ UNCHANGED <<network, present, known, silent, ships>>
    BY DEF CrewInv, BroadcastGameState, listVars, screenVars
<1>2. /\ more \in Seq(ShipMessages)
      /\ \A j \in DOMAIN more : \E p \in known : more[j] = State(p)
    BY <1>1, CrewBroadcast
<1> HIDE DEF more
<1>3. /\ missed => missed'
      /\ ~missed' => down' = down \o more
      /\ \A i \in DOMAIN down' :
            \/ i \in DOMAIN down /\ down'[i] = down[i]
            \/ \E j \in DOMAIN more : down'[i] = more[j]
    BY <1>1, <1>2, PostAppends
<1>4. \A i \in DOMAIN down' :
          \/ i \in DOMAIN down /\ down'[i] = down[i]
          \/ \E p \in known : down'[i] = State(p)
    BY <1>2, <1>3
<1>5. UnknownSeesNothing'
    BY <1>1 DEF UnknownSeesNothing
<1>6. NoticesAreTrue'
    BY <1>1, <1>4, CrewKinds DEF CrewInv, NoticesAreTrue
<1>7. GhostsAreNoticed'
    <2> SUFFICES ASSUME network' = "perfect", ~missed',
                        NEW p \in Players \ (present \cup silent)
                 PROVE  /\ p \in ships =>
                              \E i \in DOMAIN down' : down'[i] = Gone(p)
                        /\ \A i \in DOMAIN down' : down'[i] = State(p) =>
                              \E j \in DOMAIN down' : j > i /\ down'[j] = Gone(p)
        BY <1>1 DEF GhostsAreNoticed
    <2>1. /\ p \in ships => \E i \in DOMAIN down : down[i] = Gone(p)
          /\ \A i \in DOMAIN down : down[i] = State(p) =>
                \E j \in DOMAIN down : j > i /\ down[j] = Gone(p)
        BY <1>1, <1>3 DEF CrewInv, GhostsAreNoticed
    <2>2. DOMAIN down \subseteq DOMAIN down' /\ \A i \in DOMAIN down : down'[i] = down[i]
        <3>1. down \in Seq(ShipMessages) /\ down' = down \o more
            BY <1>1, <1>3 DEF RosterTypeOK
        <3>2. /\ down \o more \in Seq(ShipMessages)
              /\ Len(down \o more) = Len(down) + Len(more)
              /\ \A j \in 1 .. Len(down) + Len(more) : (down \o more)[j] =
                    IF j <= Len(down) THEN down[j] ELSE more[j - Len(down)]
            BY <1>2, <3>1, ConcatIs
        <3>3. QED
            BY <1>2, <3>1, <3>2
    <2>3. \A i \in DOMAIN down' : down'[i] = State(p) => i \in DOMAIN down
        BY <1>1, <1>4, CrewKinds DEF RosterTypeOK
    <2>4. QED
        BY <2>1, <2>2, <2>3
<1>8. QED
    BY <1>5, <1>6, <1>7

\* A datagram from a client is handled.
LEMMA CrewHandleStep ==
    ASSUME CrewInv, NEW c \in Players,
           NEW i \in DOMAIN up[c], Handle(c, i)
    PROVE  UnknownSeesNothing' /\ NoticesAreTrue' /\ GhostsAreNoticed'
<1>1. UNCHANGED <<network, ships>>
    BY DEF Handle, screenVars
<1>2. CASE UNCHANGED <<present, known, silent, down, missed>>
    BY <1>1, <1>2, CrewFrame
<1>3. CASE c \in present /\ DisconnectPlayer(c)
    <2>1. /\ Erase(c) /\ UNCHANGED silent
          /\ (c = Me /\ UNCHANGED <<down, missed>>)
             \/ (c /= Me /\ Post(<<Gone(c)>>))
        BY <1>3 DEF DisconnectPlayer
    <2>2. QED
        BY <1>1, <1>3, <2>1, CrewDeparture
<1>4. CASE /\ c \in present /\ known' = known \cup {c}
           /\ UNCHANGED <<present, silent, down, missed>>
    <2>1. CASE Me \in known' /\ Me \notin known
        <3>1. Me \in present /\ down = << >> /\ ships = {}
            BY <1>4, <2>1 DEF CrewInv, UnknownSeesNothing
        <3>2. DOMAIN down' = {} /\ ships' = {}
            BY <1>1, <1>4, <3>1
        <3>3. QED
            BY <1>1, <1>4, <2>1, <3>2
               DEF UnknownSeesNothing, NoticesAreTrue, GhostsAreNoticed
    <2>2. CASE Me \in known' <=> Me \in known
        BY <1>1, <1>4, <2>2
           DEF CrewInv, UnknownSeesNothing, NoticesAreTrue, GhostsAreNoticed
    <2>3. QED
        BY <1>4, <2>1, <2>2
<1>5. QED
    BY <1>2, <1>3, <1>4 DEF Handle, listVars

\* The client reads a message.
LEMMA CrewUpdateStep ==
    ASSUME CrewInv, Update
    PROVE  /\ UnknownSeesNothing' /\ NoticesAreTrue' /\ GhostsAreNoticed'
           /\ \A p \in ships \ ships' : p \notin present
<1>1. /\ down \in Seq(ShipMessages) /\ down /= << >>
      /\ down' = Tail(down) /\ ReadMessage(down[1])
      /\ UNCHANGED <<network, present, known, silent, missed>>
      /\ ships \subseteq Players
    BY DEF CrewInv, RosterTypeOK, Update, listVars
<1>2. /\ Len(down) \in Nat \ {0} /\ DOMAIN down = 1 .. Len(down)
      /\ 1 \in DOMAIN down /\ DOMAIN down' = 1 .. Len(down) - 1
      /\ \A i \in DOMAIN down' : down'[i] = down[i + 1]
    BY <1>1
<1>3. \A p \in Players :
          /\ p \in ships \ ships' => down[1] = Gone(p)
          /\ p \in ships' => (p \in ships \/ down[1] = State(p))
          /\ p \in ships' => down[1] /= Gone(p)
    <2> SUFFICES ASSUME NEW p \in Players
                 PROVE  /\ p \in ships \ ships' => down[1] = Gone(p)
                        /\ p \in ships' => (p \in ships \/ down[1] = State(p))
                        /\ p \in ships' => down[1] /= Gone(p)
        OBVIOUS
    <2>1. down[1] \in ShipMessages
        BY <1>1, <1>2
    <2>2. CASE down[1] = Kicked
        <3>1. ships' = ships
            BY <1>1, <2>2, CrewMessages DEF ReadMessage
        <3>2. QED
            BY <2>2, <3>1, CrewKinds
    <2>3. ASSUME NEW q \in Players, down[1] = State(q)
          PROVE  /\ p \in ships \ ships' => down[1] = Gone(p)
                 /\ p \in ships' => (p \in ships \/ down[1] = State(p))
                 /\ p \in ships' => down[1] /= Gone(p)
        <3>1. ships' = ships \/ ships' = ships \cup {q}
            BY <1>1, <2>3, CrewMessages DEF ReadMessage
        <3>2. QED
            BY <2>3, <3>1, CrewKinds
    <2>4. ASSUME NEW q \in Players, down[1] = Gone(q)
          PROVE  /\ p \in ships \ ships' => down[1] = Gone(p)
                 /\ p \in ships' => (p \in ships \/ down[1] = State(p))
                 /\ p \in ships' => down[1] /= Gone(p)
        <3>1. ships' = ships \ {q}
            BY <1>1, <2>4, CrewMessages DEF ReadMessage
        <3>2. QED
            BY <2>4, <3>1, CrewKinds
    <2>5. QED
        BY <2>1, <2>2, <2>3, <2>4, CrewMessages
<1>4. \A p \in ships \ ships' : p \notin present
    BY <1>1, <1>2, <1>3 DEF CrewInv, NoticesAreTrue
<1>5. UnknownSeesNothing'
    BY <1>1 DEF CrewInv, UnknownSeesNothing
<1>6. NoticesAreTrue'
    BY <1>1, <1>2 DEF CrewInv, NoticesAreTrue
<1>7. GhostsAreNoticed'
    <2> SUFFICES ASSUME network = "perfect", Me \in known, ~missed,
                        NEW p \in Players \ (present \cup silent)
                 PROVE  /\ p \in ships' =>
                              \E i \in DOMAIN down' : down'[i] = Gone(p)
                        /\ \A i \in DOMAIN down' : down'[i] = State(p) =>
                              \E j \in DOMAIN down' : j > i /\ down'[j] = Gone(p)
        BY <1>1 DEF GhostsAreNoticed
    <2>1. /\ p \in ships => \E i \in DOMAIN down : down[i] = Gone(p)
          /\ \A i \in DOMAIN down : down[i] = State(p) =>
                \E j \in DOMAIN down : j > i /\ down[j] = Gone(p)
        BY DEF CrewInv, GhostsAreNoticed
    <2>2. ASSUME p \in ships'
          PROVE  \E i \in DOMAIN down' : down'[i] = Gone(p)
        <3>1. PICK k \in DOMAIN down : k > 1 /\ down[k] = Gone(p)
            BY <1>2, <1>3, <2>1, <2>2
        <3>2. k - 1 \in DOMAIN down' /\ down'[k - 1] = Gone(p)
            BY <1>2, <3>1
        <3>3. QED
            BY <3>2
    <2>3. ASSUME NEW i \in DOMAIN down', down'[i] = State(p)
          PROVE  \E j \in DOMAIN down' : j > i /\ down'[j] = Gone(p)
        <3>1. i + 1 \in DOMAIN down /\ down[i + 1] = State(p)
            BY <1>2, <2>3
        <3>2. PICK k \in DOMAIN down : k > i + 1 /\ down[k] = Gone(p)
            BY <2>1, <3>1
        <3>3. k - 1 \in DOMAIN down' /\ k - 1 > i /\ down'[k - 1] = Gone(p)
            BY <1>2, <3>2
        <3>4. QED
            BY <3>3
    <2>4. QED
        BY <2>2, <2>3
<1>8. QED
    BY <1>4, <1>5, <1>6, <1>7

\* The network loses a message or lets one overtake the others.
LEMMA CrewNetworkStep ==
    ASSUME CrewInv, LoseAny \/ Overtake
    PROVE  UnknownSeesNothing' /\ NoticesAreTrue' /\ GhostsAreNoticed'
<1>1. /\ network = "lossy" /\ UNCHANGED <<network, present, known, silent, ships>>
      /\ down \in Seq(ShipMessages)
    BY DEF CrewInv, RosterTypeOK, LoseAny, Overtake, listVars,
           screenVars
<1>2. \/ down' = down
      \/ /\ down /= << >>
         /\ \A j \in DOMAIN down' : \E k \in DOMAIN down : down'[j] = down[k]
    <2>1. ASSUME NEW i \in DOMAIN down, down' = RemoveAt(down, i)
          PROVE  /\ down /= << >>
                 /\ \A j \in DOMAIN down' : \E k \in DOMAIN down : down'[j] = down[k]
        BY <1>1, <2>1, RemovalIs
    <2>2. ASSUME NEW i \in DOMAIN down, down' = <<down[i]>> \o RemoveAt(down, i)
          PROVE  /\ down /= << >>
                 /\ \A j \in DOMAIN down' : \E k \in DOMAIN down : down'[j] = down[k]
        <3> DEFINE rest == RemoveAt(down, i)
                   first == <<down[i]>>
        <3>1. /\ rest \in Seq(ShipMessages)
              /\ \A j \in DOMAIN rest : \E k \in DOMAIN down : rest[j] = down[k]
            BY <1>1, RemovalIs
        <3>2. first \in Seq(ShipMessages) /\ Len(first) = 1 /\ first[1] = down[i]
            BY <1>1
        <3> HIDE DEF rest, first
        <3>3. /\ first \o rest \in Seq(ShipMessages)
              /\ Len(first \o rest) = Len(first) + Len(rest)
              /\ \A j \in 1 .. Len(first) + Len(rest) : (first \o rest)[j] =
                    IF j <= Len(first) THEN first[j] ELSE rest[j - Len(first)]
            BY <3>1, <3>2, ConcatIs
        <3>4. down' = first \o rest
            BY <2>2 DEF first, rest
        <3>5. \A j \in DOMAIN down' : \E k \in DOMAIN down : down'[j] = down[k]
            <4> SUFFICES ASSUME NEW j \in DOMAIN down'
                         PROVE  \E k \in DOMAIN down : down'[j] = down[k]
                OBVIOUS
            <4>1. Len(rest) \in Nat /\ DOMAIN rest = 1 .. Len(rest)
                BY <3>1
            <4>2. j \in 1 .. 1 + Len(rest)
                BY <3>2, <3>3, <3>4
            <4>3. down'[j] = IF j <= 1 THEN first[j] ELSE rest[j - 1]
                BY <3>2, <3>3, <3>4, <4>2
            <4>4. CASE j = 1
                BY <3>2, <4>3, <4>4
            <4>5. CASE j > 1
                <5>1. j - 1 \in DOMAIN rest /\ down'[j] = rest[j - 1]
                    BY <4>1, <4>2, <4>3, <4>5
                <5>2. QED
                    BY <3>1, <5>1
            <4>6. QED
                BY <4>1, <4>2, <4>4, <4>5
        <3>6. QED
            BY <1>1, <3>5
    <2>3. QED
        BY <2>1, <2>2 DEF LoseAny, Overtake
<1>3. QED
    BY <1>1, <1>2
       DEF CrewInv, UnknownSeesNothing, NoticesAreTrue, GhostsAreNoticed

\* Every step keeps the invariant, and takes no ship off the screen but that
\* of a player who has left or the dead client's own.
LEMMA CrewStep ==
    ASSUME CrewInv,
           [RosterNext]_(rosterVars)
    PROVE  /\ CrewInv'
           /\ \A p \in ships \ ships' :
                 p \notin present \/ (p = Me /\ status' /= "PLAYING")
<1> DEFINE Kept == UnknownSeesNothing' /\ NoticesAreTrue' /\ GhostsAreNoticed'
<1>1. RosterTypeOK'
    BY CrewTypes DEF CrewInv
<1>2. CASE BroadcastGameState
    BY <1>1, <1>2, CrewBroadcastStep
       DEF CrewInv, BroadcastGameState, screenVars
<1>3. ASSUME NEW c \in Players, NEW i \in DOMAIN up[c], Handle(c, i)
      PROVE  Kept /\ UNCHANGED ships
    BY <1>3, CrewHandleStep DEF Handle, screenVars
<1>4. ASSUME NEW c \in Players, Kick(c)
      PROVE  Kept /\ UNCHANGED ships
    <2>1. /\ c \in present /\ Erase(c) /\ UNCHANGED <<network, silent, ships>>
          /\ \/ c = Me /\ Post(<<Kicked>>)
             \/ c /= Me /\ Post(<<Gone(c)>>)
        BY <1>4 DEF Kick, screenVars
    <2>2. QED
        BY <2>1, CrewDeparture
<1>5. ASSUME NEW c \in Players, SessionEnds(c)
      PROVE  Kept /\ UNCHANGED ships
    <2>1. /\ c \in present /\ present' = present \ {c} /\ known' = known \ {c}
          /\ silent' = silent \cup {c}
          /\ UNCHANGED <<network, down, ships, missed>>
        BY <1>5 DEF SessionEnds, Erase, screenVars
    <2>2. QED
        BY <2>1 DEF CrewInv, UnknownSeesNothing, NoticesAreTrue, GhostsAreNoticed
<1>6. CASE Tick
    <2>1. /\ UNCHANGED <<network, present, known, silent, down, missed>>
          /\ \/ ships' = ships
             \/ ships' = ships \ {Me} /\ status' = "GAME_OVER"
        BY <1>6 DEF Tick, Play, Watch, listVars
    <2>2. Kept
        BY <2>1, CrewFrame
    <2>3. QED
        BY <1>1, <2>1, <2>2 DEF CrewInv
<1>7. CASE Update
    BY <1>1, <1>7, CrewUpdateStep DEF CrewInv
<1>8. CASE FrameEnds \/ Menu \/ Quit \/ \E p \in Others : OtherIsOver(p)
    <2>1. UNCHANGED <<network, present, known, silent, down, ships, missed>>
        BY <1>8 DEF FrameEnds, Menu, Quit, OtherIsOver,
           listVars, screenVars
    <2>2. Kept
        BY <2>1, CrewFrame
    <2>3. QED
        BY <1>1, <2>1, <2>2 DEF CrewInv
<1>9. CASE LoseAny \/ Overtake
    <2>1. ships' = ships
        BY <1>9 DEF LoseAny, Overtake, screenVars
    <2>2. QED
        BY <1>1, <1>9, <2>1, CrewNetworkStep DEF CrewInv
<1>10. CASE UNCHANGED rosterVars
    <2>1. UNCHANGED <<network, present, known, silent, down, ships, missed>>
        BY <1>10 DEF rosterVars, listVars, screenVars
    <2>2. Kept
        BY <2>1, CrewFrame
    <2>3. QED
        BY <1>1, <2>1, <2>2 DEF CrewInv
<1>11. QED
    BY <1>1, <1>2, <1>3, <1>4, <1>5, <1>6, <1>7, <1>8, <1>9, <1>10
       DEF RosterNext, CrewInv

\* The list of players, the channel and the screen (Game::kickPlayer,
\* handlePlayerDisconnect, broadcastGameState, RTypeClient::update) always stand
\* in the relation CrewInv.
THEOREM CrewInvariant ==
    RosterSpec => []CrewInv
<1>1. RosterInit => CrewInv
    <2> SUFFICES ASSUME RosterInit
                 PROVE  CrewInv
        OBVIOUS
    <2>1. RosterTypeOK
        <3>1. down = << >> /\ Len(down) = 0 /\ down \in Seq(ShipMessages)
            BY DEF RosterInit
        <3>2. MaxUnread \in Nat
            BY BoundAssumption
        <3>3. up \in [Players -> Seq({"PLAYER_INPUT", "PLAYER_DISCONNECT"})]
            <4>1. <<"PLAYER_INPUT">> \in Seq({"PLAYER_INPUT", "PLAYER_DISCONNECT"})
                OBVIOUS
            <4>2. QED
                BY <4>1 DEF RosterInit
        <3>4. Len(down) <= MaxUnread
            BY <3>1, <3>2
        <3>5. /\ network \in Networks /\ known \subseteq present
              /\ present \subseteq Players /\ ships \subseteq Players
              /\ over \subseteq Others /\ silent \subseteq Players \ present
            BY DEF RosterInit
        <3>6. reading \in BOOLEAN /\ status \in Statuses /\ missed \in BOOLEAN
            BY DEF RosterInit, Statuses
        <3>7. QED
            BY <3>1, <3>3, <3>4, <3>5, <3>6 DEF RosterTypeOK
    <2>2. DOMAIN down = {} /\ down = << >> /\ ships = {}
        BY DEF RosterInit
    <2>3. QED
        BY <2>1, <2>2
           DEF CrewInv, UnknownSeesNothing, NoticesAreTrue, GhostsAreNoticed
<1>2. CrewInv /\ [RosterNext]_(rosterVars) => CrewInv'
    BY CrewStep
<1>3. QED
    BY <1>1, <1>2, PTL DEF RosterSpec

\* Type correctness of Roster: a player whose address the server has is on its
\* list, one whose session ended without a notice is not.
THEOREM RosterTypes ==
    RosterSpec => []RosterTypeOK
<1>1. CrewInv => RosterTypeOK
    BY DEF CrewInv
<1>2. QED
    BY <1>1, CrewInvariant, PTL

\* Over a perfect network, a client that has read all there is has no ship on
\* its screen of a player that left with notice: the one PLAYER_DISCONNECT, sent
\* once, is behind every state of that ship.
THEOREM GhostsVanish ==
    RosterSpec => []NoGhostShips
<1>1. CrewInv => NoGhostShips
    <2> SUFFICES ASSUME CrewInv, network = "perfect", Me \in known, down = << >>,
                        ~missed, NEW p \in ships, p \notin present \cup silent
                 PROVE  FALSE
        BY DEF NoGhostShips
    <2>1. p \in Players \ (present \cup silent) /\ DOMAIN down = {}
        BY DEF CrewInv, RosterTypeOK
    <2>2. QED
        BY <2>1 DEF CrewInv, GhostsAreNoticed
<1>2. QED
    BY <1>1, CrewInvariant, PTL

\* On any network, RTypeClient::update takes a ship off the screen only when its
\* player has left the server's list, or it is the client's own and the client
\* has stopped playing.
THEOREM ShipsVanishRightly ==
    RosterSpec => ShipsVanishOnlyWhenGone
<1>1. CrewInv /\ [RosterNext]_(rosterVars) =>
          [\A p \in ships \ ships' :
              p \notin present \/ (p = Me /\ status' /= "PLAYING")]_(rosterVars)
    BY CrewStep
<1>2. QED
    BY <1>1, CrewInvariant, PTL DEF RosterSpec, ShipsVanishOnlyWhenGone

-----------------------------------------------------------------------------
(* Ships: PlayerSync.                                                      *)

\* What is sent is at the end, or dropped.
LEMMA ShipSent ==
    ASSUME NEW T, NEW s \in Seq(T), NEW m \in T, MaxInFlight \in Nat,
           Len(s) <= MaxInFlight
    PROVE  /\ Sent(s, m) \in Seq(T) /\ Len(Sent(s, m)) <= MaxInFlight
           /\ Len(s) < MaxInFlight =>
                 /\ Len(Sent(s, m)) = Len(s) + 1
                 /\ Sent(s, m)[Len(s) + 1] = m
                 /\ \A i \in 1 .. Len(s) : Sent(s, m)[i] = s[i]
BY DEF Sent

\* The moves that are popped from the front are there to be popped.
LEMMA AckedExists ==
    ASSUME MaxTick \in Nat, NEW ack \in Nat, pending \in Seq(Ticks)
    PROVE  /\ Acked(ack) \in 0 .. Len(pending)
           /\ \A i \in 1 .. Acked(ack) : pending[i] <= ack
           /\ Acked(ack) < Len(pending) => pending[Acked(ack) + 1] > ack
<1> DEFINE S == {n \in Nat : n >= Len(pending) \/ ~(pending[n + 1] <= ack)}
<1>1. Len(pending) \in S /\ S \in SUBSET Nat
    OBVIOUS
<1>2. PICK n \in S : \A m \in S : n <= m
    BY <1>1, LeastOf
<1>3. n \in 0 .. Len(pending) /\ n \in Nat
    BY <1>1, <1>2
<1>4. \A i \in 1 .. n : pending[i] <= ack
    <2> SUFFICES ASSUME NEW i \in 1 .. n
                 PROVE  pending[i] <= ack
        OBVIOUS
    <2>1. i - 1 \in Nat /\ i - 1 < n
        BY <1>3
    <2>2. i - 1 \notin S
        <3> HIDE DEF S
        <3>1. ASSUME i - 1 \in S
              PROVE  FALSE
            BY <1>2, <1>3, <2>1, <3>1
        <3>2. QED
            BY <3>1
    <2>3. QED
        BY <2>1, <2>2
<1>5. n < Len(pending) => pending[n + 1] > ack
    <2> SUFFICES ASSUME n < Len(pending)
                 PROVE  pending[n + 1] > ack
        OBVIOUS
    <2>1. pending[n + 1] \in Nat
        BY <1>3 DEF Ticks
    <2>2. QED
        BY <1>2, <1>3, <2>1
<1>6. QED
    BY <1>3, <1>4, <1>5 DEF Acked

\* The moves in pending are in order: what the state does not know of is
\* the rest.
LEMMA UnackedIs ==
    ASSUME MaxTick \in Nat, NEW ack \in Nat, pending \in Seq(Ticks)
    PROVE  /\ Unacked(ack) \in Seq(Ticks)
           /\ (\A i, j \in DOMAIN pending : i < j => pending[i] < pending[j]) =>
              /\ \A i \in DOMAIN Unacked(ack) :
                    /\ Unacked(ack)[i] > ack
                    /\ \E k \in DOMAIN pending : Unacked(ack)[i] = pending[k]
              /\ \A i, j \in DOMAIN Unacked(ack) :
                    i < j => Unacked(ack)[i] < Unacked(ack)[j]
              /\ \A k \in DOMAIN pending : pending[k] > ack =>
                    \E i \in DOMAIN Unacked(ack) : Unacked(ack)[i] = pending[k]
<1> DEFINE n == Acked(ack)
           u == Unacked(ack)
<1>1. /\ n \in 0 .. Len(pending) /\ \A i \in 1 .. n : pending[i] <= ack
      /\ n < Len(pending) => pending[n + 1] > ack
    BY AckedExists
<1>2. u = SubSeq(pending, n + 1, Len(pending))
    BY DEF Unacked
<1> HIDE DEF n, u
<1>3. /\ u \in Seq(Ticks) /\ Len(u) = Len(pending) - n
      /\ DOMAIN u = 1 .. Len(pending) - n
      /\ \A i \in 1 .. Len(pending) - n : u[i] = pending[n + i]
    BY <1>1, <1>2
<1>4. DOMAIN pending = 1 .. Len(pending) /\ \A k \in DOMAIN pending : pending[k] \in Nat
    BY DEF Ticks
<1>5. ASSUME \A i, j \in DOMAIN pending : i < j => pending[i] < pending[j]
      PROVE  /\ \A i \in DOMAIN u : u[i] > ack /\ \E k \in DOMAIN pending : u[i] = pending[k]
             /\ \A i, j \in DOMAIN u : i < j => u[i] < u[j]
             /\ \A k \in DOMAIN pending : pending[k] > ack =>
                   \E i \in DOMAIN u : u[i] = pending[k]
    <2>1. ASSUME NEW i \in DOMAIN u
          PROVE  u[i] > ack /\ \E k \in DOMAIN pending : u[i] = pending[k]
        <3>1. n + i \in DOMAIN pending /\ n + 1 \in DOMAIN pending /\ n < Len(pending)
              /\ u[i] = pending[n + i] /\ n + 1 <= n + i
            BY <1>1, <1>3, <1>4, <2>1
        <3>2. pending[n + 1] <= pending[n + i]
            BY <1>4, <1>5, <3>1
        <3>3. QED
            BY <1>1, <1>4, <3>1, <3>2
    <2>2. ASSUME NEW i \in DOMAIN u, NEW j \in DOMAIN u, i < j
          PROVE  u[i] < u[j]
        <3>1. n + i \in DOMAIN pending /\ n + j \in DOMAIN pending /\ n + i < n + j
              /\ u[i] = pending[n + i] /\ u[j] = pending[n + j]
            BY <1>1, <1>3, <1>4, <2>2
        <3>2. QED
            BY <1>5, <3>1
    <2>3. ASSUME NEW k \in DOMAIN pending, pending[k] > ack
          PROVE  \E i \in DOMAIN u : u[i] = pending[k]
        <3>1. k > n
            BY <1>1, <1>4, <2>3
        <3>2. k - n \in DOMAIN u /\ u[k - n] = pending[k]
            BY <1>1, <1>3, <1>4, <3>1
        <3>3. QED
            BY <3>2
    <2>4. QED
        BY <2>1, <2>2, <2>3
<1>6. QED
    BY <1>3, <1>5 DEF u

\* An input is being handled unless the UDP thread is idle.
BusyHandles == step /= "idle" => handling \in Inputs

\* Every step keeps the types: ticks stay within the bound, the counters of
\* inputs do not go below zero.
LEMMA ShipTypes ==
    ASSUME SyncTypeOK, BusyHandles, [SyncNext]_(syncVars)
    PROVE  SyncTypeOK' /\ BusyHandles'
<1> USE DEF SyncTypeOK, BusyHandles, netVars, handleVars, playerVars,
            clientVars
<1>0. /\ StartTick \in Nat /\ MaxTick \in Nat /\ MaxInFlight \in Nat /\ Unknown \notin Int
      /\ Ticks \subseteq Nat /\ tick \in Ticks
    BY TickAssumption, InFlightAssumption, UnknownAssumption DEF Ticks
<1>1. ASSUME NEW move \in {0, 1}, HandleInput(move)
      PROVE  SyncTypeOK' /\ BusyHandles'
    <2>1. [tick |-> tick, move |-> move] \in Inputs
        BY <1>0 DEF Inputs
    <2>2. inputs' \in Seq(Inputs) /\ Len(inputs') <= MaxInFlight
        BY <1>0, <1>1, <2>1, ShipSent DEF HandleInput
    <2>3. tick' \in StartTick .. MaxTick
        BY <1>0, <1>1 DEF HandleInput
    <2>4. /\ pending' \in Seq(Ticks) /\ clientX' \in Nat \cup {Unknown}
          /\ moved' \in SUBSET Ticks
        <3>1. CASE move = 1
            <4>1. /\ pending' = Append(pending, tick) /\ moved' = moved \cup {tick}
                  /\ clientX' = IF clientX = Unknown THEN Unknown ELSE clientX + 1
                BY <1>1, <3>1 DEF HandleInput
            <4>2. pending' \in Seq(Ticks)
                BY <1>0, <4>1
            <4>3. clientX' \in Nat \cup {Unknown} /\ moved' \in SUBSET Ticks
                BY <1>0, <4>1
            <4>4. QED
                BY <4>2, <4>3
        <3>2. CASE move /= 1
            BY <1>1, <3>2 DEF HandleInput
        <3>3. QED
            BY <3>1, <3>2
    <2>5. QED
        BY <1>1, <2>2, <2>3, <2>4 DEF HandleInput
<1>2. ASSUME NEW i, ReceiveState(i)
      PROVE  SyncTypeOK' /\ BusyHandles'
    <2>1. i \in DOMAIN states /\ states[i] \in PlayerStates
        BY <1>2 DEF ReceiveState
    <2>2. states[i].ack \in Nat /\ states[i].x \in Nat /\ states[i].torn \in BOOLEAN
        BY <1>0, <2>1 DEF PlayerStates
    <2>3. pending' \in Seq(Ticks)
        <3>1. Unacked(states[i].ack) \in Seq(Ticks)
            BY <1>0, <2>2, UnackedIs
        <3>2. QED
            BY <1>2, <3>1 DEF ReceiveState
    <2>4. clientX' \in Nat /\ torn' \in BOOLEAN
        BY <1>2, <2>2, <2>3 DEF ReceiveState
    <2>5. states' \in Seq(PlayerStates) /\ Len(states') <= MaxInFlight
        BY <1>0, <1>2, <2>1, RemovalIs DEF ReceiveState
    <2>6. QED
        BY <1>2, <2>3, <2>4, <2>5 DEF ReceiveState
<1>3. ASSUME NEW i, TakeInput(i)
      PROVE  SyncTypeOK' /\ BusyHandles'
    <2>1. i \in DOMAIN inputs /\ handling' \in Inputs
        BY <1>3 DEF TakeInput
    <2>2. inputs' \in Seq(Inputs) /\ Len(inputs') <= MaxInFlight
        BY <1>0, <1>3, <2>1, RemovalIs DEF TakeInput
    <2>3. QED
        BY <1>3, <2>1, <2>2 DEF TakeInput
<1>4. CASE AccountInput
    <2>1. handling.tick \in Ticks /\ handling.tick \in Nat /\ lastInput \in Nat
        BY <1>0, <1>4 DEF AccountInput, Inputs
    <2>2. /\ firstInput' \in BOOLEAN /\ lastInput' \in Ticks
          /\ received' \in Nat /\ lost' \in Nat
        <3>1. CASE firstInput
            <4>1. /\ received' = 1 /\ firstInput' = FALSE
                  /\ lastInput' = handling.tick /\ lost' = lost
                BY <1>4, <3>1, Zenon DEF AccountInput, Account
            <4>2. QED
                BY <2>1, <4>1
        <3>2. CASE ~firstInput /\ handling.tick > lastInput
            <4>1. /\ lost' = lost + (handling.tick - lastInput - 1)
                  /\ received' = received + 1 /\ lastInput' = handling.tick
                BY <1>4, <3>2 DEF AccountInput, Account
            <4>3. firstInput' = firstInput
                BY <1>4, <3>2 DEF AccountInput, Account
            <4>2. handling.tick - lastInput - 1 \in Nat
                BY <2>1, <3>2
            <4>4. QED
                BY <2>1, <4>1, <4>2, <4>3, SMTT(30)
        <3>3. CASE ~firstInput /\ ~(handling.tick > lastInput)
            BY <1>4, <2>1, <3>3 DEF AccountInput, Account
        <3>4. QED
            BY <3>1, <3>2, <3>3
    <2>3. QED
        BY <1>4, <2>1, <2>2 DEF AccountInput
<1>5. CASE ApplyInput
    <2>1. handling.move \in {0, 1}
        BY <1>5 DEF ApplyInput, Inputs
    <2>2. QED
        BY <1>5, <2>1 DEF ApplyInput
<1>6. CASE BroadcastPlayerState
    <2>1. [ack |-> lastProcessed, x |-> x,
           torn |-> step = "move" /\ handling.move /= 0] \in PlayerStates
        BY DEF PlayerStates
    <2>2. states' \in Seq(PlayerStates) /\ Len(states') <= MaxInFlight
        BY <1>0, <1>6, <2>1, ShipSent DEF BroadcastPlayerState
    <2>3. QED
        BY <1>6, <2>2 DEF BroadcastPlayerState
<1>7. ASSUME NEW i, LoseInput(i)
      PROVE  SyncTypeOK' /\ BusyHandles'
    <2>1. inputs' \in Seq(Inputs) /\ Len(inputs') <= MaxInFlight
        BY <1>0, <1>7, RemovalIs DEF LoseInput
    <2>2. QED
        BY <1>7, <2>1 DEF LoseInput
<1>8. ASSUME NEW i, LoseState(i)
      PROVE  SyncTypeOK' /\ BusyHandles'
    <2>1. states' \in Seq(PlayerStates) /\ Len(states') <= MaxInFlight
        BY <1>0, <1>8, RemovalIs DEF LoseState
    <2>2. QED
        BY <1>8, <2>1 DEF LoseState
<1>9. CASE UNCHANGED syncVars
    BY <1>9 DEF syncVars
<1>10. QED
    BY <1>1, <1>2, <1>3, <1>4, <1>5, <1>6, <1>7, <1>8, <1>9
       DEF SyncNext, HandlePlayerInput

Behind(t) == t < tick \/ tick = MaxTick
MovedBy(ack) == {t \in moved : t <= ack}

\* The inputs under way are in the order of their ticks, and a move has a
\* tick of its own.
InputsInOrder ==
    /\ \A t \in moved : t < tick
    /\ \A i \in DOMAIN inputs :
          /\ Behind(inputs[i].tick)
          /\ inputs[i].move = 1 => inputs[i].tick \in moved
    /\ \A i, j \in DOMAIN inputs : i < j =>
          /\ inputs[i].tick <= inputs[j].tick
          /\ inputs[j].move = 1 => inputs[i].tick < inputs[j].tick

\* What the server has handled is older than what is under way.
HandledFirst ==
    /\ Behind(lastProcessed)
    /\ \A i \in DOMAIN inputs :
          /\ lastProcessed <= inputs[i].tick
          /\ inputs[i].move = 1 => lastProcessed < inputs[i].tick
    /\ step /= "idle" =>
          /\ Behind(handling.tick)
          /\ handling.move = 1 => handling.tick \in moved
          /\ \A i \in DOMAIN inputs :
                /\ handling.tick <= inputs[i].tick
                /\ inputs[i].move = 1 => handling.tick < inputs[i].tick
    /\ step = "account" =>
          /\ lastProcessed <= handling.tick
          /\ handling.move = 1 => lastProcessed < handling.tick

\* Every move is acknowledged, in the server's hands or under way.
NoMoveIsLost ==
    \A t \in moved :
        \/ t <= lastProcessed
        \/ step = "account" /\ handling.tick = t /\ handling.move = 1
        \/ \E i \in DOMAIN inputs : inputs[i].tick = t /\ inputs[i].move = 1

\* The server's ship is where the acknowledged moves take it, but for the
\* one that is being applied.
AcknowledgedIsApplied ==
    x + (IF step = "move" THEN handling.move ELSE 0)
        = Cardinality(MovedBy(lastProcessed))

\* The states under way are in order, and true when not torn.
StatesAreTrue ==
    /\ \A k \in DOMAIN states :
          /\ states[k].ack <= lastProcessed
          /\ states[k].torn \/ states[k].x = Cardinality(MovedBy(states[k].ack))
    /\ \A k, l \in DOMAIN states : k < l => states[k].ack <= states[l].ack

\* The client holds every move that some state under way, or the next one,
\* does not know of.
PendingIsComplete ==
    /\ \A i \in DOMAIN pending : pending[i] \in moved
    /\ \A i, j \in DOMAIN pending : i < j => pending[i] < pending[j]
    /\ \A t \in moved :
          t > lastProcessed \/ (\E k \in DOMAIN states : t > states[k].ack) =>
              \E i \in DOMAIN pending : pending[i] = t

Predicted == clientX /= Unknown /\ ~torn => clientX = Cardinality(moved)

Exact ==
    /\ InputsInOrder /\ HandledFirst /\ NoMoveIsLost /\ AcknowledgedIsApplied
    /\ StatesAreTrue /\ PendingIsComplete /\ Predicted

ShipInv == SyncTypeOK /\ BusyHandles /\ (network = "perfect" => Exact)

\* How the moves are counted.
LEMMA MovesAreFinite ==
    ASSUME SyncTypeOK
    PROVE  /\ moved \subseteq Nat /\ IsFiniteSet(moved)
           /\ \A S \in SUBSET moved : IsFiniteSet(S) /\ Cardinality(S) \in Nat
<1>1. moved \subseteq 0 .. MaxTick /\ MaxTick \in Nat
    BY TickAssumption DEF SyncTypeOK, Ticks
<1>2. IsFiniteSet(0 .. MaxTick)
    BY <1>1, FS_Interval
<1>3. IsFiniteSet(moved)
    BY <1>1, <1>2, FS_Subset
<1>4. ASSUME NEW S \in SUBSET moved
      PROVE  IsFiniteSet(S) /\ Cardinality(S) \in Nat
    BY <1>3, FS_Subset, FS_CardinalityType
<1>5. QED
    BY <1>1, <1>3, <1>4

\* The numbers that the typed variables are.
LEMMA ShipNumbers ==
    ASSUME SyncTypeOK
    PROVE  /\ MaxTick \in Nat /\ tick \in 0 .. MaxTick /\ x \in Nat
           /\ lastProcessed \in 0 .. MaxTick
           /\ Len(inputs) \in Nat /\ DOMAIN inputs = 1 .. Len(inputs)
           /\ \A i \in DOMAIN inputs :
                 inputs[i].tick \in 0 .. MaxTick /\ inputs[i].move \in {0, 1}
           /\ Len(states) \in Nat /\ DOMAIN states = 1 .. Len(states)
           /\ \A k \in DOMAIN states :
                 /\ states[k].ack \in 0 .. MaxTick /\ states[k].x \in Nat
                 /\ states[k].torn \in BOOLEAN
           /\ Len(pending) \in Nat /\ DOMAIN pending = 1 .. Len(pending)
           /\ \A i \in DOMAIN pending : pending[i] \in 0 .. MaxTick
           /\ \A t \in moved : t \in 0 .. MaxTick
<1>1. /\ MaxTick \in Nat /\ tick \in 0 .. MaxTick /\ x \in Nat
      /\ lastProcessed \in 0 .. MaxTick /\ \A t \in moved : t \in 0 .. MaxTick
    BY TickAssumption DEF SyncTypeOK, Ticks
<1>2. /\ Len(inputs) \in Nat /\ DOMAIN inputs = 1 .. Len(inputs)
      /\ \A i \in DOMAIN inputs : inputs[i] \in Inputs
    BY DEF SyncTypeOK
<1>3. /\ Len(states) \in Nat /\ DOMAIN states = 1 .. Len(states)
      /\ \A k \in DOMAIN states : states[k] \in PlayerStates
    BY DEF SyncTypeOK
<1>4. /\ Len(pending) \in Nat /\ DOMAIN pending = 1 .. Len(pending)
      /\ \A i \in DOMAIN pending : pending[i] \in 0 .. MaxTick
    <2>1. /\ Len(pending) \in Nat /\ DOMAIN pending = 1 .. Len(pending)
          /\ \A i \in DOMAIN pending : pending[i] \in Ticks
        BY DEF SyncTypeOK
    <2>2. QED
        BY <2>1 DEF Ticks
<1>5. /\ \A m \in Inputs : m.tick \in 0 .. MaxTick /\ m.move \in {0, 1}
      /\ \A m \in PlayerStates :
            m.ack \in 0 .. MaxTick /\ m.x \in Nat /\ m.torn \in BOOLEAN
    BY DEF Inputs, PlayerStates, Ticks
<1>6. QED
    BY <1>1, <1>2, <1>3, <1>4, <1>5

\* The client sends its input, and predicts.
LEMMA ShipInputStep ==
    ASSUME SyncTypeOK, BusyHandles, network = "perfect", Exact,
           NEW move \in {0, 1}, HandleInput(move)
    PROVE  Exact'
<1> DEFINE n == Len(inputs)
           m == Len(pending)
<1>1. /\ MaxTick \in Nat /\ tick \in 0 .. MaxTick /\ x \in Nat
      /\ lastProcessed \in 0 .. MaxTick
      /\ n \in Nat /\ DOMAIN inputs = 1 .. n
      /\ \A i \in DOMAIN inputs :
            inputs[i].tick \in 0 .. MaxTick /\ inputs[i].move \in {0, 1}
      /\ Len(states) \in Nat /\ DOMAIN states = 1 .. Len(states)
      /\ \A k \in DOMAIN states : states[k].ack \in 0 .. MaxTick
      /\ m \in Nat /\ DOMAIN pending = 1 .. m
      /\ \A i \in DOMAIN pending : pending[i] \in 0 .. MaxTick
      /\ \A t \in moved : t \in 0 .. MaxTick
    BY ShipNumbers
<1>2. step /= "idle" => handling.tick \in 0 .. MaxTick /\ handling.move \in {0, 1}
    BY DEF BusyHandles, Inputs, Ticks
<1>3. /\ UNCHANGED <<torn, states, handling, step, x, lastProcessed>>
      /\ move = 1 => tick < MaxTick
      /\ tick' = IF tick < MaxTick THEN tick + 1 ELSE tick
    BY DEF HandleInput, handleVars, playerVars
<1>4. /\ DOMAIN inputs' = 1 .. n + 1
      /\ \A i \in 1 .. n : inputs'[i] = inputs[i]
      /\ inputs'[n + 1].tick = tick /\ inputs'[n + 1].move = move
    <2>1. /\ Len(inputs) < MaxInFlight /\ MaxInFlight \in Nat
          /\ Len(inputs) <= MaxInFlight
        BY <1>1, InFlightAssumption DEF HandleInput, RoomIn, SyncTypeOK
    <2>2. inputs \in Seq(Inputs) /\ [tick |-> tick, move |-> move] \in Inputs
        BY <1>1 DEF SyncTypeOK, Inputs, Ticks
    <2> DEFINE input == [tick |-> tick, move |-> move]
    <2>3. inputs' = Sent(inputs, input) /\ input.tick = tick /\ input.move = move
        BY DEF HandleInput
    <2>6. input \in Inputs
        BY <2>2
    <2> HIDE DEF input, n, m
    <2>4. /\ inputs' \in Seq(Inputs) /\ Len(inputs') = Len(inputs) + 1
          /\ inputs'[Len(inputs) + 1] = input
          /\ \A i \in 1 .. Len(inputs) : inputs'[i] = inputs[i]
        <3> DEFINE sent == Sent(inputs, input)
        <3>1. /\ sent \in Seq(Inputs) /\ Len(sent) = Len(inputs) + 1
              /\ sent[Len(inputs) + 1] = input
              /\ \A i \in 1 .. Len(inputs) : sent[i] = inputs[i]
            BY <2>1, <2>2, <2>6, ShipSent
        <3>2. inputs' = sent
            BY <2>3
        <3> HIDE DEF sent
        <3>3. QED
            BY <3>1, <3>2
    <2>5. QED
        BY <2>3, <2>4 DEF n
<1>5. moved' = IF move = 1 THEN moved \cup {tick} ELSE moved
    BY DEF HandleInput
<1>6. /\ DOMAIN pending' = IF move = 1 THEN 1 .. m + 1 ELSE 1 .. m
      /\ \A i \in 1 .. m : pending'[i] = pending[i]
      /\ move = 1 => pending'[m + 1] = tick
    <2>1. CASE move = 1
        <3>1. pending' = Append(pending, tick) /\ pending \in Seq(Ticks)
              /\ tick \in Ticks
            BY <1>1, <2>1 DEF HandleInput, SyncTypeOK, Ticks
        <3>2. QED
            BY <2>1, <3>1
    <2>2. CASE move /= 1
        BY <1>1, <2>2 DEF HandleInput
    <2>3. QED
        BY <2>1, <2>2
<1> HIDE DEF n, m
<1>7. /\ InputsInOrder /\ HandledFirst /\ NoMoveIsLost /\ AcknowledgedIsApplied
      /\ StatesAreTrue /\ PendingIsComplete /\ Predicted
    BY DEF Exact
<1>8. \A t \in 0 .. MaxTick : Behind(t) =>
          /\ t < tick' \/ tick' = MaxTick
          /\ t <= tick /\ (move = 1 => t < tick)
    BY <1>1, <1>3 DEF Behind
<1>9. tick < tick' \/ tick' = MaxTick
    BY <1>1, <1>3
<1>10. \A ack \in 0 .. MaxTick : ack <= lastProcessed => MovedBy(ack)' = MovedBy(ack)
    <2> SUFFICES ASSUME NEW ack \in 0 .. MaxTick, ack <= lastProcessed, move = 1
                 PROVE  MovedBy(ack)' = MovedBy(ack)
        BY <1>5 DEF MovedBy
    <2>1. ack < tick
        BY <1>1, <1>7, <1>8 DEF HandledFirst
    <2>2. QED
        BY <1>1, <1>5, <2>1 DEF MovedBy
<1>11. InputsInOrder'
    <2>1. \A t \in moved' : t < tick'
        BY <1>1, <1>3, <1>5, <1>7 DEF InputsInOrder
    <2>2. ASSUME NEW i \in DOMAIN inputs'
          PROVE  /\ inputs'[i].tick < tick' \/ tick' = MaxTick
                 /\ inputs'[i].move = 1 => inputs'[i].tick \in moved'
        <3>1. CASE i \in 1 .. n
            BY <1>1, <1>4, <1>5, <1>7, <1>8, <3>1 DEF InputsInOrder
        <3>2. CASE i = n + 1
            BY <1>4, <1>5, <1>9, <3>2
        <3>3. QED
            BY <1>1, <1>4, <3>1, <3>2
    <2>3. ASSUME NEW i \in DOMAIN inputs', NEW j \in DOMAIN inputs', i < j
          PROVE  /\ inputs'[i].tick <= inputs'[j].tick
                 /\ inputs'[j].move = 1 => inputs'[i].tick < inputs'[j].tick
        <3>1. i \in 1 .. n
            BY <1>1, <1>4, <2>3
        <3>2. CASE j \in 1 .. n
            BY <1>1, <1>4, <1>7, <2>3, <3>1, <3>2 DEF InputsInOrder
        <3>3. CASE j = n + 1
            BY <1>1, <1>4, <1>7, <1>8, <3>1, <3>3 DEF InputsInOrder
        <3>4. QED
            BY <1>1, <1>4, <3>2, <3>3
    <2>4. QED
        BY <2>1, <2>2, <2>3 DEF InputsInOrder, Behind
<1>12. HandledFirst'
    <2>1. /\ Behind(lastProcessed)' /\ lastProcessed <= tick
          /\ move = 1 => lastProcessed < tick
        BY <1>1, <1>3, <1>7, <1>8 DEF HandledFirst, Behind
    <2>2. step /= "idle" => /\ Behind(handling.tick)' /\ handling.tick <= tick
                            /\ move = 1 => handling.tick < tick
        BY <1>2, <1>3, <1>7, <1>8 DEF HandledFirst, Behind
    <2>3. ASSUME NEW i \in DOMAIN inputs'
          PROVE  /\ lastProcessed <= inputs'[i].tick
                 /\ inputs'[i].move = 1 => lastProcessed < inputs'[i].tick
                 /\ step /= "idle" =>
                       /\ handling.tick <= inputs'[i].tick
                       /\ inputs'[i].move = 1 => handling.tick < inputs'[i].tick
        <3>1. CASE i \in 1 .. n
            BY <1>1, <1>4, <1>7, <3>1 DEF HandledFirst
        <3>2. CASE i = n + 1
            BY <1>4, <2>1, <2>2, <3>2
        <3>3. QED
            BY <1>1, <1>4, <3>1, <3>2
    <2>4. moved \subseteq moved'
        BY <1>5
    <2>5. QED
        BY <1>3, <1>7, <2>1, <2>2, <2>3, <2>4 DEF HandledFirst
<1>13. NoMoveIsLost'
    <2> SUFFICES ASSUME NEW t \in moved'
                 PROVE  \/ t <= lastProcessed
                        \/ step = "account" /\ handling.tick = t /\ handling.move = 1
                        \/ \E i \in DOMAIN inputs' :
                              inputs'[i].tick = t /\ inputs'[i].move = 1
        BY <1>3 DEF NoMoveIsLost
    <2>1. CASE t \in moved
        <3>1. (\E i \in DOMAIN inputs : inputs[i].tick = t /\ inputs[i].move = 1) =>
              \E i \in DOMAIN inputs' : inputs'[i].tick = t /\ inputs'[i].move = 1
            BY <1>1, <1>4
        <3>2. QED
            BY <1>7, <2>1, <3>1 DEF NoMoveIsLost
    <2>2. CASE t \notin moved
        <3>1. move = 1 /\ t = tick
            BY <1>5, <2>2
        <3>2. n + 1 \in DOMAIN inputs' /\ inputs'[n + 1].tick = t /\ inputs'[n + 1].move = 1
            BY <1>1, <1>4, <3>1
        <3>3. QED
            BY <3>2
    <2>3. QED
        BY <2>1, <2>2
<1>14. AcknowledgedIsApplied'
    <2>1. MovedBy(lastProcessed)' = MovedBy(lastProcessed)
        BY <1>1, <1>3, <1>10 DEF MovedBy
    <2>2. QED
        BY <1>3, <1>7, <2>1 DEF AcknowledgedIsApplied
<1>15. StatesAreTrue'
    <2>1. ASSUME NEW k \in DOMAIN states
          PROVE  MovedBy(states[k].ack)' = MovedBy(states[k].ack)
        BY <1>1, <1>3, <1>7, <1>10 DEF MovedBy, StatesAreTrue
    <2>2. QED
        BY <1>3, <1>7, <2>1 DEF StatesAreTrue
<1>16. PendingIsComplete'
    <2>1. \A i \in DOMAIN pending' : pending'[i] \in moved'
        BY <1>1, <1>5, <1>6, <1>7 DEF PendingIsComplete
    <2>2. ASSUME NEW i \in DOMAIN pending', NEW j \in DOMAIN pending', i < j
          PROVE  pending'[i] < pending'[j]
        <3>1. i \in 1 .. m
            BY <1>1, <1>6, <2>2
        <3>2. CASE j \in 1 .. m
            BY <1>1, <1>6, <1>7, <2>2, <3>1, <3>2 DEF PendingIsComplete
        <3>3. CASE move = 1 /\ j = m + 1
            BY <1>1, <1>6, <1>7, <3>1, <3>3 DEF PendingIsComplete, InputsInOrder
        <3>4. QED
            BY <1>1, <1>6, <3>2, <3>3
    <2>3. ASSUME NEW t \in moved',
                 t > lastProcessed \/ \E k \in DOMAIN states : t > states[k].ack
          PROVE  \E i \in DOMAIN pending' : pending'[i] = t
        <3>1. CASE t \in moved
            <4>1. PICK i \in DOMAIN pending : pending[i] = t
                BY <1>7, <2>3, <3>1 DEF PendingIsComplete
            <4>2. i \in DOMAIN pending' /\ pending'[i] = t
                BY <1>1, <1>6, <4>1
            <4>3. QED
                BY <4>2
        <3>2. CASE t \notin moved
            <4>1. move = 1 /\ t = tick
                BY <1>5, <3>2
            <4>2. m + 1 \in DOMAIN pending' /\ pending'[m + 1] = t
                BY <1>1, <1>6, <4>1
            <4>3. QED
                BY <4>2
        <3>3. QED
            BY <3>1, <3>2
    <2>4. QED
        BY <1>3, <2>1, <2>2, <2>3 DEF PendingIsComplete
<1>17. Predicted'
    <2>1. CASE move = 1
        <3>1. tick \notin moved
            BY <1>1, <1>7 DEF InputsInOrder
        <3>2. IsFiniteSet(moved) /\ Cardinality(moved) \in Nat
            BY MovesAreFinite
        <3>3. Cardinality(moved') = Cardinality(moved) + 1
            BY <1>5, <2>1, <3>1, <3>2, FS_AddElement
        <3>4. clientX' = IF clientX = Unknown THEN Unknown ELSE clientX + 1
            BY <2>1 DEF HandleInput
        <3>5. QED
            BY <1>3, <1>7, <3>3, <3>4 DEF Predicted
    <2>2. CASE move /= 1
        BY <1>3, <1>7, <2>2 DEF HandleInput, Predicted
    <2>3. QED
        BY <2>1, <2>2
<1>18. QED
    BY <1>11, <1>12, <1>13, <1>14, <1>15, <1>16, <1>17 DEF Exact

\* A state is read: the moves it knows of are popped.
LEMMA ShipReceiveStep ==
    ASSUME SyncTypeOK, network = "perfect", Exact,
           NEW i, ReceiveState(i)
    PROVE  Exact'
<1> DEFINE n == Len(states)
           ack == states[1].ack
           u == Unacked(ack)
<1>1. /\ lastProcessed \in 0 .. MaxTick /\ MaxTick \in Nat
      /\ n \in Nat /\ DOMAIN states = 1 .. n
      /\ \A k \in DOMAIN states :
            /\ states[k].ack \in 0 .. MaxTick /\ states[k].x \in Nat
            /\ states[k].torn \in BOOLEAN
      /\ \A t \in moved : t \in 0 .. MaxTick
    BY ShipNumbers
<1>2. /\ i = 1 /\ 1 \in DOMAIN states
      /\ UNCHANGED <<network, tick, moved, inputs, handling, step, x, lastProcessed>>
      /\ pending' = u /\ clientX' = states[1].x + Len(u) /\ torn' = states[1].torn
    BY DEF ReceiveState, handleVars, playerVars
<1>3. /\ DOMAIN states' = 1 .. n - 1
      /\ \A j \in 1 .. n - 1 : states'[j] = states[j + 1]
    <2> DEFINE r == RemoveAt(states, 1)
    <2>1. states \in Seq(PlayerStates) /\ states' = r
        BY <1>2 DEF ReceiveState, SyncTypeOK
    <2>2. /\ r \in Seq(PlayerStates) /\ Len(r) = Len(states) - 1
          /\ \A j \in 1 .. Len(states) - 1 : r[j] = states[j + 1]
        BY <1>2, <2>1, RemovalIs
    <2> HIDE DEF r
    <2>3. QED
        BY <2>1, <2>2
<1>4. /\ InputsInOrder /\ HandledFirst /\ NoMoveIsLost /\ AcknowledgedIsApplied
      /\ StatesAreTrue /\ PendingIsComplete
    BY DEF Exact
<1>5. /\ u \in Seq(Ticks)
      /\ \A k \in DOMAIN u : u[k] > ack /\ u[k] \in moved
      /\ \A k, j \in DOMAIN u : k < j => u[k] < u[j]
      /\ \A t \in moved : t > ack => \E k \in DOMAIN u : u[k] = t
    <2>1. ack \in Nat /\ pending \in Seq(Ticks)
        BY <1>1, <1>2 DEF SyncTypeOK
    <2>2. /\ u \in Seq(Ticks)
          /\ \A k \in DOMAIN u : u[k] > ack /\ \E j \in DOMAIN pending : u[k] = pending[j]
          /\ \A k, j \in DOMAIN u : k < j => u[k] < u[j]
          /\ \A k \in DOMAIN pending : pending[k] > ack =>
                \E j \in DOMAIN u : u[j] = pending[k]
        BY <1>1, <1>4, <2>1, UnackedIs DEF PendingIsComplete
    <2> HIDE DEF u
    <2>3. \A t \in moved : t > ack => \E k \in DOMAIN pending : pending[k] = t
        BY <1>2, <1>4 DEF PendingIsComplete
    <2>4. \A k \in DOMAIN u : u[k] \in moved
        BY <1>4, <2>2 DEF PendingIsComplete
    <2>5. \A t \in moved : t > ack => \E k \in DOMAIN u : u[k] = t
        BY <2>2, <2>3
    <2>6. QED
        BY <2>2, <2>4, <2>5
<1> HIDE DEF n, u
<1>6. InputsInOrder' /\ HandledFirst' /\ NoMoveIsLost' /\ AcknowledgedIsApplied'
    <2>1. InputsInOrder'
        BY <1>2, <1>4 DEF InputsInOrder, Behind
    <2>2. HandledFirst'
        BY <1>2, <1>4 DEF HandledFirst, Behind
    <2>3. NoMoveIsLost'
        BY <1>2, <1>4 DEF NoMoveIsLost
    <2>4. AcknowledgedIsApplied'
        BY <1>2, <1>4 DEF AcknowledgedIsApplied, MovedBy
    <2>5. QED
        BY <2>1, <2>2, <2>3, <2>4
<1>7. StatesAreTrue'
    <2>1. \A k \in DOMAIN states' : k + 1 \in DOMAIN states /\ states'[k] = states[k + 1]
        BY <1>1, <1>3
    <2>2. ASSUME NEW k \in DOMAIN states'
          PROVE  /\ states'[k].ack <= lastProcessed
                 /\ states'[k].torn
                    \/ states'[k].x = Cardinality(MovedBy(states[k + 1].ack))
        BY <1>4, <2>1 DEF StatesAreTrue
    <2>3. ASSUME NEW k \in DOMAIN states', NEW l \in DOMAIN states', k < l
          PROVE  states'[k].ack <= states'[l].ack
        <3>1. k \in Nat /\ l \in Nat /\ k + 1 < l + 1
            BY <1>1, <1>3, <2>3
        <3>2. QED
            BY <1>4, <2>1, <3>1 DEF StatesAreTrue
    <2>4. QED
        BY <1>2, <2>1, <2>2, <2>3 DEF StatesAreTrue, MovedBy
<1>8. PendingIsComplete'
    <2>1. ASSUME NEW t \in moved,
                 t > lastProcessed \/ \E k \in DOMAIN states' : t > states'[k].ack
          PROVE  t > ack
        <3>1. CASE t > lastProcessed
            BY <1>1, <1>2, <1>4, <3>1 DEF StatesAreTrue
        <3>2. ASSUME NEW k \in DOMAIN states', t > states'[k].ack
              PROVE  t > ack
            <4>1. k + 1 \in DOMAIN states /\ 1 < k + 1 /\ t > states[k + 1].ack
                BY <1>1, <1>3, <3>2
            <4>2. states[1].ack <= states[k + 1].ack
                BY <1>2, <1>4, <4>1 DEF StatesAreTrue
            <4>3. QED
                BY <1>1, <1>2, <4>1, <4>2
        <3>3. QED
            BY <2>1, <3>1, <3>2
    <2> HIDE DEF ack
    <2>2. QED
        BY <1>2, <1>5, <2>1 DEF PendingIsComplete
<1>9. Predicted'
    <2> SUFFICES ASSUME ~states[1].torn
                 PROVE  states[1].x + Len(u) = Cardinality(moved)
        BY <1>2 DEF Predicted
    <2> DEFINE later == {t \in moved : t > ack}
    <2>1. states[1].x = Cardinality(MovedBy(ack))
        BY <1>2, <1>4 DEF StatesAreTrue
    <2>2. Cardinality(later) = Len(u)
        <3>1. \A k, j \in DOMAIN u : k /= j => u[k] /= u[j]
            <4>1. \A k \in DOMAIN u : k \in Nat /\ u[k] \in Nat
                BY <1>1, <1>5
            <4> SUFFICES ASSUME NEW k \in DOMAIN u, NEW j \in DOMAIN u, k /= j
                         PROVE  u[k] /= u[j]
                OBVIOUS
            <4>2. k < j \/ j < k
                BY <4>1
            <4>3. QED
                BY <1>5, <4>1, <4>2
        <3>2. \A k \in DOMAIN u : u[k] \in later
            BY <1>5
        <3>3. \A t \in later : \E k \in DOMAIN u : u[k] = t
            BY <1>5
        <3> HIDE DEF later
        <3>4. QED
            BY <1>5, <3>1, <3>2, <3>3, LenIsCardinality
    <2>3. /\ IsFiniteSet(later) /\ IsFiniteSet(MovedBy(ack))
          /\ Cardinality(later) \in Nat /\ Cardinality(MovedBy(ack)) \in Nat
        BY MovesAreFinite DEF MovedBy
    <2>4. moved = MovedBy(ack) \cup later /\ MovedBy(ack) \cap later = {}
        BY <1>1, <1>2 DEF MovedBy
    <2> HIDE DEF later
    <2>5. Cardinality(MovedBy(ack) \cup later) = Cardinality(MovedBy(ack))
              + Cardinality(later) - Cardinality(MovedBy(ack) \cap later)
        BY <2>3, FS_Union
    <2>6. Cardinality(MovedBy(ack) \cap later) = 0
        BY <2>4, FS_EmptySet
    <2>7. QED
        BY <2>1, <2>2, <2>3, <2>4, <2>5, <2>6
<1>10. QED
    BY <1>6, <1>7, <1>8, <1>9 DEF Exact

\* The UDP thread takes the oldest input.
LEMMA ShipTakeStep ==
    ASSUME SyncTypeOK, network = "perfect", Exact,
           NEW i, TakeInput(i)
    PROVE  Exact'
<1> DEFINE n == Len(inputs)
<1>1. n \in Nat /\ DOMAIN inputs = 1 .. n
    BY ShipNumbers
<1>2. /\ 1 \in DOMAIN inputs /\ step = "idle" /\ step' = "account"
      /\ handling' = inputs[1]
      /\ UNCHANGED <<network, tick, pending, clientX, moved, torn, states, x,
                     lastProcessed>>
    BY DEF TakeInput, clientVars
<1>3. /\ DOMAIN inputs' = 1 .. n - 1
      /\ \A j \in 1 .. n - 1 : inputs'[j] = inputs[j + 1]
    <2> DEFINE r == RemoveAt(inputs, 1)
    <2>1. inputs \in Seq(Inputs) /\ inputs' = r
        BY <1>2 DEF TakeInput, SyncTypeOK
    <2>2. /\ r \in Seq(Inputs) /\ Len(r) = Len(inputs) - 1
          /\ \A j \in 1 .. Len(inputs) - 1 : r[j] = inputs[j + 1]
        BY <1>2, <2>1, RemovalIs
    <2> HIDE DEF r
    <2>3. QED
        BY <2>1, <2>2
<1>4. /\ InputsInOrder /\ HandledFirst /\ NoMoveIsLost /\ AcknowledgedIsApplied
      /\ StatesAreTrue /\ PendingIsComplete /\ Predicted
    BY DEF Exact
<1>5. \A j \in DOMAIN inputs' :
          j \in Nat /\ j + 1 \in DOMAIN inputs /\ 1 < j + 1 /\ inputs'[j] = inputs[j + 1]
    BY <1>1, <1>3
<1> HIDE DEF n
<1>6. InputsInOrder'
    <2>1. ASSUME NEW k \in DOMAIN inputs', NEW j \in DOMAIN inputs', k < j
          PROVE  /\ inputs'[k].tick <= inputs'[j].tick
                 /\ inputs'[j].move = 1 => inputs'[k].tick < inputs'[j].tick
        <3>1. k + 1 < j + 1
            BY <1>5, <2>1
        <3>2. QED
            BY <1>4, <1>5, <3>1 DEF InputsInOrder
    <2>2. \A j \in DOMAIN inputs' :
              /\ inputs'[j].tick < tick \/ tick = MaxTick
              /\ inputs'[j].move = 1 => inputs'[j].tick \in moved
        BY <1>4, <1>5 DEF InputsInOrder, Behind
    <2>3. QED
        BY <1>2, <1>4, <2>1, <2>2 DEF InputsInOrder, Behind
<1>7. HandledFirst'
    <2>1. \A j \in DOMAIN inputs' :
              /\ lastProcessed <= inputs'[j].tick
              /\ inputs'[j].move = 1 => lastProcessed < inputs'[j].tick
              /\ inputs[1].tick <= inputs'[j].tick
              /\ inputs'[j].move = 1 => inputs[1].tick < inputs'[j].tick
        BY <1>2, <1>4, <1>5 DEF InputsInOrder, HandledFirst
    <2>2. /\ lastProcessed <= inputs[1].tick
          /\ inputs[1].move = 1 => lastProcessed < inputs[1].tick
          /\ inputs[1].tick < tick \/ tick = MaxTick
          /\ inputs[1].move = 1 => inputs[1].tick \in moved
          /\ lastProcessed < tick \/ tick = MaxTick
        BY <1>2, <1>4 DEF InputsInOrder, HandledFirst, Behind
    <2>3. QED
        BY <1>2, <2>1, <2>2 DEF HandledFirst, Behind
<1>8. NoMoveIsLost'
    <2> SUFFICES ASSUME NEW t \in moved
                 PROVE  \/ t <= lastProcessed
                        \/ inputs[1].tick = t /\ inputs[1].move = 1
                        \/ \E j \in DOMAIN inputs' :
                              inputs'[j].tick = t /\ inputs'[j].move = 1
        BY <1>2 DEF NoMoveIsLost
    <2>1. ASSUME NEW j \in DOMAIN inputs, j /= 1
          PROVE  j - 1 \in DOMAIN inputs' /\ inputs'[j - 1] = inputs[j]
        BY <1>1, <1>3, <2>1
    <2>2. QED
        BY <1>2, <1>4, <2>1 DEF NoMoveIsLost
<1>9. AcknowledgedIsApplied'
    BY <1>2, <1>4 DEF AcknowledgedIsApplied, MovedBy
<1>10. StatesAreTrue'
    BY <1>2, <1>4 DEF StatesAreTrue, MovedBy
<1>11. PendingIsComplete' /\ Predicted'
    BY <1>2, <1>4 DEF PendingIsComplete, Predicted
<1>12. QED
    BY <1>6, <1>7, <1>8, <1>9, <1>10, <1>11 DEF Exact

\* The tick is acknowledged: it is that of the next move, if it is a move.
LEMMA ShipAccountStep ==
    ASSUME SyncTypeOK, BusyHandles, network = "perfect",
           Exact, AccountInput
    PROVE  Exact'
<1> DEFINE h == handling.tick
<1>1. /\ lastProcessed \in 0 .. MaxTick /\ MaxTick \in Nat /\ x \in Nat
      /\ h \in 0 .. MaxTick /\ handling.move \in {0, 1}
      /\ \A t \in moved : t \in 0 .. MaxTick
      /\ \A k \in DOMAIN states : states[k].ack \in 0 .. MaxTick
      /\ \A i \in DOMAIN inputs : inputs[i].tick \in 0 .. MaxTick
    BY ShipNumbers DEF BusyHandles, AccountInput, Inputs, Ticks
<1>2. /\ InputsInOrder /\ HandledFirst /\ NoMoveIsLost /\ AcknowledgedIsApplied
      /\ StatesAreTrue /\ PendingIsComplete /\ Predicted
    BY DEF Exact
<1>3. /\ step = "account" /\ step' = "move" /\ lastProcessed <= h
      /\ lastProcessed' = h
      /\ UNCHANGED <<network, tick, pending, clientX, moved, torn, inputs, states,
                     handling, x>>
    BY <1>1, <1>2 DEF AccountInput, HandledFirst, clientVars, netVars
<1>4. InputsInOrder'
    BY <1>2, <1>3 DEF InputsInOrder, Behind
<1>5. HandledFirst'
    BY <1>2, <1>3 DEF HandledFirst, Behind
<1>6. NoMoveIsLost'
    <2> SUFFICES ASSUME NEW t \in moved
                 PROVE  \/ t <= h
                        \/ \E i \in DOMAIN inputs : inputs[i].tick = t /\ inputs[i].move = 1
        BY <1>3 DEF NoMoveIsLost
    <2>1. QED
        BY <1>1, <1>2, <1>3 DEF NoMoveIsLost
<1>7. \A t \in moved : t > lastProcessed /\ t <= h => t = h /\ handling.move = 1
    BY <1>1, <1>2, <1>3 DEF NoMoveIsLost, HandledFirst
<1>8. AcknowledgedIsApplied'
    <2>1. MovedBy(lastProcessed)' = {t \in moved : t <= h}
        BY <1>3 DEF MovedBy
    <2>2. IsFiniteSet(MovedBy(lastProcessed)) /\ Cardinality(MovedBy(lastProcessed)) \in Nat
        BY MovesAreFinite DEF MovedBy
    <2>3. Cardinality(MovedBy(lastProcessed)) = x
        BY <1>1, <1>2, <1>3 DEF AcknowledgedIsApplied
    <2>4. CASE handling.move = 1
        <3>1. h \in moved /\ lastProcessed < h
            BY <1>2, <1>3, <2>4 DEF HandledFirst
        <3>2. {t \in moved : t <= h} = MovedBy(lastProcessed) \cup {h}
            BY <1>1, <1>7, <3>1 DEF MovedBy
        <3>3. h \notin MovedBy(lastProcessed)
            BY <1>1, <3>1 DEF MovedBy
        <3>4. Cardinality({t \in moved : t <= h}) = x + 1
            BY <2>2, <2>3, <3>2, <3>3, FS_AddElement
        <3>5. QED
            BY <1>3, <2>1, <2>4, <3>4 DEF AcknowledgedIsApplied
    <2>5. CASE handling.move = 0
        <3>1. {t \in moved : t <= h} = MovedBy(lastProcessed)
            BY <1>1, <1>3, <1>7, <2>5 DEF MovedBy
        <3>2. QED
            BY <1>1, <1>3, <2>1, <2>3, <2>5, <3>1, SMTT(30) DEF AcknowledgedIsApplied
    <2>6. QED
        BY <1>1, <2>4, <2>5
<1>9. StatesAreTrue'
    <2>1. \A k \in DOMAIN states : states[k].ack <= h
        BY <1>1, <1>2, <1>3 DEF StatesAreTrue
    <2>2. QED
        BY <1>2, <1>3, <2>1 DEF StatesAreTrue, MovedBy
<1>10. PendingIsComplete'
    <2>1. \A t \in moved : t > h => t > lastProcessed
        BY <1>1, <1>3
    <2>2. QED
        BY <1>2, <1>3, <2>1 DEF PendingIsComplete
<1>11. Predicted'
    BY <1>2, <1>3 DEF Predicted
<1>12. QED
    BY <1>4, <1>5, <1>6, <1>8, <1>9, <1>10, <1>11 DEF Exact

\* The ship is moved.
LEMMA ShipApplyStep ==
    ASSUME SyncTypeOK, BusyHandles, Exact, ApplyInput
    PROVE  Exact'
<1>1. /\ InputsInOrder /\ HandledFirst /\ NoMoveIsLost /\ AcknowledgedIsApplied
      /\ StatesAreTrue /\ PendingIsComplete /\ Predicted
    BY DEF Exact
<1>2. x \in Nat /\ handling.move \in {0, 1}
    BY ShipNumbers DEF BusyHandles, ApplyInput, Inputs
<1>3. /\ step = "move" /\ step' = "idle" /\ x' = x + handling.move
      /\ UNCHANGED <<tick, pending, clientX, moved, torn, inputs, states, lastProcessed>>
    BY DEF ApplyInput, clientVars, netVars
<1>4. InputsInOrder'
    BY <1>1, <1>3 DEF InputsInOrder, Behind
<1>5. HandledFirst'
    BY <1>1, <1>3 DEF HandledFirst, Behind
<1>6. NoMoveIsLost'
    BY <1>1, <1>3 DEF NoMoveIsLost
<1>7. AcknowledgedIsApplied'
    BY <1>1, <1>2, <1>3 DEF AcknowledgedIsApplied, MovedBy
<1>8. StatesAreTrue'
    BY <1>1, <1>3 DEF StatesAreTrue, MovedBy
<1>9. PendingIsComplete' /\ Predicted'
    BY <1>1, <1>3 DEF PendingIsComplete, Predicted
<1>10. QED
    BY <1>4, <1>5, <1>6, <1>7, <1>8, <1>9 DEF Exact

\* A state is sent: it is torn while a move is acknowledged but not applied.
LEMMA ShipBroadcastStep ==
    ASSUME SyncTypeOK,
           network = "perfect", Exact, BroadcastPlayerState
    PROVE  Exact'
<1> DEFINE n == Len(states)
           new == [ack |-> lastProcessed, x |-> x,
                   torn |-> step = "move" /\ handling.move /= 0]
<1>1. /\ lastProcessed \in 0 .. MaxTick /\ MaxTick \in Nat /\ x \in Nat
      /\ n \in Nat /\ DOMAIN states = 1 .. n
    BY ShipNumbers
<1>2. /\ InputsInOrder /\ HandledFirst /\ NoMoveIsLost /\ AcknowledgedIsApplied
      /\ StatesAreTrue /\ PendingIsComplete /\ Predicted
    BY DEF Exact
<1>3. UNCHANGED <<tick, pending, clientX, moved, torn, inputs, handling, step, x,
                  lastProcessed>>
    BY DEF BroadcastPlayerState, clientVars, handleVars, playerVars
<1>4. /\ new \in PlayerStates /\ new.ack = lastProcessed /\ new.x = x
    BY DEF PlayerStates, SyncTypeOK
<1>5. new.torn \/ new.x = Cardinality(MovedBy(lastProcessed))
    <2>1. CASE step = "move" /\ handling.move /= 0
        BY <2>1
    <2>2. CASE ~(step = "move" /\ handling.move /= 0)
        BY <1>1, <1>2, <1>4, <2>2 DEF AcknowledgedIsApplied
    <2>3. QED
        BY <2>1, <2>2
<1>6. /\ DOMAIN states' = 1 .. n + 1 /\ states'[n + 1] = new
      /\ \A k \in 1 .. n : states'[k] = states[k]
    <2>1. /\ states \in Seq(PlayerStates) /\ MaxInFlight \in Nat
          /\ Len(states) <= MaxInFlight /\ Len(states) < MaxInFlight
        BY InFlightAssumption DEF BroadcastPlayerState, RoomIn, SyncTypeOK
    <2> DEFINE sent == Sent(states, new)
    <2>3. new \in PlayerStates
        BY <1>4
    <2> HIDE DEF n, new
    <2>2. /\ sent \in Seq(PlayerStates) /\ Len(sent) = Len(states) + 1
          /\ sent[Len(states) + 1] = new
          /\ \A i \in 1 .. Len(states) : sent[i] = states[i]
        BY <2>1, <2>3, ShipSent
    <2>4. states' = sent
        BY DEF BroadcastPlayerState, new
    <2> HIDE DEF sent
    <2>5. QED
        BY <2>2, <2>4 DEF n
<1> HIDE DEF n, new
<1>7. InputsInOrder'
    BY <1>2, <1>3 DEF InputsInOrder, Behind
<1>8. HandledFirst'
    BY <1>2, <1>3 DEF HandledFirst, Behind
<1>9. NoMoveIsLost'
    BY <1>2, <1>3 DEF NoMoveIsLost
<1>10. AcknowledgedIsApplied'
    BY <1>2, <1>3 DEF AcknowledgedIsApplied, MovedBy
<1>11. StatesAreTrue'
    <2>1. ASSUME NEW k \in DOMAIN states'
          PROVE  /\ states'[k].ack <= lastProcessed
                 /\ states'[k].torn
                    \/ states'[k].x = Cardinality({t \in moved : t <= states'[k].ack})
        <3>1. CASE k \in 1 .. n
            BY <1>1, <1>2, <1>6, <3>1 DEF StatesAreTrue, MovedBy
        <3>2. CASE k = n + 1
            <4>1. states'[k] = new /\ states'[k].ack = lastProcessed
                BY <1>4, <1>6, <3>2
            <4>2. {t \in moved : t <= states'[k].ack} = MovedBy(lastProcessed)
                BY <4>1 DEF MovedBy
            <4>3. states'[k].ack <= lastProcessed
                BY <1>1, <4>1
            <4>4. QED
                BY <1>5, <4>1, <4>2, <4>3
        <3>3. QED
            BY <1>1, <1>6, <3>1, <3>2
    <2>2. ASSUME NEW k \in DOMAIN states', NEW l \in DOMAIN states', k < l
          PROVE  states'[k].ack <= states'[l].ack
        <3>1. k \in 1 .. n
            BY <1>1, <1>6, <2>2
        <3>2. CASE l \in 1 .. n
            BY <1>1, <1>2, <1>6, <2>2, <3>1, <3>2 DEF StatesAreTrue
        <3>3. CASE l = n + 1
            BY <1>1, <1>2, <1>4, <1>6, <3>1, <3>3 DEF StatesAreTrue
        <3>4. QED
            BY <1>1, <1>6, <3>2, <3>3
    <2>3. QED
        BY <1>3, <2>1, <2>2 DEF StatesAreTrue, MovedBy
<1>12. PendingIsComplete'
    <2>1. \A t \in moved : (\E k \in DOMAIN states' : t > states'[k].ack) =>
              t > lastProcessed \/ \E k \in DOMAIN states : t > states[k].ack
        BY <1>1, <1>4, <1>6
    <2>2. QED
        BY <1>2, <1>3, <2>1 DEF PendingIsComplete
<1>13. Predicted'
    BY <1>2, <1>3 DEF Predicted
<1>14. QED
    BY <1>7, <1>8, <1>9, <1>10, <1>11, <1>12, <1>13 DEF Exact

\* Every step keeps the invariant.
LEMMA ShipStep ==
    ASSUME ShipInv, [SyncNext]_(syncVars)
    PROVE  ShipInv'
<1>1. SyncTypeOK' /\ BusyHandles'
    BY ShipTypes DEF ShipInv
<1>2. network' = network
    BY DEF SyncNext, HandleInput, TakeInput, ReceiveState,
       LoseInput, LoseState, HandlePlayerInput, AccountInput,
       ApplyInput, BroadcastPlayerState, syncVars, netVars
<1>3. ASSUME network = "perfect"
      PROVE  Exact'
    <2>1. Exact /\ SyncTypeOK /\ BusyHandles
        BY <1>3 DEF ShipInv
    <2>2. ~(\E i : LoseInput(i) \/ LoseState(i))
        BY <1>3 DEF LoseInput, LoseState
    <2>3. CASE UNCHANGED syncVars
        <3>1. UNCHANGED <<tick, pending, clientX, moved, torn, inputs, states, handling,
                          step, x, lastProcessed>>
            BY <2>3 DEF syncVars, clientVars, netVars, handleVars,
               playerVars
        <3>2. QED
            BY <2>1, <3>1 DEF Exact, InputsInOrder, HandledFirst, NoMoveIsLost,
               AcknowledgedIsApplied, StatesAreTrue, PendingIsComplete, Predicted,
               Behind, MovedBy
    <2>4. QED
        BY <1>3, <2>1, <2>2, <2>3, ShipInputStep, ShipReceiveStep, ShipTakeStep,
           ShipAccountStep, ShipApplyStep, ShipBroadcastStep
           DEF SyncNext, HandlePlayerInput
<1>4. QED
    BY <1>1, <1>2, <1>3 DEF ShipInv

\* The client's prediction, the inputs and states under way and the server's
\* three steps on an input (RTypeClient::handleInput, Game::handlePlayerInput,
\* broadcastGameState) always stand in the relation ShipInv.
THEOREM ShipInvariant ==
    SyncSpec => []ShipInv
<1>1. SyncInit => ShipInv
    <2> SUFFICES ASSUME SyncInit
                 PROVE  ShipInv
        OBVIOUS
    <2>1. /\ tick = StartTick /\ StartTick \in 1 .. MaxTick /\ MaxTick \in Nat
          /\ MaxInFlight \in Nat /\ MaxInFlight >= 1
        BY TickAssumption, InFlightAssumption DEF SyncInit
    <2>2. /\ inputs \in Seq(Inputs) /\ Len(inputs) = 1
          /\ inputs[1].tick = 0 /\ inputs[1].move = 0
        <3>1. [tick |-> 0, move |-> 0] \in Inputs
            BY <2>1 DEF Inputs, Ticks
        <3>2. QED
            BY <3>1 DEF SyncInit
    <2>3. /\ states = << >> /\ pending = << >> /\ moved = {} /\ x = 0
          /\ lastProcessed = 0 /\ step = "idle" /\ clientX = Unknown
        BY DEF SyncInit
    <2>4. SyncTypeOK /\ BusyHandles
        <3>1. /\ states \in Seq(PlayerStates) /\ Len(states) = 0
              /\ pending \in Seq(Ticks) /\ moved \in SUBSET Ticks
              /\ lastProcessed \in Ticks /\ x \in Nat
            BY <2>1, <2>3 DEF Ticks
        <3>2. /\ handling \in Inputs \cup {Unknown} /\ network \in Networks
              /\ clientX \in Nat \cup {Unknown}
              /\ step \in {"idle", "account", "move"}
            BY DEF SyncInit
        <3>3. torn \in BOOLEAN /\ addrSet \in BOOLEAN /\ firstInput \in BOOLEAN
            BY DEF SyncInit
        <3>4. /\ lastInput \in Ticks /\ received \in Nat /\ lost \in Nat
              /\ tick \in StartTick .. MaxTick
            BY <2>1 DEF SyncInit, Ticks
        <3>5. Len(inputs) <= MaxInFlight /\ Len(states) <= MaxInFlight
            BY <2>1, <2>2, <3>1
        <3>6. QED
            BY <2>2, <2>3, <3>1, <3>2, <3>3, <3>4, <3>5 DEF SyncTypeOK, BusyHandles
    <2>5. /\ DOMAIN inputs = {1} /\ DOMAIN states = {} /\ DOMAIN pending = {}
        BY <2>2, <2>3
    <2>6. InputsInOrder /\ HandledFirst /\ NoMoveIsLost
        BY <2>1, <2>2, <2>3, <2>5 DEF InputsInOrder, HandledFirst, NoMoveIsLost, Behind
    <2>7. AcknowledgedIsApplied
        <3>1. MovedBy(lastProcessed) = {}
            BY <2>3 DEF MovedBy
        <3>2. QED
            BY <2>3, <3>1, FS_EmptySet DEF AcknowledgedIsApplied
    <2>8. StatesAreTrue /\ PendingIsComplete /\ Predicted
        BY <2>3, <2>5 DEF StatesAreTrue, PendingIsComplete, Predicted
    <2>9. QED
        BY <2>4, <2>6, <2>7, <2>8 DEF ShipInv, Exact
<1>2. ShipInv /\ [SyncNext]_(syncVars) => ShipInv'
    BY ShipStep
<1>3. QED
    BY <1>1, <1>2, PTL DEF SyncSpec

\* Type correctness of PlayerSync: the account of lost inputs (PlayerInfo) is
\* never negative, and an acknowledged tick is one that the client has had.
THEOREM PlayerSyncTypes ==
    SyncSpec => []SyncTypeOK
<1>1. ShipInv => SyncTypeOK
    BY DEF ShipInv
<1>2. QED
    BY <1>1, ShipInvariant, PTL

\* Over a perfect network the correction in RTypeClient::update gives the ship's
\* place after all moves made, unless the state was sent between the two writes
\* of an input: no move is forgotten by pendingInputs and none applied twice.
THEOREM PredictionsAreExact ==
    SyncSpec => []PredictionIsExact
<1>1. ShipInv => PredictionIsExact
    BY DEF ShipInv, Exact, Predicted, PredictionIsExact
<1>2. QED
    BY <1>1, ShipInvariant, PTL

-----------------------------------------------------------------------------
(* Entities: EntityView.                                                   *)

\* The ids of a set of entities are distinct.
Distinct(S) == \A e, f \in S : e.id = f.id => e = f

\* At gives the position of the entity.
LEMMA AtIs ==
    ASSUME NEW S \in SUBSET EntityStates, Distinct(S)
    PROVE  /\ \A e \in S : Is(e.id, S) /\ At(e.id, S) = e.pos
           /\ \A i : Is(i, S) => \E e \in S : e.id = i
BY DEF Distinct, Is, At

\* Even when the ids are not distinct, it gives a position.
LEMMA AtType ==
    ASSUME NEW S \in SUBSET EntityStates, NEW i, Is(i, S)
    PROVE  At(i, S) \in Positions
<1> DEFINE e == CHOOSE e \in S : e.id = i
<1>1. e \in S
    BY DEF Is
<1>2. e.pos \in Positions
    BY <1>1 DEF EntityStates
<1>3. QED
    BY <1>2 DEF At

\* The messages are of four kinds.
LEMMA EntMessages ==
    ASSUME NEW m \in EntityMessages
    PROVE  \/ /\ m.type \in {"spawn", "update"}
              /\ m.id \in Ids /\ m.pos \in Positions
           \/ m.type = "destroy" /\ m.id \in Ids
           \/ m.type = "sync" /\ m.states \in SUBSET EntityStates
BY DEF EntityMessages

\* Does a message tell the client about entity i, and what?
About(m, i) ==
    IF m.type = "sync" THEN i < LocalIds \/ Is(i, m.states) ELSE m.id = i

Says(m, i) ==
    IF m.type = "sync"
    THEN IF Is(i, m.states) THEN At(i, m.states) ELSE Absent
    ELSE IF m.type = "destroy" THEN Absent ELSE m.pos

\* The client believes it, but for the update of an entity it does not know.
LEMMA EntAfterMessage ==
    ASSUME ViewTypeOK, NEW m \in EntityMessages
    PROVE  LET after == AfterMessage(m)
           IN  /\ after \in [Ids -> Positions \cup {Absent}]
               /\ \A i \in Ids :
                     /\ ~About(m, i) => after[i] = view[i]
                     /\ About(m, i) =>
                           \/ after[i] = Says(m, i)
                           \/ m.type = "update" /\ view[i] = Absent /\ after[i] = Absent
<1> DEFINE after == AfterMessage(m)
           Fine == /\ after \in [Ids -> Positions \cup {Absent}]
                   /\ \A i \in Ids :
                         /\ ~About(m, i) => after[i] = view[i]
                         /\ About(m, i) =>
                               \/ after[i] = Says(m, i)
                               \/ m.type = "update" /\ view[i] = Absent /\ after[i] = Absent
<1>1. view \in [Ids -> Positions \cup {Absent}]
    BY DEF ViewTypeOK
<1>2. CASE m.type = "spawn"
    <2>1. after = [view EXCEPT ![m.id] = m.pos]
        BY <1>2 DEF AfterMessage
    <2>2. QED
        BY <1>1, <1>2, <2>1, EntMessages DEF About, Says
<1>3. CASE m.type = "update"
    <2>1. after = IF view[m.id] = Absent THEN view ELSE [view EXCEPT ![m.id] = m.pos]
        BY <1>3 DEF AfterMessage
    <2>2. QED
        BY <1>1, <1>3, <2>1, EntMessages DEF About, Says
<1>4. CASE m.type = "destroy"
    <2>1. after = [view EXCEPT ![m.id] = Absent]
        BY <1>4 DEF AfterMessage
    <2>2. QED
        BY <1>1, <1>4, <2>1, EntMessages DEF About, Says
<1>5. CASE m.type = "sync"
    <2>1. after = [i \in Ids |->
                      IF Is(i, m.states) THEN At(i, m.states)
                      ELSE IF i >= LocalIds THEN view[i] ELSE Absent]
        BY <1>5 DEF AfterMessage, AfterSync
    <2>2. m.states \in SUBSET EntityStates
        BY <1>5, EntMessages
    <2>3. \A i \in Ids : Is(i, m.states) =>
              At(i, m.states) \in Positions
        BY <2>2, AtType
    <2>4. \A i \in Ids : i \in Int /\ LocalIds \in Int
        BY SyncAssumption DEF Ids
    <2>5. after \in [Ids -> Positions \cup {Absent}]
        BY <1>1, <2>1, <2>3
    <2>6. ASSUME NEW i \in Ids
          PROVE  /\ ~About(m, i) => after[i] = view[i]
                 /\ About(m, i) => after[i] = Says(m, i)
        <3>1. after[i] = IF Is(i, m.states) THEN At(i, m.states)
                         ELSE IF i >= LocalIds THEN view[i] ELSE Absent
            BY <2>1
        <3>2. QED
            BY <1>5, <2>4, <3>1 DEF About, Says
    <2>7. QED
        BY <2>5, <2>6
<1>6. QED
    BY <1>2, <1>3, <1>4, <1>5, EntMessages

\* What is sent goes to the end, if it fits.
LEMMA EntSend ==
    ASSUME ViewTypeOK,
           NEW more \in Seq(EntityMessages), Send(more)
    PROVE  /\ net' \in Seq(EntityMessages) /\ Len(net') <= MaxQueued
           /\ ~addrKnown => net' = net
           /\ addrKnown /\ Len(net) + Len(more) <= MaxQueued => net' = net \o more
<1>1. net \in Seq(EntityMessages) /\ Len(net) <= MaxQueued /\ MaxQueued \in Nat
    BY BoundsAssumption DEF ViewTypeOK
<1>2. CASE ~addrKnown
    BY <1>1, <1>2 DEF Send
<1>3. CASE addrKnown
    <2> DEFINE full == net \o more
               n == Min({Len(net) + Len(more), MaxQueued})
    <2>1. full \in Seq(EntityMessages) /\ Len(full) = Len(net) + Len(more)
        BY <1>1
    <2>2. n = IF Len(net) + Len(more) <= MaxQueued THEN Len(net) + Len(more)
                                                      ELSE MaxQueued
        BY <1>1, MinOfTwo
    <2>3. net' = SubSeq(full, 1, n)
        BY <1>3 DEF Send
    <2> HIDE DEF full, n
    <2>4. net' \in Seq(EntityMessages) /\ Len(net') = n /\ n <= MaxQueued
        BY <1>1, <2>1, <2>2, <2>3
    <2>5. SubSeq(full, 1, Len(full)) = full
        BY <2>1, SubSeqFull
    <2>6. Len(net) + Len(more) <= MaxQueued => net' = full
        BY <2>1, <2>2, <2>3, <2>5
    <2>7. QED
        BY <1>3, <2>4, <2>6 DEF full
<1>4. QED
    BY <1>2, <1>3

\* The entities are numbered in the order of their birth.
BornInOrder == \A e \in live : e.id < nextId

\* All that lives fits.
LEMMA LiveIsFinite ==
    ASSUME ViewTypeOK
    PROVE  IsFiniteSet(live) /\ Cardinality(live) \in Nat
<1> DEFINE f == [e \in live |-> e.id]
<1>1. live \subseteq EntityStates /\ Distinct(live)
    BY DEF ViewTypeOK, Distinct
<1>2. f \in Injection(live, 1 .. MaxId)
    BY <1>1 DEF Injection, IsInjective, Distinct, EntityStates, Ids
<1>3. IsFiniteSet(1 .. MaxId)
    BY FS_Interval, BoundsAssumption
<1>4. IsFiniteSet(live)
    BY <1>2, <1>3, FS_Injection
<1>5. QED
    BY <1>4, FS_CardinalityType

\* Some entities are gone and some have moved.
AfterMoves(gone, fast) ==
    (live \ (gone \cup fast)) \cup {[e EXCEPT !.pos = @ + 1] : e \in fast}

\* One report for each entity that was there, of where it is or that it is gone.
Reported(after) ==
    /\ after \in SUBSET EntityStates /\ Distinct(after)
    /\ \A g \in after : \E e \in live : e.id = g.id
    /\ Reports(after) \in SUBSET EntityMessages
    /\ IsFiniteSet(Reports(after))
    /\ Cardinality(Reports(after)) <= Cardinality(live)
    /\ \A e \in live : \E m \in Reports(after) :
          m.type /= "sync" /\ m.id = e.id
    /\ \A m \in Reports(after) :
          /\ \E e \in live : e.id = m.id
          /\ \/ /\ m.type = "update" /\ Is(m.id, after)
                /\ m.pos = At(m.id, after)
                /\ m.pos \in Positions
             \/ m.type = "destroy" /\ ~Is(m.id, after)

\* After all have moved, there is one report for each that was there.
LEMMA EntReports ==
    ASSUME ViewTypeOK,
           NEW gone \in SUBSET live, NEW fast \in SUBSET (live \ gone),
           \A e \in fast : e.pos < MaxPos,
           NEW after, after = AfterMoves(gone, fast)
    PROVE  Reported(after)
<1> DEFINE Moved(e) == [e EXCEPT !.pos = @ + 1]
           R == Reports(after)
           Changed(g) == [type |-> "update", id |-> g.id, pos |-> g.pos]
           Destroy(e) == [type |-> "destroy", id |-> e.id]
<1>1. live \in SUBSET EntityStates /\ Distinct(live) /\ MaxPos \in Nat
    BY BoundsAssumption DEF ViewTypeOK, Distinct
<1>2. \A e \in live : /\ e.id \in Ids /\ e.pos \in Positions
                       /\ e = [id |-> e.id, pos |-> e.pos]
    BY <1>1 DEF EntityStates
<1>3. \A e \in fast : /\ e \in live /\ e \notin gone
                       /\ Moved(e) = [id |-> e.id, pos |-> e.pos + 1]
                       /\ Moved(e) \in EntityStates /\ Moved(e).id = e.id
    BY <1>1, <1>2 DEF EntityStates, Positions
<1> HIDE DEF Moved
<1>4. after = (live \ (gone \cup fast)) \cup {Moved(e) : e \in fast}
    BY DEF Moved, AfterMoves
<1>5. \A g \in after :
          \/ g \in live /\ g \notin gone /\ g \notin fast
          \/ \E e \in fast : g = Moved(e)
    BY <1>4
<1>6. after \in SUBSET EntityStates
    BY <1>1, <1>3, <1>5
<1>7. Distinct(after)
    <2> SUFFICES ASSUME NEW g \in after, NEW h \in after, g.id = h.id
                 PROVE  g = h
        BY DEF Distinct
    <2>1. CASE g \notin fast /\ g \in live
        BY <1>1, <1>3, <1>5, <2>1 DEF Distinct
    <2>2. ASSUME NEW e \in fast, g = Moved(e)
          PROVE  g = h
        BY <1>1, <1>3, <1>5, <2>2 DEF Distinct
    <2>3. QED
        BY <1>5, <2>1, <2>2
<1>8. \A g \in after : \E e \in live : e.id = g.id /\ e \notin gone
    BY <1>3, <1>5
<1>9. \A e \in live : e \in gone <=> ~Is(e.id, after)
    <2>1. ASSUME NEW e \in live, e \in gone, NEW g \in after, g.id = e.id
          PROVE  FALSE
        BY <1>1, <1>8, <2>1 DEF Distinct
    <2>2. ASSUME NEW e \in live, e \notin gone
          PROVE  Is(e.id, after)
        <3>1. CASE e \in fast
            BY <1>3, <1>4, <3>1 DEF Is
        <3>2. CASE e \notin fast
            BY <1>4, <2>2, <3>2 DEF Is
        <3>3. QED
            BY <3>1, <3>2
    <2>3. QED
        BY <2>1, <2>2 DEF Is
<1>10. R = {Changed(g) : g \in after}
               \cup {Destroy(e) : e \in {f \in live : ~Is(f.id, after)}}
    BY DEF Reports, Updates
<1> HIDE DEF R
<1>11. \A m \in R :
          \/ \E g \in after : m = Changed(g)
          \/ \E e \in live : e \in gone /\ m = Destroy(e)
    BY <1>9, <1>10
<1>12. (\A g \in after : Changed(g) \in R) /\ \A e \in gone : Destroy(e) \in R
    BY <1>9, <1>10
<1>13. \A g \in after : g.id \in Ids /\ g.pos \in Positions
    BY <1>6 DEF EntityStates
<1>14. R \in SUBSET EntityMessages
    <2>1. \A g \in after : Changed(g) \in EntityMessages
        BY <1>13 DEF EntityMessages
    <2>2. \A e \in live : Destroy(e) \in EntityMessages
        BY <1>2 DEF EntityMessages
    <2> HIDE DEF Changed, Destroy
    <2>3. QED
        BY <1>11, <2>1, <2>2
<1>15. \A e \in live : \E m \in R : m.type /= "sync" /\ m.id = e.id
    <2> SUFFICES ASSUME NEW e \in live
                 PROVE  \E m \in R : m.type /= "sync" /\ m.id = e.id
        OBVIOUS
    <2>1. CASE e \in gone
        <3>1. Destroy(e) \in R /\ Destroy(e).type /= "sync" /\ Destroy(e).id = e.id
            BY <1>12, <2>1
        <3>2. QED
            BY <3>1
    <2>2. CASE e \notin gone
        <3>1. PICK g \in after : g.id = e.id
            BY <1>9, <2>2 DEF Is
        <3>2. Changed(g) \in R /\ Changed(g).type /= "sync" /\ Changed(g).id = e.id
            BY <1>12, <3>1
        <3>3. QED
            BY <3>2
    <2>3. QED
        BY <2>1, <2>2
<1>16. ASSUME NEW m \in R
       PROVE  /\ \E e \in live : e.id = m.id
              /\ \/ /\ m.type = "update" /\ Is(m.id, after)
                    /\ m.pos = At(m.id, after)
                    /\ m.pos \in Positions
                 \/ m.type = "destroy" /\ ~Is(m.id, after)
    <2>1. ASSUME NEW g \in after, m = Changed(g)
          PROVE  /\ m.type = "update" /\ Is(m.id, after)
                 /\ m.pos = At(m.id, after)
                 /\ m.pos \in Positions
                 /\ \E e \in live : e.id = m.id
        <3>1. m.type = "update" /\ m.id = g.id /\ m.pos = g.pos
            BY <2>1
        <3>2. Is(g.id, after) /\ At(g.id, after) = g.pos
            BY <1>6, <1>7, AtIs
        <3>3. QED
            BY <1>8, <1>13, <3>1, <3>2
    <2>2. ASSUME NEW e \in live, e \in gone, m = Destroy(e)
          PROVE  /\ m.type = "destroy" /\ ~Is(m.id, after)
                 /\ \E d \in live : d.id = m.id
        BY <1>9, <2>2
    <2>3. QED
        BY <1>11, <2>1, <2>2
<1>17. IsFiniteSet(R) /\ Cardinality(R) <= Cardinality(live)
    <2> DEFINE f == [e \in live |->
                       IF e \in gone THEN Destroy(e)
                       ELSE IF e \in fast THEN Changed(Moved(e)) ELSE Changed(e)]
    <2>1. \A e \in live : f[e] \in R
        <3>1. \A e \in fast : Moved(e) \in after
            BY <1>4
        <3>2. \A e \in live : e \notin gone /\ e \notin fast => e \in after
            BY <1>4
        <3> HIDE DEF Changed, Destroy
        <3>3. QED
            BY <1>12, <3>1, <3>2
    <2>2. \A m \in R : \E e \in live : f[e] = m
        <3> HIDE DEF Changed, Destroy
        <3>1. ASSUME NEW g \in after
              PROVE  \E e \in live : f[e] = Changed(g)
            BY <1>3, <1>5
        <3>2. QED
            BY <1>11, <3>1
    <2>3. f \in Surjection(live, R)
        <3>1. f \in [live -> R]
            BY <2>1
        <3> HIDE DEF f
        <3>2. QED
            BY <2>2, <3>1 DEF Surjection
    <2>4. QED
        BY <2>3, LiveIsFinite, FS_Surjection
<1>18. QED
    BY <1>6, <1>7, <1>8, <1>14, <1>15, <1>16, <1>17 DEF R, Reported

\* Every step keeps the types, and that ids are given in order.
LEMMA EntTypes ==
    ASSUME ViewTypeOK,
           BornInOrder, [ViewNext]_(viewVars)
    PROVE  ViewTypeOK' /\ BornInOrder'
<1> USE DEF ViewTypeOK, BornInOrder
<1>0. MaxId \in Nat /\ MaxPos \in Nat /\ MaxQueued \in Nat
    BY BoundsAssumption
<1>1. CASE UpdatePlayerUdpAddr
    BY <1>1 DEF UpdatePlayerUdpAddr, serverVars
<1>2. CASE SpawnEntity
    <2> DEFINE new == [id |-> nextId, pos |-> 0]
               spawn == [type |-> "spawn", id |-> nextId, pos |-> 0]
    <2>1. nextId \in Ids /\ 0 \in Positions /\ nextId + 1 \in 1 .. MaxId + 1
        BY <1>0, <1>2 DEF SpawnEntity, Ids, Positions
    <2>2. new \in EntityStates /\ spawn \in EntityMessages
        BY <2>1 DEF EntityStates, EntityMessages
    <2>3. net' \in Seq(EntityMessages) /\ Len(net') <= MaxQueued
        <3>1. <<spawn>> \in Seq(EntityMessages) /\ Send(<<spawn>>)
            BY <1>2, <2>2 DEF SpawnEntity
        <3> HIDE DEF spawn
        <3>2. QED
            BY <3>1, EntSend
    <2>4. /\ live' = live \cup {new} /\ nextId' = nextId + 1 /\ new.id = nextId
          /\ UNCHANGED <<network, cut, addrKnown, since, view>>
        BY <1>2 DEF SpawnEntity
    <2>5. \A e \in live : e.id \in Nat /\ e.id < nextId
        BY DEF EntityStates, Ids
    <2>6. /\ \A e, f \in live' : e.id = f.id => e = f
          /\ \A e \in live' : e.id < nextId'
        BY <2>1, <2>4, <2>5
    <2>7. QED
        BY <2>1, <2>2, <2>3, <2>4, <2>6
<1>3. CASE UpdateEntities
    <2>1. \E gone \in SUBSET live : \E fast \in SUBSET (live \ gone) :
              /\ \A e \in fast : e.pos < MaxPos
              /\ live' = AfterMoves(gone, fast)
        <3>1. PICK gone \in SUBSET live :
                \E fast \in SUBSET {e \in live \ gone : e.pos < MaxPos} :
                    live' = AfterMoves(gone, fast)
            BY <1>3 DEF UpdateEntities, AfterMoves
        <3>2. PICK fast \in SUBSET {e \in live \ gone : e.pos < MaxPos} :
                live' = AfterMoves(gone, fast)
            BY <3>1
        <3>3. fast \in SUBSET (live \ gone) /\ \A e \in fast : e.pos < MaxPos
            OBVIOUS
        <3>4. QED
            BY <3>2, <3>3
    <2>2. /\ live' \in SUBSET EntityStates /\ Distinct(live')
          /\ \A g \in live' : \E e \in live : e.id = g.id
          /\ Reports(live') \in SUBSET EntityMessages
          /\ IsFiniteSet(Reports(live'))
        <3> HIDE DEF ViewTypeOK
        <3>1. Reported(live')
            BY <2>1, EntReports
        <3>2. QED
            BY <3>1 DEF Reported
    <2>3. SetToSeq(Reports(live')) \in Seq(EntityMessages)
        BY <2>2, SetToSeqIs
    <2>4. net' \in Seq(EntityMessages) /\ Len(net') <= MaxQueued
        BY <1>3, <2>3, EntSend DEF UpdateEntities
    <2>5. UNCHANGED <<network, nextId, cut, addrKnown, since, view>>
        BY <1>3 DEF UpdateEntities
    <2>6. Distinct(live') <=> \A e, f \in live' : e.id = f.id => e = f
        BY DEF Distinct
    <2>7. QED
        BY <2>2, <2>4, <2>5, <2>6
<1>4. CASE SendGlobalStateSync
    <2> DEFINE few == {e \in live :
                  Cardinality({f \in live : f.id < e.id}) < SyncMax}
               sync == [type |-> "sync", states |-> few]
    <2>1. sync \in EntityMessages
        BY DEF EntityMessages
    <2>2. net' \in Seq(EntityMessages) /\ Len(net') <= MaxQueued
        <3>1. <<sync>> \in Seq(EntityMessages) /\ Send(<<sync>>)
            BY <1>4, <2>1 DEF SendGlobalStateSync
        <3> HIDE DEF sync
        <3>2. QED
            BY <3>1, EntSend
    <2>3. QED
        BY <1>4, <2>2 DEF SendGlobalStateSync, serverVars
<1>5. ASSUME NEW i, Deliver(i)
      PROVE  ViewTypeOK' /\ BornInOrder'
    <2>1. net[i] \in EntityMessages /\ i \in DOMAIN net
        BY <1>5 DEF Deliver
    <2>2. view' \in [Ids -> Positions \cup {Absent}]
        BY <1>5, <2>1, EntAfterMessage DEF Deliver
    <2>3. net' \in Seq(EntityMessages) /\ Len(net') <= MaxQueued
        BY <1>0, <1>5, <2>1, RemovalIs DEF Deliver
    <2>4. QED
        BY <1>5, <2>2, <2>3 DEF Deliver, serverVars
<1>6. ASSUME NEW i, Lose(i)
      PROVE  ViewTypeOK' /\ BornInOrder'
    <2>1. net' \in Seq(EntityMessages) /\ Len(net') <= MaxQueued
        BY <1>0, <1>6, RemovalIs DEF Lose
    <2>2. QED
        BY <1>6, <2>1 DEF Lose, serverVars
<1>7. CASE UNCHANGED viewVars
    BY <1>7 DEF viewVars, serverVars
<1>8. QED
    BY <1>1, <1>2, <1>3, <1>4, <1>5, <1>6, <1>7 DEF ViewNext

\* The last message about an entity says how it is.
LastSaysActual ==
    \A i \in Ids : \A k \in DOMAIN net :
        /\ About(net[k], i)
        /\ \A l \in DOMAIN net : l > k => ~About(net[l], i)
        => Says(net[k], i) = Actual(i)

\* An update finds its entity: the message about it before that one, or else
\* what the client sees, says that it is there.
UpdatesAreOfKnown ==
    \A i \in Ids : \A k \in DOMAIN net :
        i >= since /\ net[k].type = "update" /\ net[k].id = i =>
            /\ \A j \in DOMAIN net :
                  /\ j < k /\ About(net[j], i)
                  /\ \A l \in DOMAIN net : j < l /\ l < k => ~About(net[l], i)
                  => Says(net[j], i) /= Absent
            /\ (\A j \in DOMAIN net : j < k => ~About(net[j], i)) => view[i] /= Absent

\* What no message is about is as the client sees it.
UntoldIsActual ==
    \A i \in Ids :
        /\ \A k \in DOMAIN net : ~About(net[k], i)
        /\ i >= since \/ view[i] /= Absent
        => view[i] = Actual(i)

Told == LastSaysActual /\ UpdatesAreOfKnown /\ UntoldIsActual

\* Nothing is known before the address is.
NothingYet == net = << >> /\ \A i \in Ids : view[i] = Absent

EntInv ==
    /\ ViewTypeOK /\ BornInOrder
    /\ ~addrKnown => NothingYet
    /\ network = "perfect" /\ addrKnown /\ ~cut => Told

\* An entity that lives is somewhere.
LEMMA ActualIs ==
    ASSUME ViewTypeOK
    PROVE  /\ \A e \in live : Actual(e.id) = e.pos /\ e.pos /= Absent
           /\ \A i : ~Is(i, live) => Actual(i) = Absent
           /\ \A i : Is(i, live) => Actual(i) \in Positions
           /\ Absent \notin Positions
<1>1. live \in SUBSET EntityStates /\ Distinct(live)
    BY DEF ViewTypeOK, Distinct
<1>2. Absent \notin Positions
    BY AbsentAssumption, BoundsAssumption DEF Positions
<1>3. \A e \in live : e.pos \in Positions
    BY <1>1 DEF EntityStates
<1>4. QED
    BY <1>1, <1>2, <1>3, AtIs, AtType DEF Actual

\* Messages are sent that say of all that changes how it is now. An update
\* among them is of an entity that lived before and still does.
LEMMA EntAppend ==
    ASSUME ViewTypeOK, Told, UNCHANGED <<since, view>>,
           NEW more \in Seq(EntityMessages), net' = net \o more,
           \A i \in Ids :
               (\A k \in DOMAIN more : ~About(more[k], i)) =>
                   Actual(i)' = Actual(i),
           \A i \in Ids : \A k \in DOMAIN more : About(more[k], i) =>
               Says(more[k], i) = Actual(i)',
           \A i \in Ids : \A k \in DOMAIN more :
               more[k].type = "update" /\ more[k].id = i =>
                   Actual(i) /= Absent /\ Actual(i)' /= Absent
    PROVE  Told'
<1> DEFINE n == Len(net)
           m == Len(more)
<1>1. /\ n \in Nat /\ m \in Nat /\ DOMAIN net = 1 .. n /\ DOMAIN more = 1 .. m
      /\ DOMAIN net' = 1 .. n + m
      /\ \A k \in 1 .. n : net'[k] = net[k]
      /\ \A k \in 1 .. m : net'[n + k] = more[k]
    <2>1. net \in Seq(EntityMessages)
        BY DEF ViewTypeOK
    <2>2. QED
        BY <2>1, ConcatIs
<1> HIDE DEF n, m
<1>2. LastSaysActual /\ UpdatesAreOfKnown /\ UntoldIsActual
    BY DEF Told
<1>3. \A k \in DOMAIN net' :
          \/ k \in DOMAIN net /\ net'[k] = net[k]
          \/ k > n /\ k - n \in DOMAIN more /\ net'[k] = more[k - n]
    <2> SUFFICES ASSUME NEW k \in DOMAIN net'
                 PROVE  \/ k \in DOMAIN net /\ net'[k] = net[k]
                        \/ k > n /\ k - n \in DOMAIN more /\ net'[k] = more[k - n]
        OBVIOUS
    <2>1. CASE k <= n
        BY <1>1, <2>1
    <2>2. CASE k > n
        <3>1. k - n \in 1 .. m /\ n + (k - n) = k
            BY <1>1, <2>2
        <3>2. QED
            BY <1>1, <2>2, <3>1
    <2>3. QED
        BY <1>1, <2>1, <2>2
<1>4. \A k \in DOMAIN net : k \in DOMAIN net' /\ net'[k] = net[k] /\ k <= n
    BY <1>1
<1>5. \A k \in DOMAIN more : n + k \in DOMAIN net' /\ net'[n + k] = more[k] /\ n + k > n
    BY <1>1
<1>6. n \in Nat /\ \A k \in DOMAIN net' : k \in Nat
    BY <1>1
\* What is old and is followed by nothing new about i was the last.
<1>7. ASSUME NEW i \in Ids, NEW k \in DOMAIN net, About(net[k], i),
             \A l \in DOMAIN net : l > k => ~About(net[l], i)
      PROVE  Says(net[k], i) = Actual(i)
    BY <1>2, <1>7 DEF LastSaysActual
<1>8. LastSaysActual'
    <2> SUFFICES ASSUME NEW i \in Ids, NEW k \in DOMAIN net', About(net'[k], i),
                        \A l \in DOMAIN net' : l > k => ~About(net'[l], i)
                 PROVE  Says(net'[k], i) = Actual(i)'
        BY DEF LastSaysActual, About, Says, Is, At
    <2>1. CASE k \in DOMAIN net /\ net'[k] = net[k]
        <3>1. \A l \in DOMAIN more : ~About(more[l], i)
            <4> SUFFICES ASSUME NEW l \in DOMAIN more
                         PROVE  ~About(more[l], i)
                OBVIOUS
            <4>1. n + l \in DOMAIN net' /\ net'[n + l] = more[l]
                BY <1>5
            <4>2. n + l > k
                BY <1>4, <1>5, <1>6, <2>1, <4>1
            <4>3. QED
                BY <4>1, <4>2
        <3>2. \A l \in DOMAIN net : l > k => ~About(net[l], i)
            BY <1>4
        <3>3. QED
            BY <1>7, <2>1, <3>1, <3>2
    <2>2. CASE k - n \in DOMAIN more /\ net'[k] = more[k - n]
        BY <2>2
    <2>3. QED
        BY <1>3, <2>1, <2>2
<1>9. UpdatesAreOfKnown'
    <2> SUFFICES ASSUME NEW i \in Ids, NEW k \in DOMAIN net', i >= since,
                        net'[k].type = "update", net'[k].id = i
                 PROVE  /\ \A j \in DOMAIN net' :
                              /\ j < k /\ About(net'[j], i)
                              /\ \A l \in DOMAIN net' :
                                    j < l /\ l < k => ~About(net'[l], i)
                              => Says(net'[j], i) /= Absent
                        /\ (\A j \in DOMAIN net' : j < k => ~About(net'[j], i)) =>
                              view[i] /= Absent
        BY DEF UpdatesAreOfKnown, About, Says, Is, At
    <2>1. CASE k \in DOMAIN net /\ net'[k] = net[k]
        <3>1. \A j \in DOMAIN net' : j < k => j \in DOMAIN net /\ net'[j] = net[j]
            BY <1>3, <1>4, <1>6, <2>1
        <3>2. /\ \A j \in DOMAIN net :
                    /\ j < k /\ About(net[j], i)
                    /\ \A l \in DOMAIN net : j < l /\ l < k => ~About(net[l], i)
                    => Says(net[j], i) /= Absent
              /\ (\A j \in DOMAIN net : j < k => ~About(net[j], i)) => view[i] /= Absent
            BY <1>2, <2>1 DEF UpdatesAreOfKnown
        <3>3. QED
            BY <1>4, <3>1, <3>2
    <2>2. CASE k > n /\ k - n \in DOMAIN more /\ net'[k] = more[k - n]
        <3>1. Actual(i) /= Absent /\ Actual(i)' /= Absent
            BY <2>2
        <3>2. ASSUME NEW j \in DOMAIN net', j < k, About(net'[j], i),
                     \A l \in DOMAIN net' : j < l /\ l < k => ~About(net'[l], i)
              PROVE  Says(net'[j], i) /= Absent
            <4>1. CASE j \in DOMAIN net /\ net'[j] = net[j]
                <5>1. \A l \in DOMAIN net : l > j => ~About(net[l], i)
                    BY <1>4, <1>6, <2>2, <3>2, <4>1
                <5>2. QED
                    BY <1>7, <3>1, <3>2, <4>1, <5>1
            <4>2. CASE j - n \in DOMAIN more /\ net'[j] = more[j - n]
                BY <3>1, <3>2, <4>2
            <4>3. QED
                BY <1>3, <4>1, <4>2
        <3>3. ASSUME \A j \in DOMAIN net' : j < k => ~About(net'[j], i)
              PROVE  view[i] /= Absent
            <4>1. \A j \in DOMAIN net : ~About(net[j], i)
                <5> SUFFICES ASSUME NEW j \in DOMAIN net
                             PROVE  ~About(net[j], i)
                    OBVIOUS
                <5>1. j \in DOMAIN net' /\ net'[j] = net[j] /\ j < k
                    BY <1>4, <1>6, <2>2
                <5>2. QED
                    BY <3>3, <5>1
            <4>2. view[i] = Actual(i)
                BY <1>2, <4>1 DEF UntoldIsActual
            <4>3. QED
                BY <3>1, <4>2
        <3>4. QED
            BY <3>2, <3>3
    <2>3. QED
        BY <1>3, <2>1, <2>2
<1>10. UntoldIsActual'
    <2> SUFFICES ASSUME NEW i \in Ids,
                        \A k \in DOMAIN net' : ~About(net'[k], i),
                        i >= since \/ view[i] /= Absent
                 PROVE  view[i] = Actual(i)'
        BY DEF UntoldIsActual, About, Is, At
    <2>1. \A k \in DOMAIN more : ~About(more[k], i)
        BY <1>5
    <2>2. \A k \in DOMAIN net : ~About(net[k], i)
        BY <1>4
    <2>3. QED
        BY <1>2, <2>1, <2>2 DEF UntoldIsActual
<1>11. QED
    BY <1>8, <1>9, <1>10 DEF Told

\* A birth is announced.
LEMMA EntSpawnStep ==
    ASSUME ViewTypeOK,
           BornInOrder, Told, network = "perfect", addrKnown, SpawnEntity
    PROVE  Told'
<1> DEFINE new == [id |-> nextId, pos |-> 0]
           spawn == [type |-> "spawn", id |-> nextId, pos |-> 0]
           more == <<spawn>>
<1>1. /\ nextId \in Ids /\ 0 \in Positions
      /\ new \in EntityStates /\ spawn \in EntityMessages
    BY BoundsAssumption
       DEF SpawnEntity, ViewTypeOK, Ids, Positions, EntityStates, EntityMessages
<1>2. /\ live' = live \cup {new} /\ new.id = nextId /\ new.pos = 0
      /\ UNCHANGED <<since, view>> /\ Send(more)
    BY DEF SpawnEntity
<1>3. more \in Seq(EntityMessages) /\ Len(more) = 1 /\ DOMAIN more = {1}
      /\ more[1] = spawn
    BY <1>1
<1>4. net' = net \o more
    <2>1. Len(net) + Len(more) <= MaxQueued
        BY <1>3 DEF SpawnEntity, RoomFor
    <2> HIDE DEF more
    <2>2. QED
        BY <1>2, <1>3, <2>1, EntSend
<1>5. \A e \in live : e.id < nextId /\ e.id \in Nat /\ nextId \in Nat
    BY <1>1 DEF BornInOrder, ViewTypeOK, EntityStates, Ids
<1>6. live' \in SUBSET EntityStates /\ Distinct(live')
    <2>1. live \in SUBSET EntityStates /\ Distinct(live)
        BY DEF ViewTypeOK, Distinct
    <2>2. QED
        BY <1>1, <1>2, <1>5, <2>1 DEF Distinct
<1>7. /\ Is(nextId, live') /\ At(nextId, live') = 0
    <2>1. new \in live'
        BY <1>2
    <2>2. Is(new.id, live') /\ At(new.id, live') = new.pos
        BY <1>6, <2>1, AtIs
    <2>3. QED
        BY <1>2, <2>2
<1>8. ASSUME NEW i \in Ids, i = nextId
      PROVE  Actual(i)' = 0
    <2>1. Actual(i)' = IF Is(i, live') THEN At(i, live')
                                                        ELSE Absent
        BY DEF Actual, Is, At
    <2>2. QED
        BY <1>7, <1>8, <2>1
<1>9. ASSUME NEW i \in Ids, i /= nextId
      PROVE  Actual(i)' = Actual(i)
    <2>1. \A e : e \in live /\ e.id = i <=> e \in live' /\ e.id = i
        BY <1>2, <1>9
    <2>2. Is(i, live) <=> Is(i, live')
        BY <2>1 DEF Is
    <2>3. Is(i, live) => At(i, live) = At(i, live')
        <3>1. ASSUME Is(i, live)
              PROVE  At(i, live) = At(i, live')
            <4>1. PICK e \in live : e.id = i
                BY <3>1 DEF Is
            <4>2. e \in live' /\ live \in SUBSET EntityStates /\ Distinct(live)
                BY <2>1, <4>1 DEF ViewTypeOK, Distinct
            <4>3. At(e.id, live) = e.pos
                BY <4>1, <4>2, AtIs
            <4>4. At(e.id, live') = e.pos
                BY <1>6, <4>2, AtIs
            <4>5. QED
                BY <4>1, <4>3, <4>4
        <3>2. QED
            BY <3>1
    <2>4. Actual(i)' = IF Is(i, live') THEN At(i, live')
                                                        ELSE Absent
        BY DEF Actual, Is, At
    <2>5. QED
        BY <2>2, <2>3, <2>4 DEF Actual
<1>10. \A i \in Ids :
           /\ About(more[1], i) <=> i = nextId
           /\ i = nextId => Says(more[1], i) = 0
    BY <1>3 DEF About, Says
<1>11. more[1].type /= "update"
    BY <1>3
<1> HIDE DEF more
<1>12. /\ \A i \in Ids :
             (\A k \in DOMAIN more : ~About(more[k], i)) =>
                 Actual(i)' = Actual(i)
       /\ \A i \in Ids : \A k \in DOMAIN more : About(more[k], i) =>
             Says(more[k], i) = Actual(i)'
       /\ \A i \in Ids : \A k \in DOMAIN more :
             more[k].type = "update" /\ more[k].id = i =>
                 Actual(i) /= Absent /\ Actual(i)' /= Absent
    BY <1>3, <1>8, <1>9, <1>10, <1>11
<1>13. QED
    BY <1>2, <1>3, <1>4, <1>12, EntAppend

\* All are told where they are, or that they died.
LEMMA EntUpdateStep ==
    ASSUME ViewTypeOK,
           Told, network = "perfect", addrKnown, UpdateEntities
    PROVE  Told'
<1> DEFINE R == Reports(live')
           more == SetToSeq(R)
<1>1. \E gone \in SUBSET live : \E fast \in SUBSET (live \ gone) :
          /\ \A e \in fast : e.pos < MaxPos
          /\ live' = AfterMoves(gone, fast)
    <2>1. PICK gone \in SUBSET live :
            \E fast \in SUBSET {e \in live \ gone : e.pos < MaxPos} :
                live' = AfterMoves(gone, fast)
        BY DEF UpdateEntities, AfterMoves
    <2>2. PICK fast \in SUBSET {e \in live \ gone : e.pos < MaxPos} :
            live' = AfterMoves(gone, fast)
        BY <2>1
    <2>3. fast \in SUBSET (live \ gone) /\ \A e \in fast : e.pos < MaxPos
        OBVIOUS
    <2>4. QED
        BY <2>2, <2>3
<1>2. /\ live' \in SUBSET EntityStates /\ Distinct(live')
      /\ \A g \in live' : \E e \in live : e.id = g.id
      /\ R \in SUBSET EntityMessages /\ IsFiniteSet(R)
      /\ Cardinality(R) <= Cardinality(live)
      /\ \A e \in live : \E m \in R : m.type /= "sync" /\ m.id = e.id
      /\ \A m \in R :
            /\ \E e \in live : e.id = m.id
            /\ \/ /\ m.type = "update" /\ Is(m.id, live')
                  /\ m.pos = At(m.id, live')
                  /\ m.pos \in Positions
               \/ m.type = "destroy" /\ ~Is(m.id, live')
    <2>1. Reported(live')
        BY <1>1, EntReports
    <2>2. QED
        BY <2>1 DEF Reported
<1>3. UNCHANGED <<since, view>> /\ Send(more)
      /\ RoomFor(Cardinality(live))
    BY DEF UpdateEntities
<1> HIDE DEF R
<1>4. /\ more \in Seq(R) /\ Len(more) = Cardinality(R)
      /\ \A e \in R : \E k \in DOMAIN more : more[k] = e
    BY <1>2, SetToSeqIs
<1> HIDE DEF more
<1>5. more \in Seq(EntityMessages) /\ \A k \in DOMAIN more : more[k] \in R
    BY <1>2, <1>4
<1>6. net' = net \o more
    <2>1. Cardinality(live) \in Nat
        BY LiveIsFinite
    <2>2. Len(net) + Cardinality(live) <= MaxQueued
        BY <1>3, <2>1 DEF RoomFor
    <2>3. Len(net) \in Nat /\ Cardinality(R) \in Nat /\ MaxQueued \in Nat
        BY <1>2, FS_CardinalityType, BoundsAssumption DEF ViewTypeOK
    <2>4. Len(net) + Len(more) <= MaxQueued
        BY <1>2, <1>4, <2>1, <2>2, <2>3
    <2>5. QED
        BY <1>3, <1>5, <2>4, EntSend
<1>7. \A i : Actual(i)' = IF Is(i, live') THEN At(i, live')
                                                            ELSE Absent
    BY DEF Actual, Is, At
<1>8. \A m \in R : m.type /= "sync"
    BY <1>2
<1>9. ASSUME NEW i \in Ids, \A k \in DOMAIN more : ~About(more[k], i)
      PROVE  Actual(i)' = Actual(i)
    <2>1. \A m \in R : m.id /= i
        BY <1>4, <1>8, <1>9 DEF About
    <2>2. \A e \in live : e.id /= i
        BY <1>2, <2>1
    <2>3. ~Is(i, live) /\ ~Is(i, live')
        BY <1>2, <2>2 DEF Is
    <2>4. QED
        BY <1>7, <2>3 DEF Actual
<1>10. ASSUME NEW i \in Ids, NEW k \in DOMAIN more, About(more[k], i)
       PROVE  Says(more[k], i) = Actual(i)'
    <2>1. more[k] \in R /\ more[k].type /= "sync" /\ more[k].id = i
        BY <1>5, <1>8, <1>10 DEF About
    <2>2. CASE /\ more[k].type = "update" /\ Is(i, live')
               /\ more[k].pos = At(i, live')
        BY <1>7, <2>1, <2>2 DEF Says
    <2>3. CASE more[k].type = "destroy" /\ ~Is(i, live')
        BY <1>7, <2>1, <2>3 DEF Says
    <2>4. QED
        BY <1>2, <2>1, <2>2, <2>3
<1>11. ASSUME NEW i \in Ids, NEW k \in DOMAIN more,
              more[k].type = "update", more[k].id = i
       PROVE  Actual(i) /= Absent /\ Actual(i)' /= Absent
    <2>1. more[k] \in R
        BY <1>5
    <2>2. /\ Is(i, live') /\ At(i, live') \in Positions
          /\ \E e \in live : e.id = i
        BY <1>2, <1>11, <2>1
    <2>3. Absent \notin Positions /\ Actual(i) /= Absent
        BY <2>2, ActualIs
    <2>4. QED
        BY <1>7, <2>2, <2>3
<1>12. QED
    BY <1>3, <1>5, <1>6, <1>9, <1>10, <1>11, EntAppend

\* A sync that is not cut off has all that live.
LEMMA EntSyncStep ==
    ASSUME ViewTypeOK, BornInOrder, Told,
           network = "perfect", addrKnown, ~cut',
           SendGlobalStateSync
    PROVE  Told'
<1> DEFINE few == {e \in live :
              Cardinality({f \in live : f.id < e.id}) < SyncMax}
           sync == [type |-> "sync", states |-> few]
           more == <<sync>>
<1>1. live \in SUBSET EntityStates /\ Distinct(live) /\ SyncMax \in Nat
      /\ nextId \in Nat
    BY SyncAssumption, BoundsAssumption DEF ViewTypeOK, Distinct
<1>2. few = live
    <2>1. ASSUME NEW e \in live
          PROVE  Cardinality({f \in live : f.id < e.id}) < SyncMax
        <3> DEFINE S == {f \in live : f.id < e.id}
        <3>1. IsFiniteSet(live) /\ Cardinality(live) \in Nat
            BY LiveIsFinite
        <3>2. Cardinality(live) <= SyncMax
            <4>1. cut' = (cut \/ (addrKnown /\ Cardinality(live) > SyncMax))
                BY DEF SendGlobalStateSync
            <4>2. ~(Cardinality(live) > SyncMax)
                BY <4>1, Zenon
            <4>3. QED
                BY <1>1, <3>1, <4>2
        <3>3. e.id \in Nat
            BY <1>1 DEF EntityStates, Ids
        <3>4. S \in SUBSET (live \ {e})
            BY <3>3
        <3>5. /\ IsFiniteSet(live \ {e})
              /\ Cardinality(live \ {e}) = Cardinality(live) - 1
            BY <3>1, FS_RemoveElement
        <3> HIDE DEF S
        <3>6. Cardinality(S) <= Cardinality(live) - 1 /\ Cardinality(S) \in Nat
            BY <3>4, <3>5, FS_Subset, FS_CardinalityType
        <3>7. QED
            BY <1>1, <3>1, <3>2, <3>6 DEF S
    <2>2. QED
        BY <2>1
<1>3. Send(more) /\ UNCHANGED <<live, since, view>>
    BY DEF SendGlobalStateSync, serverVars
<1> HIDE DEF few
<1>4. /\ sync \in EntityMessages /\ sync.type = "sync" /\ sync.states = live
    BY <1>1, <1>2 DEF EntityMessages
<1> HIDE DEF sync
<1>5. /\ more \in Seq(EntityMessages) /\ Len(more) = 1 /\ DOMAIN more = {1}
      /\ more[1] = sync
    BY <1>4
<1> HIDE DEF more
<1>6. net' = net \o more
    <2>1. Len(net) + Len(more) <= MaxQueued
        BY <1>5 DEF SendGlobalStateSync, RoomFor
    <2>2. QED
        BY <1>3, <1>5, <2>1, EntSend
<1>7. \A i : Actual(i)' = Actual(i)
    BY <1>3 DEF Actual, Is, At
<1>8. \A i : Says(sync, i) = Actual(i)
    BY <1>4 DEF Says, Actual
<1>9. /\ \A i \in Ids : \A k \in DOMAIN more : About(more[k], i) =>
             Says(more[k], i) = Actual(i)'
      /\ \A k \in DOMAIN more : more[k].type /= "update"
    BY <1>4, <1>5, <1>7, <1>8
<1>10. QED
    BY <1>3, <1>5, <1>6, <1>7, <1>9, EntAppend

\* The client reads the oldest message.
LEMMA EntDeliverStep ==
    ASSUME ViewTypeOK, Told, network = "perfect",
           NEW d, Deliver(d)
    PROVE  Told'
<1> DEFINE n == Len(net)
           m == net[1]
<1>1. /\ n \in Nat /\ DOMAIN net = 1 .. n /\ 1 \in DOMAIN net
      /\ m \in EntityMessages
    BY DEF ViewTypeOK, Deliver
<1>2. UNCHANGED <<live, since>> /\ view' = AfterMessage(m)
    BY DEF Deliver, serverVars
<1>3. /\ DOMAIN net' = 1 .. n - 1
      /\ \A k \in 1 .. n - 1 : net'[k] = net[k + 1]
    <2> DEFINE r == RemoveAt(net, 1)
    <2>1. net \in Seq(EntityMessages) /\ net' = r
        BY DEF Deliver, ViewTypeOK
    <2>2. /\ r \in Seq(EntityMessages) /\ Len(r) = Len(net) - 1
          /\ \A j \in 1 .. Len(net) - 1 : r[j] = net[j + 1]
        BY <1>1, <2>1, RemovalIs
    <2> HIDE DEF r
    <2>3. QED
        BY <2>1, <2>2
<1>4. \A i \in Ids :
          /\ ~About(m, i) => view'[i] = view[i]
          /\ About(m, i) =>
                \/ view'[i] = Says(m, i)
                \/ m.type = "update" /\ view[i] = Absent /\ view'[i] = Absent
    BY <1>1, <1>2, EntAfterMessage
<1>5. LastSaysActual /\ UpdatesAreOfKnown /\ UntoldIsActual
    BY DEF Told
<1>6. \A k \in DOMAIN net' :
          k \in Nat /\ k + 1 \in DOMAIN net /\ 1 < k + 1 /\ net'[k] = net[k + 1]
    BY <1>1, <1>3
<1>7. \A k \in DOMAIN net : k \in Nat /\ (k /= 1 =>
          k > 1 /\ k - 1 \in DOMAIN net' /\ net'[k - 1] = net[k])
    BY <1>1, <1>3
<1> HIDE DEF n
<1>8. \A i : Actual(i)' = Actual(i)
    BY <1>2 DEF Actual, Is, At
\* An update of a known entity is believed.
<1>9. \A i \in Ids : About(m, i) /\ (i >= since \/ view'[i] /= Absent) =>
          view'[i] = Says(m, i)
    <2> SUFFICES ASSUME NEW i \in Ids, About(m, i), i >= since,
                        m.type = "update", view[i] = Absent
                 PROVE  FALSE
        BY <1>4
    <2>1. m.id = i
        BY DEF About
    <2>2. \A j \in DOMAIN net : ~(j < 1)
        BY <1>1
    <2>3. view[i] /= Absent
        BY <1>1, <1>5, <2>1, <2>2 DEF UpdatesAreOfKnown
    <2>4. QED
        BY <2>3
<1> HIDE DEF m
<1>10. LastSaysActual'
    <2> SUFFICES ASSUME NEW i \in Ids, NEW k \in DOMAIN net', About(net'[k], i),
                        \A l \in DOMAIN net' : l > k => ~About(net'[l], i)
                 PROVE  Says(net'[k], i) = Actual(i)
        BY <1>8 DEF LastSaysActual, About, Says, Is, At
    <2>1. ASSUME NEW l \in DOMAIN net, l > k + 1
          PROVE  ~About(net[l], i)
        <3>1. l - 1 \in DOMAIN net' /\ net'[l - 1] = net[l] /\ l - 1 > k
            BY <1>6, <1>7, <2>1
        <3>2. QED
            BY <3>1
    <2>2. QED
        BY <1>5, <1>6, <2>1 DEF LastSaysActual
<1>11. UpdatesAreOfKnown'
    <2> SUFFICES ASSUME NEW i \in Ids, NEW k \in DOMAIN net', i >= since,
                        net'[k].type = "update", net'[k].id = i
                 PROVE  /\ \A j \in DOMAIN net' :
                              /\ j < k /\ About(net'[j], i)
                              /\ \A l \in DOMAIN net' :
                                    j < l /\ l < k => ~About(net'[l], i)
                              => Says(net'[j], i) /= Absent
                        /\ (\A j \in DOMAIN net' : j < k => ~About(net'[j], i)) =>
                              view'[i] /= Absent
        BY <1>2 DEF UpdatesAreOfKnown, About, Says, Is, At
    <2>1. k + 1 \in DOMAIN net /\ net[k + 1].type = "update" /\ net[k + 1].id = i
          /\ k \in Nat
        BY <1>6
    <2>2. /\ \A j \in DOMAIN net :
                /\ j < k + 1 /\ About(net[j], i)
                /\ \A l \in DOMAIN net : j < l /\ l < k + 1 => ~About(net[l], i)
                => Says(net[j], i) /= Absent
          /\ (\A j \in DOMAIN net : j < k + 1 => ~About(net[j], i)) => view[i] /= Absent
        BY <1>5, <2>1 DEF UpdatesAreOfKnown
    <2>3. ASSUME NEW j \in DOMAIN net', j < k, About(net'[j], i),
                 \A l \in DOMAIN net' : j < l /\ l < k => ~About(net'[l], i)
          PROVE  Says(net'[j], i) /= Absent
        <3>1. j + 1 \in DOMAIN net /\ j + 1 < k + 1 /\ net'[j] = net[j + 1] /\ j \in Nat
            BY <1>6, <2>1, <2>3
        <3>2. ASSUME NEW l \in DOMAIN net, j + 1 < l, l < k + 1
              PROVE  ~About(net[l], i)
            <4>1. l - 1 \in DOMAIN net' /\ net'[l - 1] = net[l] /\ j < l - 1 /\ l - 1 < k
                BY <1>7, <2>1, <3>1, <3>2
            <4>2. QED
                BY <2>3, <4>1
        <3>3. QED
            BY <2>2, <2>3, <3>1, <3>2
    <2>4. ASSUME \A j \in DOMAIN net' : j < k => ~About(net'[j], i)
          PROVE  view'[i] /= Absent
        <3>1. ASSUME NEW j \in DOMAIN net, j /= 1, j < k + 1
              PROVE  ~About(net[j], i)
            <4>1. j - 1 \in DOMAIN net' /\ net'[j - 1] = net[j] /\ j - 1 < k
                BY <1>7, <2>1, <3>1
            <4>2. QED
                BY <2>4, <4>1
        <3>2. 1 < k + 1 /\ \A l \in DOMAIN net : 1 < l => l /= 1
            BY <1>6
        <3>3. CASE About(m, i)
            <4>1. \A l \in DOMAIN net : 1 < l /\ l < k + 1 => ~About(net[l], i)
                BY <3>1, <3>2
            <4>2. Says(m, i) /= Absent
                BY <1>1, <2>2, <3>2, <3>3, <4>1 DEF m
            <4>3. QED
                BY <1>9, <3>3, <4>2
        <3>4. CASE ~About(m, i)
            <4>1. \A j \in DOMAIN net : j < k + 1 => ~About(net[j], i)
                BY <3>1, <3>4 DEF m
            <4>2. QED
                BY <1>4, <2>2, <3>4, <4>1
        <3>5. QED
            BY <3>3, <3>4
    <2>5. QED
        BY <2>3, <2>4
<1>12. UntoldIsActual'
    <2> SUFFICES ASSUME NEW i \in Ids,
                        \A k \in DOMAIN net' : ~About(net'[k], i),
                        i >= since \/ view'[i] /= Absent
                 PROVE  view'[i] = Actual(i)
        BY <1>2, <1>8 DEF UntoldIsActual, About, Is, At
    <2>1. \A k \in DOMAIN net : k /= 1 => ~About(net[k], i)
        BY <1>7
    <2>2. CASE About(m, i)
        <3>1. \A l \in DOMAIN net : l > 1 => ~About(net[l], i)
            BY <1>7, <2>1
        <3>2. Says(m, i) = Actual(i)
            BY <1>1, <1>5, <2>2, <3>1 DEF LastSaysActual, m
        <3>3. QED
            BY <1>9, <2>2, <3>2
    <2>3. CASE ~About(m, i)
        <3>1. \A k \in DOMAIN net : ~About(net[k], i)
            BY <2>1, <2>3 DEF m
        <3>2. view'[i] = view[i]
            BY <1>4, <2>3
        <3>3. QED
            BY <1>5, <3>1, <3>2 DEF UntoldIsActual
    <2>4. QED
        BY <2>2, <2>3
<1>13. QED
    BY <1>10, <1>11, <1>12 DEF Told

\* Every step keeps the invariant.
LEMMA EntStep ==
    ASSUME EntInv, [ViewNext]_(viewVars)
    PROVE  EntInv'
<1>1. ViewTypeOK' /\ BornInOrder'
    BY EntTypes DEF EntInv
<1>2. ViewTypeOK /\ BornInOrder
    BY DEF EntInv
<1>3. network' = network /\ nextId' \in Nat /\ nextId \in Nat /\ nextId <= nextId'
      /\ SyncMax \in Nat
    BY <1>1, <1>2, SyncAssumption, BoundsAssumption
       DEF ViewNext, UpdatePlayerUdpAddr, SpawnEntity, UpdateEntities,
           SendGlobalStateSync, Deliver, Lose, viewVars, serverVars, ViewTypeOK
<1>4. CASE UNCHANGED viewVars
    <2>1. UNCHANGED <<network, live, nextId, cut, addrKnown, since, net, view>>
        BY <1>4 DEF viewVars, serverVars
    <2>2. Told => Told'
        <3>1. \A i : Actual(i)' = Actual(i)
            BY <2>1 DEF Actual, Is, At
        <3>2. LastSaysActual => LastSaysActual'
            BY <2>1, <3>1 DEF LastSaysActual
        <3>3. UpdatesAreOfKnown => UpdatesAreOfKnown'
            BY <2>1, <3>1 DEF UpdatesAreOfKnown
        <3>4. UntoldIsActual => UntoldIsActual'
            BY <2>1, <3>1 DEF UntoldIsActual
        <3>5. QED
            BY <3>2, <3>3, <3>4 DEF Told
    <2>3. NothingYet => NothingYet'
        BY <2>1 DEF NothingYet
    <2>4. QED
        BY <1>1, <2>1, <2>2, <2>3 DEF EntInv
<1>5. CASE UpdatePlayerUdpAddr
    <2>1. /\ ~addrKnown /\ addrKnown' /\ since' = nextId
          /\ UNCHANGED <<live, net, view>>
        BY <1>5 DEF UpdatePlayerUdpAddr, serverVars
    <2>2. /\ DOMAIN net' = {} /\ \A i \in Ids : view'[i] = Absent
        BY <1>5, <2>1 DEF EntInv, NothingYet
    <2>3. \A i \in Ids : i >= nextId => Actual(i)' = Absent
        BY <1>2, <1>3, <2>1 DEF BornInOrder, Actual, Is, Ids,
           EntityStates, ViewTypeOK
    <2>4. Told'
        BY <2>1, <2>2, <2>3 DEF Told, LastSaysActual, UpdatesAreOfKnown, UntoldIsActual
    <2>5. QED
        BY <1>1, <2>1, <2>4 DEF EntInv
<1>6. ASSUME ViewNext, ~UpdatePlayerUdpAddr
      PROVE  EntInv'
    <2>1. addrKnown' = addrKnown
        BY <1>6 DEF ViewNext, SpawnEntity, UpdateEntities,
           SendGlobalStateSync, Deliver, Lose
    <2>2. ASSUME ~addrKnown
          PROVE  NothingYet'
        <3>1. NothingYet /\ DOMAIN net = {}
            BY <2>2 DEF EntInv, NothingYet
        <3>2. net' = net /\ view' = view
            BY <1>6, <2>2, <3>1 DEF ViewNext, SpawnEntity,
               UpdateEntities, SendGlobalStateSync, Deliver,
               Lose, Send
        <3>3. QED
            BY <3>1, <3>2 DEF NothingYet
    <2>3. ASSUME network = "perfect", addrKnown, ~cut'
          PROVE  Told'
        <3>0. ~cut
            BY <1>6, <2>3 DEF ViewNext, SpawnEntity, UpdateEntities,
               SendGlobalStateSync, Deliver, Lose, serverVars
        <3>1. Told
            BY <1>3, <2>3, <3>0 DEF EntInv
        <3>2. ~\E i : Lose(i)
            BY <2>3 DEF Lose
        <3>3. QED
            BY <1>2, <1>6, <2>3, <3>1, <3>2, EntSpawnStep, EntUpdateStep, EntSyncStep,
               EntDeliverStep DEF ViewNext
    <2>4. QED
        BY <1>1, <1>3, <2>1, <2>2, <2>3 DEF EntInv
<1>7. QED
    BY <1>4, <1>5, <1>6

\* The entities of Game::updateEntities, the datagrams about them and the map of
\* RTypeClient::update always stand in the relation EntInv.
THEOREM EntInvariant ==
    ViewSpec => []EntInv
<1>1. ViewInit => EntInv
    <2> SUFFICES ASSUME ViewInit
                 PROVE  EntInv
        OBVIOUS
    <2>1. /\ net = << >> /\ live = {} /\ addrKnown = FALSE /\ cut = FALSE /\ network \in Networks
          /\ nextId = 1 /\ since = 1 /\ view = [i \in Ids |-> Absent]
        BY DEF ViewInit
    <2>2. MaxId \in Nat /\ MaxQueued \in Nat /\ 1 \in 1 .. MaxId + 1
        BY BoundsAssumption
    <2>3. ViewTypeOK
        <3>1. net \in Seq(EntityMessages) /\ Len(net) <= MaxQueued
            BY <2>1, <2>2
        <3>2. view \in [Ids -> Positions \cup {Absent}]
            BY <2>1
        <3>3. live \in SUBSET EntityStates /\ \A e, f \in live : e.id = f.id => e = f
            BY <2>1
        <3>4. QED
            BY <2>1, <2>2, <3>1, <3>2, <3>3 DEF ViewTypeOK
    <2>4. BornInOrder /\ NothingYet /\ ~addrKnown
        BY <2>1 DEF BornInOrder, NothingYet
    <2>5. QED
        BY <2>3, <2>4 DEF EntInv
<1>2. EntInv /\ [ViewNext]_(viewVars) => EntInv'
    BY EntStep
<1>3. QED
    BY <1>1, <1>2, PTL DEF ViewSpec

\* Type correctness of EntityView: an entity has one id, the client's map has
\* only positions the server sends.
THEOREM EntityViewTypes ==
    ViewSpec => []ViewTypeOK
<1>1. EntInv => ViewTypeOK
    BY DEF EntInv
<1>2. QED
    BY <1>1, EntInvariant, PTL

\* Over a perfect network, once the client has read all there is, its map agrees
\* with the server on every entity that it sees or that was born since its
\* address is known: none lives on after its death, none is missing.
THEOREM DrainedViewIsExact ==
    ViewSpec => []DrainedIsExact
<1>1. EntInv => DrainedIsExact
    <2> SUFFICES ASSUME EntInv, network = "perfect", addrKnown, net = << >>,
                        ~cut, NEW i \in Ids,
                        i >= since \/ view[i] /= Absent
                 PROVE  view[i] = Actual(i)
        BY DEF DrainedIsExact
    <2>1. UntoldIsActual /\ DOMAIN net = {}
        BY DEF EntInv, Told
    <2>2. QED
        BY <2>1 DEF UntoldIsActual
<1>2. QED
    BY <1>1, EntInvariant, PTL

=============================================================================
