---------------------------- MODULE RoomProofs ----------------------------
(***************************************************************************)
(* Proofs about Room for any browsers, any number of connections and       *)
(* commands and any buffer.                                                *)
(***************************************************************************)
EXTENDS Room, FiniteSetTheorems, TLAPS

---------------------------------------------------------------------------
(* The inductive invariant *)

Frame ==
  [type : {"board"}, version : Nat, board : Nat] \cup [type : {"presence"}]
  \cup [type : {"ack"}, board : Nat] \cup [type : {"error"}]

\* What TypeOK leaves out.
Types ==
  /\ TypeOK
  /\ send \in [Conns -> Seq(Frame)]
  /\ local \in [Conns -> Frame]
  /\ \A c \in Conns : local[c].type # "board"

\* Of the first m commands, those that `owner` says x has.
Share(owner, m, x) == {i \in 1 .. m : owner[i] = x}

Made == 0
Lost == -1

\* Where each command sent has got to: its change is made, it is lost, or it
\* waits in an inbox.  So the changes and the inboxes are no more than it was.
Tally ==
  \E owner \in [1 .. commands -> Conns \cup {Made, Lost}] :
    /\ board = Cardinality(Share(owner, commands, Made))
    /\ \A c \in Conns : inbox[c] = Cardinality(Share(owner, commands, c))

\* OneRoom, the numbering of hubs, and which handlers are in the room.
Rooms ==
  /\ OneRoom
  /\ entry <= hubs
  /\ \A c \in Conns : pc[c] = "idle" => hubs < c
  /\ \A c \in Conns : hubOf[c] = NoHub <=> pc[c] \in {"idle", "done"}
  /\ members = {c \in Conns : pc[c] \in {"announce", "read", "deliver"}}

\* A browser is at the end of one open connection at most, and of none it
\* remembers nothing.
Sockets ==
  /\ \A c \in Conns : open[c] => browserOf[c] \in Browsers /\ pc[c] # "idle"
  /\ \A c, d \in Conns : open[c] /\ open[d] /\ browserOf[c] = browserOf[d] => c = d
  /\ \A b \in Browsers : (~\E c \in Conns : Connected(b, c)) => seen[b] = -1 /\ settled[b] = 0

\* What waits for c does not run ahead of the hub it came from and the retro.
QueueBehind(c) ==
  \A i \in 1 .. Len(send[c]) :
    /\ send[c][i].type = "board" =>
         send[c][i].version <= version[hubOf[c]] /\ send[c][i].board <= board
    /\ send[c][i].type = "ack" => send[c][i].board <= board

\* Nor do versions, what is shown and what is about to be queued; and nothing
\* is queued for who is not in the room yet, or is done.
Behind ==
  /\ \A h \in Hubs : version[h] <= board
  /\ \A b \in Browsers : shown[b] <= board
  /\ \A c \in Conns : pc[c] \in {"idle", "join", "done"} => send[c] = <<>>
  /\ \A c \in Conns : open[c] /\ hubOf[c] # NoHub => seen[browserOf[c]] <= version[hubOf[c]]
  /\ \A c \in Conns : local[c].type = "ack" => pc[c] = "deliver" /\ local[c].board <= board
  /\ \A c \in Conns : QueueBehind(c)

\* The first n frames that wait for c, and what its browser shows, include the
\* first k changes.
Covered(c, n, k) ==
  \/ k <= shown[browserOf[c]]
  \/ \E j \in 1 .. n : send[c][j].type = "board" /\ k <= send[c][j].board

\* Unless c falls behind, an ack comes after a board that includes what it
\* tells of.
AcksAt(c) ==
  open[c] /\ ~gone[c] /\ ~cancelled[c] =>
    /\ settled[browserOf[c]] > 0 => settled[browserOf[c]] <= shown[browserOf[c]]
    /\ \A i \in 1 .. Len(send[c]) : send[c][i].type = "ack" => Covered(c, i - 1, send[c][i].board)
    /\ local[c].type = "ack" => Covered(c, Len(send[c]), local[c].board)

AcksFollow == \A c \in Conns : AcksAt(c)

Inductive == Types /\ Tally /\ Rooms /\ Sockets /\ Behind /\ FramesInOrder /\ AcksFollow
---------------------------------------------------------------------------
(* Commands are not made up *)

\* One owner has no more commands than there are.
LEMMA ShareBound ==
  ASSUME NEW m \in Nat, NEW owner, NEW x
  PROVE  IsFiniteSet(Share(owner, m, x)) /\ Cardinality(Share(owner, m, x)) \in 0 .. m
<1>1. IsFiniteSet(1 .. m) /\ Cardinality(1 .. m) = m
  BY FS_Interval
<1>2. Share(owner, m, x) \subseteq 1 .. m
  BY DEF Share
<1>3. IsFiniteSet(Share(owner, m, x)) /\ Cardinality(Share(owner, m, x)) <= m
  BY <1>1, <1>2, FS_Subset
<1> QED
  BY <1>3, FS_CardinalityType

\* A command that goes from one owner to another.
LEMMA Reassigned ==
  ASSUME NEW m \in Nat, NEW owner, NEW o, NEW i \in 1 .. m,
         owner[i] # o[i], \A j \in 1 .. m : j # i => o[j] = owner[j]
  PROVE  /\ Cardinality(Share(o, m, o[i])) = Cardinality(Share(owner, m, o[i])) + 1
         /\ Cardinality(Share(o, m, owner[i])) = Cardinality(Share(owner, m, owner[i])) - 1
         /\ \A x : x # o[i] /\ x # owner[i] =>
              Cardinality(Share(o, m, x)) = Cardinality(Share(owner, m, x))
<1>1. Share(o, m, o[i]) = Share(owner, m, o[i]) \cup {i} /\ i \notin Share(owner, m, o[i])
  BY DEF Share
<1>2. Share(o, m, owner[i]) = Share(owner, m, owner[i]) \ {i} /\ i \in Share(owner, m, owner[i])
  BY DEF Share
<1>3. \A x : x # o[i] /\ x # owner[i] => Share(o, m, x) = Share(owner, m, x)
  BY DEF Share
<1>4. Cardinality(Share(o, m, o[i])) = Cardinality(Share(owner, m, o[i])) + 1
  BY <1>1, ShareBound, FS_AddElement
<1>5. Cardinality(Share(o, m, owner[i])) = Cardinality(Share(owner, m, owner[i])) - 1
  <2> DEFINE S == Share(owner, m, owner[i])
  <2>1. IsFiniteSet(S) /\ i \in S
    BY <1>2, ShareBound
  <2> HIDE DEF S
  <2>2. Cardinality(S \ {i}) = Cardinality(S) - 1
    BY <2>1, FS_RemoveElement
  <2> QED
    BY <1>2, <2>2 DEF S
<1> QED
  BY <1>3, <1>4, <1>5

\* One more command, with an owner.
LEMMA OneMoreSent ==
  ASSUME NEW m \in Nat, NEW n, n = m + 1, NEW owner, NEW o, NEW y, o[n] = y,
         \A i \in 1 .. m : o[i] = owner[i]
  PROVE  /\ Cardinality(Share(o, n, y)) = Cardinality(Share(owner, m, y)) + 1
         /\ \A x : x # y => Cardinality(Share(o, n, x)) = Cardinality(Share(owner, m, x))
<1>1. \A i \in 1 .. n : i = n \/ i \in 1 .. m
  OBVIOUS
<1>2. Share(o, n, y) = Share(owner, m, y) \cup {n} /\ n \notin Share(owner, m, y)
  BY <1>1 DEF Share
<1>3. \A x : x # y => Share(o, n, x) = Share(owner, m, x)
  BY <1>1 DEF Share
<1>4. Cardinality(Share(o, n, y)) = Cardinality(Share(owner, m, y)) + 1
  BY <1>2, ShareBound, FS_AddElement
<1> QED
  BY <1>3, <1>4

\* A command sent waits in an inbox.
LEMMA TallySent ==
  ASSUME Tally, NEW c \in Conns, commands \in Nat, inbox \in [Conns -> Nat],
         commands' = commands + 1, inbox' = [inbox EXCEPT ![c] = @ + 1], board' = board
  PROVE  Tally'
<1>1. PICK owner \in [1 .. commands -> Conns \cup {Made, Lost}] :
        /\ board = Cardinality(Share(owner, commands, Made))
        /\ \A d \in Conns : inbox[d] = Cardinality(Share(owner, commands, d))
  BY DEF Tally
<1> DEFINE n == commands'
           o == [i \in 1 .. n |-> IF i = n THEN c ELSE owner[i]]
<1>2. /\ o \in [1 .. n -> Conns \cup {Made, Lost}]
      /\ n = commands + 1 /\ o[n] = c /\ \A i \in 1 .. commands : o[i] = owner[i]
  OBVIOUS
<1> HIDE DEF n, o
<1>3. Made # c
  BY RoomAssumption DEF Made, Conns
<1>4. /\ Cardinality(Share(o, n, c)) = Cardinality(Share(owner, commands, c)) + 1
      /\ \A x : x # c => Cardinality(Share(o, n, x)) = Cardinality(Share(owner, commands, x))
  BY SMTT(30), <1>2, OneMoreSent
<1>5. /\ board' = Cardinality(Share(o, n, Made))
      /\ \A d \in Conns : inbox'[d] = Cardinality(Share(o, n, d))
  BY <1>1, <1>3, <1>4
<1> QED
  BY <1>2, <1>5 DEF Tally, n

\* Taken out of an inbox, its change is made or it is lost.
LEMMA TallyTaken ==
  ASSUME Tally, NEW c \in Conns, commands \in Nat, inbox \in [Conns -> Nat], inbox[c] > 0,
         commands' = commands, inbox' = [inbox EXCEPT ![c] = @ - 1],
         board' = board + 1 \/ board' = board
  PROVE  Tally'
<1>1. PICK owner \in [1 .. commands -> Conns \cup {Made, Lost}] :
        /\ board = Cardinality(Share(owner, commands, Made))
        /\ \A d \in Conns : inbox[d] = Cardinality(Share(owner, commands, d))
  BY DEF Tally
<1>2. c # Made /\ c # Lost /\ Made # Lost /\ Made \notin Conns /\ Lost \notin Conns
  BY RoomAssumption DEF Made, Lost, Conns
<1>3. PICK i \in 1 .. commands : owner[i] = c
  <2> DEFINE S == Share(owner, commands, c)
  <2>1. IsFiniteSet(S) /\ Cardinality(S) > 0
    BY <1>1, ShareBound
  <2> HIDE DEF S
  <2>2. S # {}
    BY <2>1, FS_EmptySet
  <2> QED
    BY <2>2 DEF S, Share
<1>4. ASSUME NEW to \in {Made, Lost}, board' = IF to = Made THEN board + 1 ELSE board
      PROVE  Tally'
  <2> DEFINE o == [owner EXCEPT ![i] = to]
  <2>1. /\ o \in [1 .. commands -> Conns \cup {Made, Lost}]
        /\ o[i] = to /\ owner[i] = c /\ \A j \in 1 .. commands : j # i => o[j] = owner[j]
    BY <1>3
  <2> HIDE DEF o
  <2>2. board' = Cardinality(Share(o, commands', Made))
    BY <1>1, <1>2, <1>3, <1>4, <2>1, Reassigned
  <2>3. \A d \in Conns : inbox'[d] = Cardinality(Share(o, commands', d))
    BY <1>1, <1>2, <1>3, <2>1, Reassigned
  <2> QED
    BY <2>1, <2>2, <2>3 DEF Tally
<1> QED
  BY <1>2, <1>4

\* What is left in the inbox of a handler that ends is lost.
LEMMA TallyDropped ==
  ASSUME Tally, NEW c \in Conns, commands \in Nat, inbox \in [Conns -> Nat],
         commands' = commands, inbox' = [inbox EXCEPT ![c] = 0], board' = board
  PROVE  Tally'
<1>1. PICK owner \in [1 .. commands -> Conns \cup {Made, Lost}] :
        /\ board = Cardinality(Share(owner, commands, Made))
        /\ \A d \in Conns : inbox[d] = Cardinality(Share(owner, commands, d))
  BY DEF Tally
<1>2. c # Made /\ c # Lost /\ Made # Lost /\ Made \notin Conns /\ Lost \notin Conns
  BY RoomAssumption DEF Made, Lost, Conns
<1> DEFINE o == [i \in 1 .. commands |-> IF owner[i] = c THEN Lost ELSE owner[i]]
<1>3. o \in [1 .. commands -> Conns \cup {Made, Lost}]
  OBVIOUS
<1>4. \A x : x # c /\ x # Lost => Share(o, commands, x) = Share(owner, commands, x)
  BY DEF Share
<1>5. Share(o, commands, c) = {}
  BY <1>2 DEF Share
<1>6. Cardinality(Share(o, commands, c)) = 0
  BY <1>5, FS_EmptySet
<1> HIDE DEF o
<1>7. /\ board' = Cardinality(Share(o, commands', Made))
      /\ \A d \in Conns : inbox'[d] = Cardinality(Share(o, commands', d))
  BY <1>1, <1>2, <1>4, <1>6
<1> QED
  BY <1>3, <1>7 DEF Tally

\* Every step is one of these.
LEMMA NextTally ==
  ASSUME Tally, TypeOK, [Next]_vars
  PROVE  Tally'
<1>1. commands \in Nat /\ inbox \in [Conns -> Nat]
  BY RoomAssumption DEF TypeOK
<1>2. ASSUME NEW c \in Conns, SendCommand(c)
      PROVE  Tally'
  BY <1>1, <1>2, TallySent DEF SendCommand
<1>3. ASSUME NEW c \in Conns, Update(c) \/ UpdateUnrendered(c) \/ Refuse(c)
      PROVE  Tally'
  <2>1. /\ inbox[c] > 0 /\ commands' = commands
        /\ inbox' = [inbox EXCEPT ![c] = @ - 1]
        /\ board' = board + 1 \/ board' = board
    BY <1>3 DEF Update, UpdateUnrendered, Refuse
  <2> QED
    BY <1>1, <2>1, TallyTaken
<1>4. ASSUME NEW c \in Conns, Cancel(c)
      PROVE  Tally'
  BY <1>1, <1>4, TallyDropped DEF Cancel
<1>5. ASSUME UNCHANGED <<board, commands, inbox>>
      PROVE  Tally'
  BY <1>5 DEF Tally
<1>6. ASSUME NEW c \in Conns,
             \/ \E b \in Browsers : Connect(c, b)
             \/ Join(c) \/ JoinFails(c) \/ Announce(c) \/ Deliver(c) \/ Leave(c)
             \/ AnnounceLeft(c) \/ Release(c) \/ Write(c) \/ WriterStops(c) \/ Hangup(c)
      PROVE  UNCHANGED <<board, commands, inbox>>
  BY <1>6 DEF Connect, Join, JoinFails, Announce, AnnouncePresence, Deliver, Leave, AnnounceLeft,
              Release, Write, WriterStops, Hangup, Close, browserVars
<1>7. CASE UNCHANGED vars
  BY <1>5, <1>7 DEF vars, browserVars
<1> QED
  BY <1>2, <1>3, <1>4, <1>5, <1>6, <1>7 DEF Next, Handler
---------------------------------------------------------------------------
(* The room *)

\* There are finitely many connections, so those that hold the hub are counted.
LEMMA HoldingFinite == IsFiniteSet(Holding) /\ Cardinality(Holding) \in Nat
<1>1. IsFiniteSet(Conns)
  BY FS_Interval, RoomAssumption DEF Conns
<1>2. Holding \subseteq Conns
  BY DEF Holding
<1>3. IsFiniteSet(Holding)
  BY <1>1, <1>2, FS_Subset
<1> QED
  BY <1>3, FS_CardinalityType

\* Whoever connects comes to the room there is, or makes one.
LEMMA ConnectRooms ==
  ASSUME TypeOK, Rooms, NEW c \in Conns, NEW b \in Browsers, Connect(c, b)
  PROVE  Rooms' /\ entry' \in Hubs /\ hubs' \in 0 .. MaxConns
<1> USE DEF NoHub
<1>1. /\ pc[c] = "idle" /\ pc' = [pc EXCEPT ![c] = "join"] /\ members' = members
      /\ \A d \in 1 .. c - 1 : pc[d] # "idle"
      /\ hubOf' = [hubOf EXCEPT ![c] = entry']
      /\ hubs' = IF entry = NoHub THEN hubs + 1 ELSE hubs
      /\ entry' = IF entry = NoHub THEN hubs + 1 ELSE entry
      /\ refs' = IF entry = NoHub THEN 1 ELSE refs + 1
  BY DEF Connect, Acquire, Goto
<1>2. /\ hubs < c /\ c \in 1 .. MaxConns /\ hubs \in 0 .. MaxConns /\ MaxConns \in Nat
      /\ entry \in 0 .. hubs
  BY <1>1, RoomAssumption DEF TypeOK, Rooms, Hubs, Conns
<1>3. hubs' \in 1 .. c /\ entry' \in 1 .. hubs' /\ entry' # NoHub
  BY <1>1, <1>2 DEF TypeOK, Hubs
<1>4. Holding' = Holding \cup {c} /\ c \notin Holding
  BY <1>1 DEF Holding, TypeOK
<1>5. refs' = Cardinality(Holding')
  <2> DEFINE H == Holding
  <2>1. IsFiniteSet(H) /\ Cardinality(H) \in Nat /\ c \notin H /\ refs = Cardinality(H)
        /\ (entry = NoHub <=> H = {})
    BY <1>4, HoldingFinite DEF Rooms, OneRoom
  <2> HIDE DEF H
  <2>2. Cardinality(H \cup {c}) = Cardinality(H) + 1
    BY <2>1, FS_AddElement
  <2>3. entry = NoHub => Cardinality(H) = 0
    BY <2>1, FS_EmptySet
  <2> QED
    BY <1>1, <1>4, <2>1, <2>2, <2>3 DEF H
<1>6. \A d \in Holding' : hubOf'[d] = entry'
  BY <1>1, <1>4 DEF Rooms, OneRoom, TypeOK, Holding
<1>7. OneRoom'
  BY <1>1, <1>3, <1>4, <1>5, <1>6 DEF OneRoom, Rooms
<1>8. \A d \in Conns : pc'[d] = "idle" => hubs' < d
  BY <1>1, <1>2, <1>3 DEF Conns, TypeOK
<1>9. \A d \in Conns : hubOf'[d] = NoHub <=> pc'[d] \in {"idle", "done"}
  BY <1>1, <1>3 DEF Rooms, TypeOK
<1>10. members' = {d \in Conns : pc'[d] \in {"announce", "read", "deliver"}}
  BY <1>1 DEF Rooms, TypeOK
<1>11. entry' <= hubs'
  BY <1>2, <1>3
<1> QED
  BY <1>2, <1>3, <1>7, <1>8, <1>9, <1>10, <1>11 DEF Rooms, Hubs

\* The last handler to let go of the room has it forgotten.
LEMMA ReleaseRooms ==
  ASSUME TypeOK, Rooms, NEW c \in Conns, Release(c)
  PROVE  Rooms' /\ refs' \in Nat
<1> USE DEF NoHub
<1>1. /\ pc[c] = "release" /\ pc' = [pc EXCEPT ![c] = "cancel"]
      /\ refs' = refs - 1 /\ entry' = IF refs = 1 THEN NoHub ELSE entry
      /\ UNCHANGED <<hubs, members, hubOf>>
  BY DEF Release, Goto
<1>2. Holding' = Holding \ {c} /\ c \in Holding
  BY <1>1 DEF Holding, TypeOK
<1>3. refs' = Cardinality(Holding') /\ refs' \in Nat /\ (refs = 1 <=> Holding' = {})
  <2> DEFINE H == Holding
  <2>1. IsFiniteSet(H) /\ Cardinality(H) \in Nat /\ c \in H /\ refs = Cardinality(H)
    BY <1>2, HoldingFinite DEF Rooms, OneRoom
  <2> HIDE DEF H
  <2>2. IsFiniteSet(H \ {c}) /\ Cardinality(H \ {c}) = Cardinality(H) - 1
    BY <2>1, FS_RemoveElement
  <2>3. Cardinality(H \ {c}) \in Nat /\ (Cardinality(H \ {c}) = 0 <=> H \ {c} = {})
    BY <2>2, FS_CardinalityType, FS_EmptySet
  <2> QED
    BY <1>1, <1>2, <2>1, <2>2, <2>3 DEF H
<1>4. (entry' = NoHub) <=> (Holding' = {})
  BY <1>1, <1>2, <1>3 DEF Rooms, OneRoom
<1>5. \A d \in Holding' : hubOf'[d] = entry'
  BY <1>1, <1>2, <1>3 DEF Rooms, OneRoom
<1>6. members' \subseteq Holding'
  BY <1>1, <1>2 DEF Rooms, OneRoom
<1>7. \A d \in Conns : /\ pc'[d] = "idle" => hubs' < d
                       /\ hubOf'[d] = NoHub <=> pc'[d] \in {"idle", "done"}
  BY <1>1 DEF Rooms, TypeOK
<1>8. members' = {d \in Conns : pc'[d] \in {"announce", "read", "deliver"}}
  BY <1>1 DEF Rooms, TypeOK
<1>9. entry' <= hubs'
  BY <1>1 DEF Rooms, TypeOK, Hubs
<1> QED
  BY <1>3, <1>4, <1>5, <1>6, <1>7, <1>8, <1>9 DEF Rooms, OneRoom

\* A handler that goes on, and keeps the hub, leaves the room as it is; it is
\* in the room between Join and Leave.
LEMMA GoesOnRooms ==
  ASSUME TypeOK, Rooms, NEW c \in Conns, NEW where,
         pc' = [pc EXCEPT ![c] = where], UNCHANGED <<hubs, entry, refs, hubOf>>,
         pc[c] \notin {"idle", "cancel", "done"}, where \notin {"idle", "cancel", "done"},
         members' = IF where \in {"announce", "read", "deliver"} THEN members \cup {c}
                    ELSE members \ {c}
  PROVE  Rooms'
<1>1. Holding' = Holding
  BY DEF Holding, TypeOK
<1>2. OneRoom'
  BY <1>1 DEF Rooms, OneRoom, Holding, TypeOK
<1>3. members' = {d \in Conns : pc'[d] \in {"announce", "read", "deliver"}}
  BY DEF Rooms, TypeOK
<1>4. \A d \in Conns : /\ pc'[d] = "idle" => hubs' < d
                       /\ hubOf'[d] = NoHub <=> pc'[d] \in {"idle", "done"}
  BY DEF Rooms, TypeOK
<1> QED
  BY <1>2, <1>3, <1>4 DEF Rooms
\* Every step is one of these, or keeps its hands off.
LEMMA NextRooms ==
  ASSUME TypeOK, Rooms, [Next]_vars
  PROVE  Rooms'
<1>1. ASSUME NEW c \in Conns, NEW b \in Browsers, Connect(c, b)
      PROVE  Rooms'
  BY <1>1, ConnectRooms
<1>2. ASSUME NEW c \in Conns, Release(c)
      PROVE  Rooms'
  BY <1>2, ReleaseRooms
<1>3. ASSUME NEW c \in Conns, Cancel(c)
      PROVE  Rooms'
  <2>1. /\ pc[c] = "cancel" /\ pc' = [pc EXCEPT ![c] = "done"]
        /\ hubOf' = [hubOf EXCEPT ![c] = NoHub]
        /\ UNCHANGED <<hubs, entry, refs, members>>
    BY <1>3 DEF Cancel, Goto
  <2>2. Holding' = Holding /\ c \notin Holding
    BY <2>1 DEF Holding, TypeOK
  <2>3. OneRoom'
    BY <2>1, <2>2 DEF Rooms, OneRoom, Holding, TypeOK
  <2>4. members' = {d \in Conns : pc'[d] \in {"announce", "read", "deliver"}}
    BY <2>1 DEF Rooms, TypeOK
  <2>5. \A d \in Conns : /\ pc'[d] = "idle" => hubs' < d
                         /\ hubOf'[d] = NoHub <=> pc'[d] \in {"idle", "done"}
    BY <2>1 DEF Rooms, TypeOK
  <2> QED
    BY <2>1, <2>3, <2>4, <2>5 DEF Rooms
<1>4. ASSUME NEW c \in Conns, Join(c) \/ JoinFails(c) \/ Announce(c) \/ Update(c)
                              \/ UpdateUnrendered(c) \/ Refuse(c) \/ Deliver(c)
                              \/ Leave(c) \/ AnnounceLeft(c)
      PROVE  Rooms'
  <2> DEFINE where == pc'[c]
  <2>1. /\ pc' = [pc EXCEPT ![c] = where] /\ UNCHANGED <<hubs, entry, refs, hubOf>>
        /\ pc[c] \in {"join", "announce", "read", "deliver", "announceLeft"}
        /\ where \in {"announce", "read", "deliver", "announceLeft", "release"}
        /\ \/ /\ where \in {"announce", "read", "deliver"}
              /\ members' = members \cup {c} \/ members' = members
              /\ pc[c] \in {"announce", "read", "deliver"} \/ members' = members \cup {c}
           \/ /\ where \in {"announceLeft", "release"}
              /\ \/ members' = members \ {c}
                 \/ members' = members /\ pc[c] \in {"join", "announceLeft"}
    BY <1>4 DEF Join, JoinFails, Announce, AnnouncePresence, Update, UpdateUnrendered, Refuse,
                Deliver, Leave, AnnounceLeft, Goto, TypeOK, hubVars
  <2> HIDE DEF where
  <2>2. members' = IF where \in {"announce", "read", "deliver"} THEN members \cup {c}
                   ELSE members \ {c}
    BY <2>1 DEF Rooms
  <2> QED
    BY <2>1, <2>2, GoesOnRooms
<1>5. ASSUME UNCHANGED <<hubs, entry, refs, hubOf, members, pc>>
      PROVE  Rooms'
  BY <1>5 DEF Rooms, OneRoom, Holding
<1>6. ASSUME NEW c \in Conns, Write(c) \/ WriterStops(c) \/ SendCommand(c) \/ Hangup(c)
      PROVE  UNCHANGED <<hubs, entry, refs, hubOf, members, pc>>
  BY <1>6 DEF Write, WriterStops, SendCommand, Hangup, hubVars, handlerVars
<1>7. CASE UNCHANGED vars
  BY <1>5, <1>7 DEF vars, hubVars, handlerVars
<1> QED
  BY <1>1, <1>2, <1>3, <1>4, <1>5, <1>6, <1>7 DEF Next, Handler
---------------------------------------------------------------------------
(* The browsers' ends *)

\* A browser whose connection closes forgets what came over it; others do not.
LEMMA CloseFacts ==
  ASSUME TypeOK, Sockets, NEW c \in Conns, Close(c)
  PROVE  /\ open' \in [Conns -> BOOLEAN] /\ open'[c] = FALSE
         /\ \A d \in Conns : d # c => open'[d] = open[d]
         /\ UNCHANGED <<browserOf, commands, shown>>
         /\ seen' \in [Browsers -> -1 .. MaxCommands] /\ settled' \in [Browsers -> 0 .. MaxCommands]
         /\ \A d \in Conns : open'[d] =>
              /\ open[d] /\ d # c
              /\ seen'[browserOf[d]] = seen[browserOf[d]]
              /\ settled'[browserOf[d]] = settled[browserOf[d]]
         /\ \A b \in Browsers : IF Connected(b, c) THEN seen'[b] = -1 /\ settled'[b] = 0
                                ELSE seen'[b] = seen[b] /\ settled'[b] = settled[b]
<1>1. /\ open' = [open EXCEPT ![c] = FALSE]
      /\ seen' = [b \in Browsers |-> IF Connected(b, c) THEN -1 ELSE seen[b]]
      /\ settled' = [b \in Browsers |-> IF Connected(b, c) THEN 0 ELSE settled[b]]
      /\ UNCHANGED <<browserOf, commands, shown>>
  BY DEF Close
<1>2. seen' \in [Browsers -> -1 .. MaxCommands] /\ settled' \in [Browsers -> 0 .. MaxCommands]
  BY <1>1, RoomAssumption DEF TypeOK
<1>3. ASSUME NEW d \in Conns, open'[d]
      PROVE  /\ open[d] /\ d # c
             /\ seen'[browserOf[d]] = seen[browserOf[d]]
             /\ settled'[browserOf[d]] = settled[browserOf[d]]
  <2>1. open[d] /\ d # c /\ browserOf[d] \in Browsers
    BY <1>1, <1>3 DEF TypeOK, Sockets
  <2>2. ~Connected(browserOf[d], c)
    BY <2>1 DEF Sockets, Connected
  <2> QED
    BY <1>1, <2>1, <2>2
<1> QED
  BY <1>1, <1>2, <1>3 DEF TypeOK

\* A browser connects only when it has no open connection, and it looks at a
\* frame only over the one it has.
LEMMA NextSockets ==
  ASSUME TypeOK, Rooms, Sockets, [Next]_vars
  PROVE  Sockets'
<1>1. ASSUME NEW c \in Conns, NEW b \in Browsers, Connect(c, b)
      PROVE  Sockets'
  <2>1. /\ pc[c] = "idle" /\ \A d \in Conns : ~Connected(b, d)
        /\ pc' = [pc EXCEPT ![c] = "join"]
        /\ open' = [open EXCEPT ![c] = TRUE] /\ browserOf' = [browserOf EXCEPT ![c] = b]
        /\ seen' = seen /\ settled' = settled
    BY <1>1 DEF Connect, Goto
  <2>2. ~open[c]
    BY <2>1 DEF Sockets
  <2>3. \A d \in Conns : d # c =>
          open'[d] = open[d] /\ browserOf'[d] = browserOf[d] /\ pc'[d] = pc[d]
    BY <2>1 DEF TypeOK
  <2>4. open'[c] /\ browserOf'[c] = b /\ pc'[c] = "join"
    BY <2>1 DEF TypeOK
  <2>5. \A d \in Conns : open'[d] => browserOf'[d] \in Browsers /\ pc'[d] # "idle"
    BY <2>3, <2>4 DEF Sockets
  <2>6. \A d, e \in Conns : open'[d] /\ open'[e] /\ browserOf'[d] = browserOf'[e] => d = e
    BY <2>1, <2>3, <2>4 DEF Sockets, Connected
  <2>7. ASSUME NEW x \in Browsers, ~\E d \in Conns : Connected(x, d)'
        PROVE  seen'[x] = -1 /\ settled'[x] = 0
    <3>1. ASSUME NEW d \in Conns
          PROVE  ~Connected(x, d)
      BY <2>2, <2>3, <2>7 DEF Connected
    <3> QED
      BY <2>1, <3>1 DEF Sockets
  <2> QED
    BY <2>5, <2>6, <2>7 DEF Sockets
<1>2. ASSUME NEW c \in Conns, Close(c), \A d \in Conns : pc'[d] = "idle" => pc[d] = "idle"
      PROVE  Sockets'
  <2>1. \A d \in Conns : open'[d] => browserOf'[d] \in Browsers /\ pc'[d] # "idle"
    BY <1>2, CloseFacts DEF Sockets
  <2>2. \A d, e \in Conns : open'[d] /\ open'[e] /\ browserOf'[d] = browserOf'[e] => d = e
    BY ZenonT(30), <1>2, CloseFacts DEF Sockets
  <2>3. ASSUME NEW x \in Browsers, ~\E d \in Conns : Connected(x, d)'
        PROVE  seen'[x] = -1 /\ settled'[x] = 0
    <3>1. CASE Connected(x, c)
      BY <1>2, <3>1, CloseFacts
    <3>2. CASE ~Connected(x, c)
      <4>1. ASSUME NEW d \in Conns
            PROVE  ~Connected(x, d)
        <5>1. browserOf' = browserOf /\ (d # c => open'[d] = open[d])
          BY ZenonT(30), <1>2, CloseFacts
        <5> QED
          BY <2>3, <3>2, <5>1 DEF Connected
      <4> QED
        BY ZenonT(30), <1>2, <3>2, <4>1, CloseFacts DEF Sockets
    <3> QED
      BY <3>1, <3>2
  <2> QED
    BY <2>1, <2>2, <2>3 DEF Sockets
<1>3. ASSUME NEW c \in Conns, JoinFails(c) \/ WriterStops(c) \/ Hangup(c)
      PROVE  Sockets'
  <2>1. \A d \in Conns : pc'[d] = "idle" => pc[d] = "idle"
    BY <1>3 DEF JoinFails, WriterStops, Hangup, handlerVars, Goto, TypeOK
  <2> QED
    BY <1>2, <1>3, <2>1 DEF JoinFails, WriterStops, Hangup
<1>4. ASSUME NEW c \in Conns, Write(c)
      PROVE  Sockets'
  <2>1. /\ open[c] /\ UNCHANGED <<pc, open, browserOf>>
        /\ \A x \in Browsers : x # browserOf[c] => seen'[x] = seen[x] /\ settled'[x] = settled[x]
    BY <1>4 DEF Write, Receive, TypeOK
  <2> QED
    BY <2>1 DEF Sockets, Connected
<1>5. ASSUME NEW c \in Conns, Join(c) \/ Announce(c) \/ Update(c) \/ UpdateUnrendered(c)
                              \/ Refuse(c) \/ Deliver(c) \/ Leave(c) \/ AnnounceLeft(c)
                              \/ Release(c) \/ Cancel(c) \/ SendCommand(c)
      PROVE  Sockets'
  <2>1. UNCHANGED <<open, browserOf, seen, settled>>
    BY <1>5 DEF Join, Announce, AnnouncePresence, Update, UpdateUnrendered, Refuse, Deliver,
                Leave, AnnounceLeft, Release, Cancel, SendCommand, browserVars
  <2>2. \A d \in Conns : pc'[d] = "idle" => pc[d] = "idle"
    BY <1>5 DEF Join, Announce, Update, UpdateUnrendered, Refuse, Deliver, Leave, AnnounceLeft,
                Release, Cancel, SendCommand, handlerVars, Goto, TypeOK
  <2> QED
    BY <2>1, <2>2 DEF Sockets, Connected
<1>6. CASE UNCHANGED vars
  BY <1>6 DEF vars, browserVars, handlerVars, Sockets, Connected
<1> QED
  BY <1>1, <1>3, <1>4, <1>5, <1>6 DEF Next, Handler
---------------------------------------------------------------------------
(* What waits for a connection *)

\* A frame is queued for everybody it is for, or they are dropped.
LEMMA SendToFacts ==
  ASSUME TypeOK, Types, NEW S, NEW f \in Frame, SendTo(S, f)
  PROVE  /\ send' \in [Conns -> Seq(Frame)]
         /\ gone' \in [Conns -> BOOLEAN]
         /\ \A c \in Conns :
              /\ Len(send'[c]) <= Buffer
              /\ \/ /\ c \notin S
                    /\ send'[c] = send[c] /\ gone'[c] = gone[c]
                 \/ /\ c \in S
                    /\ send'[c] = Append(send[c], f) /\ gone'[c] = gone[c]
                 \/ /\ c \in S
                    /\ send'[c] = send[c] /\ gone'[c]
<1>1. /\ send' = [c \in Conns |-> IF c \in S /\ Len(send[c]) < Buffer
                                  THEN Append(send[c], f) ELSE send[c]]
      /\ gone' = [c \in Conns |-> gone[c] \/ (c \in S /\ Len(send[c]) >= Buffer)]
  BY DEF SendTo
<1>2. /\ send \in [Conns -> Seq(Frame)] /\ gone \in [Conns -> BOOLEAN] /\ Buffer \in Nat
      /\ \A c \in Conns : Len(send[c]) <= Buffer
  BY RoomAssumption DEF TypeOK, Types
<1>3. ASSUME NEW c \in Conns
      PROVE  /\ Len(send[c]) \in Nat
             /\ Append(send[c], f) \in Seq(Frame) /\ Len(Append(send[c], f)) = Len(send[c]) + 1
  BY <1>2
<1>4. send' \in [Conns -> Seq(Frame)] /\ gone' \in [Conns -> BOOLEAN]
  BY <1>1, <1>2, <1>3
<1>5. ASSUME NEW c \in Conns
      PROVE  /\ Len(send'[c]) <= Buffer
             /\ \/ /\ c \notin S
                   /\ send'[c] = send[c] /\ gone'[c] = gone[c]
                \/ /\ c \in S
                   /\ send'[c] = Append(send[c], f) /\ gone'[c] = gone[c]
                \/ /\ c \in S
                   /\ send'[c] = send[c] /\ gone'[c]
  <2>1. /\ send'[c] = IF c \in S /\ Len(send[c]) < Buffer THEN Append(send[c], f) ELSE send[c]
        /\ c \in S /\ Len(send[c]) >= Buffer => gone'[c]
        /\ ~(c \in S /\ Len(send[c]) >= Buffer) => gone'[c] = gone[c]
    BY <1>1, <1>2
  <2>2. CASE c \notin S
    BY <1>2, <2>1, <2>2
  <2>3. CASE c \in S /\ Len(send[c]) < Buffer
    BY <1>2, <1>3, <2>1, <2>3
  <2>4. CASE c \in S /\ Len(send[c]) >= Buffer
    BY <1>2, <1>3, <2>1, <2>4
  <2> QED
    BY <1>2, <1>3, <2>2, <2>3, <2>4
<1> QED
  BY <1>4, <1>5

\* Where the frames of a queue are when there is one more.
LEMMA Appended ==
  ASSUME NEW q \in Seq(Frame), NEW f \in Frame
  PROVE  LET p == Append(q, f) IN
         /\ Len(q) \in Nat /\ Len(p) = Len(q) + 1
         /\ \A i \in 1 .. Len(q) : p[i] = q[i]
         /\ p[Len(q) + 1] = f
         /\ \A i \in 1 .. Len(p) : i \in 1 .. Len(q) \/ i = Len(q) + 1
OBVIOUS

\* Where they are when the first has been taken.
LEMMA Taken ==
  ASSUME NEW q \in Seq(Frame), q # <<>>
  PROVE  /\ Tail(q) \in Seq(Frame) /\ Head(q) = q[1] /\ Head(q) \in Frame
         /\ Len(q) \in Nat /\ 1 \in 1 .. Len(q) /\ Len(Tail(q)) = Len(q) - 1
         /\ \A i \in 1 .. Len(Tail(q)) : i + 1 \in 1 .. Len(q) /\ Tail(q)[i] = q[i + 1]
OBVIOUS

\* The frames there are.
LEMMA Frames ==
  /\ PresenceFrame \in Frame /\ ErrorFrame \in Frame
  /\ PresenceFrame.type = "presence" /\ ErrorFrame.type = "error"
  /\ \A v, k \in Nat : /\ BoardFrame(v, k) \in Frame /\ BoardFrame(v, k).type = "board"
                       /\ BoardFrame(v, k).version = v /\ BoardFrame(v, k).board = k
  /\ \A k \in Nat : /\ AckFrame(k) \in Frame /\ AckFrame(k).type = "ack"
                    /\ AckFrame(k).board = k
  /\ \A f \in Frame : /\ f.type \in {"board", "presence", "ack", "error"}
                      /\ f.type = "board" => f.version \in Nat /\ f.board \in Nat
                      /\ f.type = "ack" => f.board \in Nat
BY DEF Frame, PresenceFrame, ErrorFrame, BoardFrame, AckFrame
\* The hub and the retro only move on, and a browser that stays connected shows
\* what it did.
Onward(c) ==
  /\ hubOf'[c] = hubOf[c]
  /\ hubOf[c] \in Hubs => version[hubOf[c]] <= version'[hubOf[c]]
  /\ version' \in [Hubs -> Nat] /\ board' \in Nat /\ board <= board'
  /\ open'[c] => /\ open[c] /\ browserOf'[c] = browserOf[c]
                 /\ seen'[browserOf[c]] = seen[browserOf[c]]
                 /\ shown'[browserOf[c]] = shown[browserOf[c]]

\* What waits for somebody came from their hub.
LEMMA QueueHub ==
  ASSUME Types, Rooms, Sockets, Behind, NEW c \in Conns
  PROVE  /\ send[c] \in Seq(Frame) /\ Len(send[c]) \in Nat
         /\ send[c] # <<>> => hubOf[c] \in Hubs
         /\ hubOf[c] \in Hubs => version[hubOf[c]] \in Nat
         /\ open[c] => seen[browserOf[c]] \in Int /\ shown[browserOf[c]] \in Int
         /\ board \in Nat
         /\ \A i \in 1 .. Len(send[c]) : send[c][i] \in Frame
<1>1. send[c] \in Seq(Frame)
  BY DEF Types
<1>2. Len(send[c]) \in Nat /\ \A i \in 1 .. Len(send[c]) : send[c][i] \in Frame
  BY <1>1
<1>3. send[c] # <<>> => hubOf[c] \in Hubs
  BY DEF Types, TypeOK, Rooms, Behind
<1>4. board \in Nat /\ (hubOf[c] \in Hubs => version[hubOf[c]] \in Nat)
  BY RoomAssumption DEF Types, TypeOK
<1>5. open[c] => seen[browserOf[c]] \in Int /\ shown[browserOf[c]] \in Int
  BY RoomAssumption DEF Types, TypeOK, Sockets
<1> QED
  BY <1>1, <1>2, <1>3, <1>4, <1>5

\* Frames that go on waiting stay in order and behind.
LEMMA QueueKept ==
  ASSUME Types, Rooms, Behind, Sockets, NEW c \in Conns, InOrder(c), Onward(c),
         send'[c] = send[c]
  PROVE  InOrder(c)' /\ QueueBehind(c)'
<1>1. InOrder(c)'
  BY DEF InOrder, Onward
<1>2. QueueBehind(c)'
  <2> SUFFICES ASSUME NEW i \in 1 .. Len(send[c])
               PROVE  /\ send[c][i].type = "board" =>
                           send[c][i].version <= version'[hubOf[c]] /\ send[c][i].board <= board'
                      /\ send[c][i].type = "ack" => send[c][i].board <= board'
    BY DEF QueueBehind, Onward
  <2>1. /\ hubOf[c] \in Hubs /\ version[hubOf[c]] \in Nat /\ version'[hubOf[c]] \in Nat
        /\ board \in Nat /\ board' \in Nat /\ board <= board'
        /\ version[hubOf[c]] <= version'[hubOf[c]]
    BY QueueHub DEF Onward
  <2>2. /\ send[c][i].type = "board" =>
             /\ send[c][i].version \in Nat /\ send[c][i].board \in Nat
             /\ send[c][i].version <= version[hubOf[c]] /\ send[c][i].board <= board
        /\ send[c][i].type = "ack" => send[c][i].board \in Nat /\ send[c][i].board <= board
    BY QueueHub, Frames DEF Behind, QueueBehind
  <2> QED
    BY <2>1, <2>2
<1> QED
  BY <1>1, <1>2

\* So do they, and the new one too, when a frame of the moment is queued.
LEMMA QueueGrown ==
  ASSUME Types, Rooms, Behind, Sockets, NEW c \in Conns, InOrder(c), Onward(c),
         hubOf[c] \in Hubs, NEW f \in Frame, send'[c] = Append(send[c], f),
         f.type = "board" => f.version = version'[hubOf[c]] /\ f.board = board',
         f.type = "ack" => f.board <= board'
  PROVE  InOrder(c)' /\ QueueBehind(c)'
<1> DEFINE q == send[c]
           n == Len(q) + 1
<1>1. /\ Len(q) \in Nat /\ Len(send'[c]) = n
      /\ \A i \in 1 .. Len(q) : send'[c][i] = q[i]
      /\ send'[c][n] = f
      /\ \A i \in 1 .. n : i \in 1 .. Len(q) \/ i = n
  BY QueueHub, Appended
<1>2. /\ version[hubOf[c]] \in Nat /\ version'[hubOf[c]] \in Nat
      /\ board \in Nat /\ board' \in Nat /\ board <= board'
      /\ version[hubOf[c]] <= version'[hubOf[c]]
  BY QueueHub DEF Onward
<1>3. \A i \in 1 .. Len(q) :
        /\ q[i].type = "board" =>
             /\ q[i].version \in Nat /\ q[i].board \in Nat
             /\ q[i].version <= version'[hubOf[c]] /\ q[i].board <= board'
        /\ q[i].type = "ack" => q[i].board <= board'
  <2> TAKE i \in 1 .. Len(q)
  <2>1. /\ q[i].type = "board" =>
             /\ q[i].version \in Nat /\ q[i].board \in Nat
             /\ q[i].version <= version[hubOf[c]] /\ q[i].board <= board
        /\ q[i].type = "ack" => q[i].board \in Nat /\ q[i].board <= board
    BY QueueHub, Frames DEF Behind, QueueBehind
  <2> QED
    BY SMTT(30), <1>2, <2>1
<1>4. open'[c] /\ f.type = "board" =>
        seen'[browserOf'[c]] <= f.version /\ shown'[browserOf'[c]] <= f.board
  <2>1. open[c] => /\ seen[browserOf[c]] \in Int /\ seen[browserOf[c]] <= version[hubOf[c]]
                   /\ shown[browserOf[c]] \in Int /\ shown[browserOf[c]] <= board
    BY QueueHub, RoomAssumption DEF Behind, Sockets, Hubs, NoHub
  <2> QED
    BY <1>2, <2>1 DEF Onward
<1> HIDE DEF q, n
<1>5. InOrder(c)'
  <2> SUFFICES ASSUME NEW i \in 1 .. n, send'[c][i].type = "board"
               PROVE  /\ \A j \in 1 .. i - 1 : send'[c][j].type = "board" =>
                           send'[c][j].version <= send'[c][i].version
                           /\ send'[c][j].board <= send'[c][i].board
                      /\ open'[c] => seen'[browserOf'[c]] <= send'[c][i].version
                                     /\ shown'[browserOf'[c]] <= send'[c][i].board
    BY <1>1 DEF InOrder
  <2>1. CASE i \in 1 .. Len(q)
    <3>1. \A j \in 1 .. i - 1 : j \in 1 .. Len(q)
      BY <1>1, <2>1
    <3> QED
      BY <1>1, <2>1, <3>1 DEF InOrder, Onward, q
  <2>2. CASE i = n
    <3>1. \A j \in 1 .. i - 1 : j \in 1 .. Len(q)
      BY <1>1, <2>2 DEF n
    <3> QED
      BY <1>1, <1>3, <1>4, <2>2, <3>1
  <2> QED
    BY <1>1, <2>1, <2>2
<1>6. QueueBehind(c)'
  BY SMTT(30), <1>1, <1>2, <1>3 DEF QueueBehind, Onward
<1> QED
  BY <1>5, <1>6
\* Nothing c's browser was told or shown changes, nor does c come back.
Calm(c) ==
  /\ open'[c] => /\ open[c] /\ browserOf'[c] = browserOf[c]
                 /\ settled'[browserOf[c]] = settled[browserOf[c]]
                 /\ shown'[browserOf[c]] = shown[browserOf[c]]
  /\ gone[c] => gone'[c]
  /\ cancelled[c] => cancelled'[c]

\* Acks that go on waiting stay behind their boards.
LEMMA AcksKept ==
  ASSUME NEW c \in Conns, AcksAt(c), Calm(c), send'[c] = send[c],
         local'[c].type = "ack" => local'[c] = local[c]
  PROVE  AcksAt(c)'
BY DEF AcksAt, Calm, Covered

\* So does an ack that is queued after waiting in the handler, and one whose
\* board has just been queued.
LEMMA AcksGrown ==
  ASSUME Types, NEW c \in Conns, AcksAt(c), Calm(c),
         NEW f \in Frame, send'[c] = Append(send[c], f),
         f.type = "ack" => f = local[c],
         local'[c].type = "ack" =>
           local'[c] = local[c] \/ (f.type = "board" /\ local'[c].board <= f.board)
  PROVE  AcksAt(c)'
<1> DEFINE q == send[c]
           n == Len(q) + 1
           CoveredNext(m, k) == \/ k <= shown'[browserOf'[c]]
                                \/ \E j \in 1 .. m : send'[c][j].type = "board"
                                                      /\ k <= send'[c][j].board
<1>1. /\ Len(q) \in Nat /\ Len(send'[c]) = n
      /\ \A i \in 1 .. Len(q) : send'[c][i] = q[i]
      /\ send'[c][n] = f
      /\ \A i \in 1 .. n : i \in 1 .. Len(q) \/ i = n
  BY Appended DEF Types
<1> SUFFICES ASSUME open'[c], ~gone'[c], ~cancelled'[c]
             PROVE  /\ settled'[browserOf'[c]] > 0 =>
                         settled'[browserOf'[c]] <= shown'[browserOf'[c]]
                    /\ \A i \in 1 .. n : send'[c][i].type = "ack" =>
                         CoveredNext(i - 1, send'[c][i].board)
                    /\ local'[c].type = "ack" => CoveredNext(n, local'[c].board)
  BY <1>1 DEF AcksAt, Covered
<1>2. /\ browserOf'[c] = browserOf[c]
      /\ settled'[browserOf[c]] = settled[browserOf[c]]
      /\ shown'[browserOf[c]] = shown[browserOf[c]]
      /\ open[c] /\ ~gone[c] /\ ~cancelled[c]
  BY DEF Calm
<1>3. /\ settled[browserOf[c]] > 0 => settled[browserOf[c]] <= shown[browserOf[c]]
      /\ \A i \in 1 .. Len(q) : q[i].type = "ack" => Covered(c, i - 1, q[i].board)
      /\ local[c].type = "ack" => Covered(c, Len(q), local[c].board)
  BY <1>2 DEF AcksAt
<1>4. ASSUME NEW i \in 1 .. n, NEW k, Covered(c, i - 1, k)
      PROVE  CoveredNext(i - 1, k)
  <2>1. \A j \in 1 .. i - 1 : j \in 1 .. Len(q)
    BY <1>1 DEF n
  <2> QED
    BY <1>1, <1>2, <1>4, <2>1 DEF Covered
<1>5. ASSUME NEW i \in 1 .. n, send'[c][i].type = "ack"
      PROVE  CoveredNext(i - 1, send'[c][i].board)
  <2>1. CASE i \in 1 .. Len(q)
    <3> HIDE DEF q, n, CoveredNext
    <3>1. send'[c][i] = q[i]
      BY <1>1, <2>1
    <3>2. Covered(c, i - 1, q[i].board)
      BY <1>3, <1>5, <2>1, <3>1
    <3> QED
      BY <1>4, <3>1, <3>2
  <2>2. CASE i = n
    <3>1. Covered(c, i - 1, f.board)
      BY <1>1, <1>3, <1>5, <2>2 DEF n
    <3> QED
      BY <1>1, <1>4, <2>2, <3>1
  <2> QED
    BY <1>1, <2>1, <2>2
<1>6. ASSUME local'[c].type = "ack"
      PROVE  CoveredNext(n, local'[c].board)
  <2>1. CASE f.type = "board" /\ local'[c].board <= f.board
    <3>1. n \in 1 .. n
      BY <1>1
    <3> QED
      BY <1>1, <2>1, <3>1 DEF Covered
  <2>2. CASE local'[c] = local[c]
    <3>1. Covered(c, Len(q), local[c].board)
      BY <1>3, <1>6, <2>2
    <3>2. \A j \in 1 .. Len(q) : j \in 1 .. n
      BY <1>1
    <3> QED
      BY <1>1, <1>2, <2>2, <3>1, <3>2 DEF Covered
  <2> QED
    BY <1>6, <2>1, <2>2
<1> QED
  BY <1>2, <1>3, <1>5, <1>6

\* What the browser makes of the first frame that waits for it: a board is
\* never older than the one it shows, so it shows it.
LEMMA WriteFacts ==
  ASSUME Types, Rooms, Sockets, Behind, FramesInOrder, NEW c \in Conns, Write(c),
         NEW b, b = browserOf[c], NEW f, f = send[c][1]
  PROVE  /\ b \in Browsers /\ open[c] /\ f \in Frame /\ send[c] # <<>>
         /\ send' = [send EXCEPT ![c] = Tail(send[c])]
         /\ UNCHANGED <<board, hubVars, pc, local, gone, cancelled, writer, open, browserOf>>
         /\ f.type = "board" =>
              /\ shown' = [shown EXCEPT ![b] = f.board] /\ seen' = [seen EXCEPT ![b] = f.version]
              /\ shown[b] <= f.board /\ f.board <= board
              /\ seen[b] <= f.version /\ f.version <= version[hubOf[c]]
         /\ f.type # "board" => shown' = shown /\ seen' = seen
         /\ f.type = "ack" => settled' = [settled EXCEPT ![b] = f.board] /\ f.board <= board
         /\ f.type # "ack" => settled' = settled
         /\ \A d \in Conns : d # c /\ open[d] => browserOf[d] # b
<1>1. /\ open[c] /\ send[c] # <<>> /\ send' = [send EXCEPT ![c] = Tail(send[c])]
      /\ Receive(b, Head(send[c]))
      /\ UNCHANGED <<board, hubVars, pc, local, gone, cancelled, writer, open, browserOf>>
  BY DEF Write
<1>2. b \in Browsers /\ \A d \in Conns : d # c /\ open[d] => browserOf[d] # b
  BY <1>1 DEF Sockets
<1>3. f \in Frame /\ f = Head(send[c]) /\ 1 \in 1 .. Len(send[c])
  BY <1>1, Taken DEF Types
<1>4. f.type = "board" => seen[b] <= f.version /\ shown[b] <= f.board
  BY <1>1, <1>3 DEF FramesInOrder, InOrder
<1>5. /\ f.type = "board" => f.version <= version[hubOf[c]] /\ f.board <= board
      /\ f.type = "ack" => f.board <= board
  BY <1>3 DEF Behind, QueueBehind
<1>6. f.type = "board" => f.version \in Nat
  BY <1>3, Frames
<1>7. seen[b] \in Int
  BY <1>2 DEF Types, TypeOK
<1>8. f.type = "board" => f.version >= seen[b]
  BY <1>4, <1>6, <1>7
<1>9. /\ f.type = "board" => shown' = [shown EXCEPT ![b] = f.board]
                             /\ seen' = [seen EXCEPT ![b] = f.version]
      /\ f.type # "board" => shown' = shown /\ seen' = seen
      /\ f.type = "ack" => settled' = [settled EXCEPT ![b] = f.board]
      /\ f.type # "ack" => settled' = settled
  BY <1>1, <1>3, <1>8 DEF Receive
<1> QED
  BY <1>1, <1>2, <1>3, <1>4, <1>5, <1>9

\* The frames left stay in order and behind, and so does what is shown.
LEMMA WriteOrder ==
  ASSUME Types, Rooms, Sockets, Behind, FramesInOrder, NEW c \in Conns, Write(c)
  PROVE  InOrder(c)' /\ QueueBehind(c)'
<1> DEFINE q == send[c]
           b == browserOf[c]
           f == q[1]
<1>1. /\ b \in Browsers /\ open[c] /\ f \in Frame /\ q # <<>>
      /\ send' = [send EXCEPT ![c] = Tail(q)]
      /\ UNCHANGED <<board, version, hubOf, open, browserOf>>
      /\ f.type = "board" => shown' = [shown EXCEPT ![b] = f.board]
                             /\ seen' = [seen EXCEPT ![b] = f.version]
      /\ f.type # "board" => shown' = shown /\ seen' = seen
  BY WriteFacts DEF hubVars
<1>2. /\ Len(q) \in Nat /\ 1 \in 1 .. Len(q) /\ send'[c] = Tail(q) /\ Len(send'[c]) = Len(q) - 1
      /\ \A i \in 1 .. Len(send'[c]) : i + 1 \in 1 .. Len(q) /\ send'[c][i] = q[i + 1]
  BY <1>1, Taken DEF Types
<1>3. shown \in [Browsers -> Int] /\ seen \in [Browsers -> Int]
  BY DEF Types, TypeOK
<1>4. ASSUME NEW i \in 1 .. Len(send'[c]), q[i + 1].type = "board"
      PROVE  /\ \A j \in 1 .. i - 1 : q[j + 1].type = "board" =>
                  q[j + 1].version <= q[i + 1].version /\ q[j + 1].board <= q[i + 1].board
             /\ f.type = "board" => f.version <= q[i + 1].version /\ f.board <= q[i + 1].board
             /\ seen[b] <= q[i + 1].version /\ shown[b] <= q[i + 1].board
  <2>1. /\ i + 1 \in 1 .. Len(q) /\ 1 \in 1 .. (i + 1) - 1
        /\ \A j \in 1 .. i - 1 : j + 1 \in 1 .. (i + 1) - 1
    BY <1>2
  <2>2. /\ \A j \in 1 .. (i + 1) - 1 : q[j].type = "board" =>
             q[j].version <= q[i + 1].version /\ q[j].board <= q[i + 1].board
        /\ seen[b] <= q[i + 1].version /\ shown[b] <= q[i + 1].board
    BY <1>1, <1>4, <2>1 DEF FramesInOrder, InOrder
  <2> QED
    BY <2>1, <2>2
<1>5. InOrder(c)'
  <2> SUFFICES ASSUME NEW i \in 1 .. Len(send'[c]), send'[c][i].type = "board"
               PROVE  /\ \A j \in 1 .. i - 1 : send'[c][j].type = "board" =>
                           send'[c][j].version <= send'[c][i].version
                           /\ send'[c][j].board <= send'[c][i].board
                      /\ seen'[b] <= send'[c][i].version /\ shown'[b] <= send'[c][i].board
    BY <1>1 DEF InOrder
  <2>1. q[i + 1].type = "board" /\ send'[c][i] = q[i + 1]
    BY <1>2
  <2>2. \A j \in 1 .. i - 1 : j \in 1 .. Len(send'[c]) /\ send'[c][j] = q[j + 1]
    BY <1>2
  <2>3. \A j \in 1 .. i - 1 : send'[c][j].type = "board" =>
          send'[c][j].version <= send'[c][i].version /\ send'[c][j].board <= send'[c][i].board
    BY <1>4, <2>1, <2>2
  <2>4. seen'[b] <= send'[c][i].version /\ shown'[b] <= send'[c][i].board
    BY <1>1, <1>3, <1>4, <2>1
  <2> QED
    BY <2>3, <2>4
<1>6. QueueBehind(c)'
  BY <1>1, <1>2 DEF Behind, QueueBehind
<1> QED
  BY <1>5, <1>6

\* An ack that is read comes after a board that includes what it tells of; the
\* others still wait behind one, or it is shown.
LEMMA WriteAcks ==
  ASSUME Types, Rooms, Sockets, Behind, FramesInOrder, AcksFollow, NEW c \in Conns, Write(c)
  PROVE  AcksAt(c)'
<1> DEFINE q == send[c]
           b == browserOf[c]
           f == q[1]
           CoveredNext(m, k) == \/ k <= shown'[b]
                                \/ \E j \in 1 .. m : send'[c][j].type = "board"
                                                      /\ k <= send'[c][j].board
<1>1. /\ b \in Browsers /\ open[c] /\ f \in Frame /\ q # <<>>
      /\ send' = [send EXCEPT ![c] = Tail(q)]
      /\ UNCHANGED <<gone, cancelled, local, open, browserOf>>
      /\ f.type = "board" => shown' = [shown EXCEPT ![b] = f.board] /\ shown[b] <= f.board
      /\ f.type # "board" => shown' = shown
      /\ f.type = "ack" => settled' = [settled EXCEPT ![b] = f.board]
      /\ f.type # "ack" => settled' = settled
  BY WriteFacts
<1>2. /\ Len(q) \in Nat /\ 1 \in 1 .. Len(q) /\ send'[c] = Tail(q) /\ Len(send'[c]) = Len(q) - 1
      /\ \A i \in 1 .. Len(send'[c]) : i + 1 \in 1 .. Len(q) /\ send'[c][i] = q[i + 1]
      /\ \A i \in 1 .. Len(q) : q[i] \in Frame
  BY <1>1, Taken DEF Types
<1>3. shown \in [Browsers -> Int] /\ settled \in [Browsers -> Int]
  BY DEF Types, TypeOK
<1>4. f.type = "board" => f.board \in Nat
  BY <1>1, Frames
<1>5. shown[b] \in Int /\ shown'[b] \in Int /\ shown[b] <= shown'[b]
      /\ (f.type = "board" => shown'[b] = f.board)
  BY <1>1, <1>3, <1>4
<1>6. ASSUME NEW m \in 1 .. Len(q), NEW k \in Nat, Covered(c, m, k)
      PROVE  CoveredNext(m - 1, k)
  <2>1. CASE k <= shown[b]
    BY <1>5, <2>1
  <2>2. CASE \E j \in 1 .. m : q[j].type = "board" /\ k <= q[j].board
    <3>1. PICK j \in 1 .. m : q[j].type = "board" /\ k <= q[j].board
      BY <2>2
    <3>2. CASE j = 1
      BY <1>5, <3>1, <3>2
    <3>3. CASE j # 1
      <4>1. /\ j - 1 \in 1 .. m - 1 /\ j - 1 \in 1 .. Len(send'[c])
            /\ (j - 1) + 1 = j
        BY <1>2, <3>3
      <4>2. send'[c][j - 1] = q[j]
        BY <1>2, <4>1
      <4> QED
        BY <3>1, <4>1, <4>2
    <3> QED
      BY <3>2, <3>3
  <2> QED
    BY <1>6, <2>1, <2>2 DEF Covered
<1> SUFFICES ASSUME ~gone[c], ~cancelled[c]
             PROVE  /\ settled'[b] > 0 => settled'[b] <= shown'[b]
                    /\ \A i \in 1 .. Len(send'[c]) : send'[c][i].type = "ack" =>
                         CoveredNext(i - 1, send'[c][i].board)
                    /\ local[c].type = "ack" => CoveredNext(Len(send'[c]), local[c].board)
  BY <1>1 DEF AcksAt, Covered
<1>7. /\ settled[b] > 0 => settled[b] <= shown[b]
      /\ \A i \in 1 .. Len(q) : q[i].type = "ack" => Covered(c, i - 1, q[i].board)
      /\ local[c].type = "ack" => Covered(c, Len(q), local[c].board)
  BY <1>1 DEF AcksFollow, AcksAt
<1>8. settled'[b] > 0 => settled'[b] <= shown'[b]
  <2>1. CASE f.type = "ack"
    <3>1. Covered(c, 0, f.board) /\ shown' = shown
      BY <1>1, <1>2, <1>7, <2>1
    <3>2. f.board <= shown[b]
      BY <3>1 DEF Covered
    <3> QED
      BY <1>1, <1>3, <2>1, <3>1, <3>2
  <2>2. CASE f.type # "ack"
    BY <1>1, <1>3, <1>5, <1>7, <2>2
  <2> QED
    BY <2>1, <2>2
<1>9. ASSUME NEW i \in 1 .. Len(send'[c]), send'[c][i].type = "ack"
      PROVE  CoveredNext(i - 1, send'[c][i].board)
  <2>1. /\ i + 1 \in 1 .. Len(q) /\ send'[c][i] = q[i + 1] /\ (i + 1) - 1 = i
        /\ i \in 1 .. Len(q) /\ q[i + 1] \in Frame
    BY <1>2
  <2>2. Covered(c, i, q[i + 1].board) /\ q[i + 1].board \in Nat
    BY <1>7, <1>9, <2>1, Frames
  <2> QED
    BY <1>6, <2>1, <2>2
<1>10. ASSUME local[c].type = "ack"
       PROVE  CoveredNext(Len(send'[c]), local[c].board)
  <2>1. local[c].board \in Nat /\ Len(q) \in 1 .. Len(q) /\ Len(send'[c]) = Len(q) - 1
    BY <1>2, <1>10, Frames DEF Types
  <2> QED
    BY <1>6, <1>7, <1>10, <2>1
<1> QED
  BY <1>8, <1>9, <1>10
---------------------------------------------------------------------------
(* What waits, step by step *)

Waiting == Behind /\ FramesInOrder /\ AcksFollow

\* Where the hubs, the retro and the browsers move on, only the queues and the
\* handlers' replies are left to look at.
LEMMA OnwardWaits ==
  ASSUME Types, Rooms, Sockets, Behind,
         \A d \in Conns : Onward(d) /\ InOrder(d)' /\ QueueBehind(d)' /\ AcksAt(d)',
         board' \in Nat, board <= board', \A h \in Hubs : version'[h] <= board', shown' = shown,
         \A d \in Conns : pc'[d] \in {"idle", "join", "done"} => send'[d] = <<>>,
         \A d \in Conns : local'[d].type = "ack" => pc'[d] = "deliver" /\ local'[d].board <= board'
  PROVE  Waiting'
<1>1. \A b \in Browsers : shown'[b] <= board'
  <2> TAKE b \in Browsers
  <2>1. shown[b] \in Int /\ shown[b] <= board /\ board \in Int
    BY DEF Types, TypeOK, Behind
  <2> QED
    BY <2>1
<1>2. ASSUME NEW d \in Conns, open'[d], hubOf'[d] # NoHub
      PROVE  seen'[browserOf'[d]] <= version'[hubOf'[d]]
  <2>1. /\ open[d] /\ hubOf'[d] = hubOf[d] /\ seen'[browserOf'[d]] = seen[browserOf[d]]
        /\ hubOf[d] \in Hubs
    BY SMTT(30), <1>2 DEF Onward, Types, TypeOK
  <2>2. /\ seen[browserOf[d]] \in Int /\ seen[browserOf[d]] <= version[hubOf[d]]
        /\ version[hubOf[d]] \in Nat
    BY <1>2, <2>1, QueueHub DEF Behind
  <2>3. version'[hubOf[d]] \in Nat /\ version[hubOf[d]] <= version'[hubOf[d]]
    BY <2>1 DEF Onward
  <2> QED
    BY <2>1, <2>2, <2>3
<1>3. Behind'
  BY <1>1, <1>2 DEF Behind
<1> QED
  BY <1>3 DEF Waiting, FramesInOrder, AcksFollow

\* A step that queues nothing.
LEMMA QuietWaits ==
  ASSUME Types, Rooms, Sockets, Waiting, send' = send, shown' = shown, hubOf' = hubOf,
         version' = version, board' \in {board, board + 1},
         \A d \in Conns :
           /\ Calm(d)
           /\ open'[d] => seen'[browserOf[d]] = seen[browserOf[d]]
           /\ pc'[d] \in {"idle", "join", "done"} => pc'[d] = pc[d]
           /\ local'[d].type = "ack" => local'[d] = local[d] /\ pc'[d] = pc[d]
  PROVE  Waiting'
<1>1. board \in Nat /\ board' \in Nat /\ board <= board' /\ version \in [Hubs -> Nat]
  BY RoomAssumption DEF Types, TypeOK
<1>2. ASSUME NEW d \in Conns
      PROVE  Onward(d) /\ InOrder(d)' /\ QueueBehind(d)' /\ AcksAt(d)'
  <2>1. Onward(d)
    BY <1>1 DEF Onward, Calm
  <2>2. InOrder(d) /\ AcksAt(d) /\ Behind
    BY DEF Waiting, FramesInOrder, AcksFollow
  <2> QED
    BY <2>1, <2>2, QueueKept, AcksKept
<1>3. \A h \in Hubs : version'[h] <= board'
  BY <1>1 DEF Waiting, Behind
<1>4. \A d \in Conns : pc'[d] \in {"idle", "join", "done"} => send'[d] = <<>>
  BY DEF Waiting, Behind
<1>5. ASSUME NEW d \in Conns, local'[d].type = "ack"
      PROVE  pc'[d] = "deliver" /\ local'[d].board <= board'
  <2>1. local[d].type = "ack" /\ local'[d] = local[d] /\ pc'[d] = pc[d]
    BY <1>5
  <2>2. local[d].board \in Nat
    BY <2>1, Frames DEF Types
  <2> QED
    BY <1>1, <2>1, <2>2 DEF Waiting, Behind
<1> QED
  BY <1>1, <1>2, <1>3, <1>4, <1>5, OnwardWaits DEF Waiting

\* The steps that queue nothing.
LEMMA QuietSteps ==
  ASSUME Types, Rooms, Sockets, Waiting,
         \/ \E c \in Conns : \/ JoinFails(c) \/ UpdateUnrendered(c) \/ Refuse(c) \/ Leave(c)
                             \/ Release(c) \/ WriterStops(c) \/ SendCommand(c) \/ Hangup(c)
         \/ UNCHANGED vars
  PROVE  Waiting'
<1>1. ErrorFrame.type # "ack" /\ local \in [Conns -> Frame]
      /\ pc \in [Conns -> PCs] /\ cancelled \in [Conns -> BOOLEAN]
      /\ \A d \in Conns : local[d].type = "ack" => pc[d] = "deliver"
  BY Frames DEF Types, TypeOK, Waiting, Behind
<1>2. /\ send' = send /\ hubOf' = hubOf /\ version' = version /\ board' \in {board, board + 1}
      /\ gone' = gone
  BY DEF JoinFails, UpdateUnrendered, Refuse, Leave, Release, WriterStops, SendCommand, Hangup,
         vars, hubVars, handlerVars
<1>3. ASSUME NEW d \in Conns
      PROVE  /\ cancelled[d] => cancelled'[d]
             /\ pc'[d] \in {"idle", "join", "done"} => pc'[d] = pc[d]
             /\ local'[d].type = "ack" => local'[d] = local[d] /\ pc'[d] = pc[d]
  BY <1>1 DEF JoinFails, UpdateUnrendered, Refuse, Leave, Release, WriterStops, SendCommand,
              Hangup, vars, hubVars, handlerVars, Goto
<1>4. \/ \E c \in Conns : Close(c)
      \/ UNCHANGED <<open, browserOf, seen, shown, settled>>
  BY DEF JoinFails, UpdateUnrendered, Refuse, Leave, Release, WriterStops, SendCommand, Hangup,
         vars, browserVars
<1>5. /\ shown' = shown
      /\ \A d \in Conns : open'[d] =>
           /\ open[d] /\ browserOf'[d] = browserOf[d]
           /\ seen'[browserOf[d]] = seen[browserOf[d]]
           /\ settled'[browserOf[d]] = settled[browserOf[d]]
  <2>1. CASE \E c \in Conns : Close(c)
    BY <2>1, CloseFacts DEF Types
  <2>2. CASE UNCHANGED <<open, browserOf, seen, shown, settled>>
    BY <2>2
  <2> QED
    BY <1>4, <2>1, <2>2
<1>6. \A d \in Conns : Calm(d)
  BY <1>2, <1>3, <1>5 DEF Calm
<1> QED
  BY <1>2, <1>3, <1>5, <1>6, QuietWaits

\* A frame of the moment is queued for the connections in S, or they are
\* dropped; c's handler, which did it, goes on.
LEMMA SendToWaits ==
  ASSUME Types, Rooms, Sockets, Waiting, NEW c \in Conns, NEW S, NEW f \in Frame, SendTo(S, f),
         S \subseteq {d \in Conns : hubOf[d] \in Hubs /\ hubOf[d] = hubOf[c]},
         f.type = "board" => f.version = version'[hubOf[c]] /\ f.board = board',
         f.type # "ack",
         UNCHANGED <<hubOf, cancelled, open, browserOf, shown, seen, settled>>,
         version' \in [Hubs -> Nat], \A h \in Hubs : version[h] <= version'[h] /\ version'[h] <= board',
         board' \in Nat, board <= board',
         \A d \in Conns : d # c => pc'[d] = pc[d] /\ local'[d] = local[d],
         pc'[c] \notin {"idle", "join", "done"},
         \/ local'[c] = local[c] /\ local[c].type # "ack"
         \/ /\ local'[c] = AckFrame(board') /\ pc'[c] = "deliver"
            /\ c \in S /\ f.type = "board"
         ,
         \A d \in S : pc'[d] \notin {"idle", "join", "done"}
  PROVE  Waiting'
<1>1. /\ gone \in [Conns -> BOOLEAN] /\ gone' \in [Conns -> BOOLEAN]
      /\ \A d \in Conns :
           \/ /\ d \notin S
              /\ send'[d] = send[d] /\ gone'[d] = gone[d]
           \/ /\ d \in S
              /\ send'[d] = Append(send[d], f) /\ gone'[d] = gone[d]
           \/ /\ d \in S
              /\ send'[d] = send[d] /\ gone'[d]
  BY SendToFacts DEF Types, TypeOK
<1>2. AckFrame(board').type = "ack" /\ AckFrame(board').board = board' /\ AckFrame(board') \in Frame
  BY Frames
<1>3. ASSUME NEW d \in Conns
      PROVE  Onward(d) /\ Calm(d) /\ InOrder(d) /\ AcksAt(d)
  BY <1>1, <1>3 DEF Onward, Calm, Waiting, FramesInOrder, AcksFollow
<1>4. ASSUME NEW d \in Conns
      PROVE  InOrder(d)' /\ QueueBehind(d)'
  <2>1. CASE send'[d] = send[d]
    BY <1>3, <2>1, QueueKept DEF Waiting
  <2>2. CASE d \in S /\ send'[d] = Append(send[d], f)
    <3>1. hubOf[d] \in Hubs /\ hubOf[d] = hubOf[c]
      BY <2>2
    <3> QED
      BY <1>3, <2>2, <3>1, QueueGrown DEF Waiting
  <2> QED
    BY <1>1, <2>1, <2>2
<1>5. ASSUME NEW d \in Conns
      PROVE  AcksAt(d)'
  <2>1. local'[d].type = "ack" =>
          local'[d] = local[d] \/ (d = c /\ c \in S /\ f.type = "board" /\ local'[d].board = board')
    BY <1>2
  <2>2. CASE d \in S /\ gone'[d]
    BY <2>2 DEF AcksAt
  <2>3. CASE d \notin S /\ send'[d] = send[d]
    BY <1>3, <2>1, <2>3, AcksKept
  <2>4. CASE d \in S /\ send'[d] = Append(send[d], f)
    <3>1. f.type = "board" => board' <= f.board
      OBVIOUS
    <3> QED
      BY <1>3, <2>1, <2>4, <3>1, AcksGrown
  <2> QED
    BY <1>1, <2>2, <2>3, <2>4
<1>6. \A d \in Conns : pc'[d] \in {"idle", "join", "done"} => send'[d] = <<>>
  BY <1>1 DEF Waiting, Behind
<1>7. ASSUME NEW d \in Conns, local'[d].type = "ack"
      PROVE  pc'[d] = "deliver" /\ local'[d].board <= board'
  <2>1. CASE d # c
    <3>1. local[d].type = "ack" /\ local'[d] = local[d] /\ pc'[d] = pc[d]
      BY <1>7, <2>1
    <3>2. local[d].board \in Nat /\ board \in Nat
      BY <3>1, Frames, RoomAssumption DEF Types, TypeOK
    <3>3. pc[d] = "deliver" /\ local[d].board <= board
      BY <3>1 DEF Waiting, Behind
    <3> QED
      BY <3>1, <3>2, <3>3
  <2>2. CASE d = c
    BY <1>2, <1>7, <2>2
  <2> QED
    BY <2>1, <2>2
<1> QED
  BY <1>3, <1>4, <1>5, <1>6, <1>7, OnwardWaits DEF Waiting

\* A change is shown to everyone in the room, and its ack is kept for after.
LEMMA UpdateWaits ==
  ASSUME Types, Rooms, Sockets, Waiting, NEW c \in Conns, Update(c)
  PROVE  Waiting'
<1> DEFINE h == hubOf[c]
           f == BoardFrame(version[h] + 1, board + 1)
<1>1. /\ pc[c] = "read" /\ pc' = [pc EXCEPT ![c] = "deliver"]
      /\ board' = board + 1 /\ version' = [version EXCEPT ![h] = version[h] + 1]
      /\ SendTo(Clients(h), f) /\ local' = [local EXCEPT ![c] = AckFrame(board + 1)]
      /\ UNCHANGED <<hubOf, cancelled, open, browserOf, shown, seen, settled>>
  BY DEF Update, Goto
<1>2. /\ board \in Nat /\ version \in [Hubs -> Nat] /\ pc \in [Conns -> PCs]
      /\ local \in [Conns -> Frame]
  BY RoomAssumption DEF Types, TypeOK
<1>3. h \in Hubs /\ c \in Clients(h)
  BY <1>1 DEF Rooms, Clients, Types, TypeOK
<1>4. /\ f \in Frame /\ f.type = "board" /\ f.version = version[h] + 1 /\ f.board = board + 1
  BY <1>2, <1>3, Frames
<1>5. /\ Clients(h) \subseteq {d \in Conns : hubOf[d] \in Hubs /\ hubOf[d] = hubOf[c]}
      /\ \A d \in Clients(h) : pc[d] \in {"announce", "read", "deliver"}
  BY <1>3 DEF Clients, Rooms
<1>6. /\ version' \in [Hubs -> Nat] /\ version'[h] = version[h] + 1
      /\ \A g \in Hubs : version[g] <= version'[g] /\ version'[g] <= board'
  <2>1. \A g \in Hubs : version[g] \in Nat /\ version[g] <= board
    BY <1>2 DEF Waiting, Behind
  <2> QED
    BY <1>1, <1>2, <1>3, <2>1
<1>7. /\ board' \in Nat /\ board <= board'
      /\ local'[c] = AckFrame(board') /\ pc'[c] = "deliver"
      /\ \A d \in Conns : d # c => pc'[d] = pc[d] /\ local'[d] = local[d]
      /\ \A d \in Clients(h) : pc'[d] \notin {"idle", "join", "done"}
  BY <1>1, <1>2, <1>5
<1> HIDE DEF f
<1> QED
  BY <1>1, <1>3, <1>4, <1>5, <1>6, <1>7, SendToWaits

\* The snapshot is the retro as it is.
LEMMA JoinWaits ==
  ASSUME Types, Rooms, Sockets, Waiting, NEW c \in Conns, Join(c)
  PROVE  Waiting'
<1> DEFINE f == BoardFrame(version[hubOf[c]], board)
<1>1. /\ pc[c] = "join" /\ pc' = [pc EXCEPT ![c] = "announce"] /\ SendTo({c}, f)
      /\ UNCHANGED <<board, version, hubOf, local, cancelled, open, browserOf,
                     shown, seen, settled>>
  BY DEF Join, Goto, browserVars
<1>2. /\ board \in Nat /\ version \in [Hubs -> Nat] /\ pc \in [Conns -> PCs]
      /\ hubOf[c] \in Hubs /\ local[c].type # "ack"
  <2>1. board \in Nat /\ version \in [Hubs -> Nat] /\ pc \in [Conns -> PCs]
    BY RoomAssumption DEF Types, TypeOK
  <2>2. hubOf[c] \in Hubs
    BY <1>1 DEF Types, TypeOK, Rooms
  <2>3. local[c].type # "ack"
    BY <1>1 DEF Waiting, Behind
  <2> QED
    BY <2>1, <2>2, <2>3
<1>3. f \in Frame /\ f.type = "board" /\ f.version = version[hubOf[c]] /\ f.board = board
  BY <1>2, Frames
<1>4. /\ \A d \in Conns : d # c => pc'[d] = pc[d] /\ local'[d] = local[d]
      /\ pc'[c] = "announce" /\ local'[c] = local[c]
      /\ \A g \in Hubs : version[g] <= version'[g] /\ version'[g] <= board'
      /\ version' \in [Hubs -> Nat] /\ board' \in Nat /\ board <= board'
  BY <1>1, <1>2 DEF Waiting, Behind
<1> HIDE DEF f
<1> QED
  BY <1>1, <1>2, <1>3, <1>4, SendToWaits

\* Who is here is news of another kind.
LEMMA AnnounceWaits ==
  ASSUME Types, Rooms, Sockets, Waiting, NEW c \in Conns, Announce(c) \/ AnnounceLeft(c)
  PROVE  Waiting'
<1> DEFINE h == hubOf[c]
<1>1. /\ pc[c] \in {"announce", "announceLeft"} /\ SendTo(Clients(h), PresenceFrame)
      /\ pc' = [pc EXCEPT ![c] = "read"] \/ pc' = [pc EXCEPT ![c] = "release"]
      /\ UNCHANGED <<board, version, hubOf, local, cancelled, open, browserOf,
                     shown, seen, settled>>
  BY DEF Announce, AnnounceLeft, AnnouncePresence, Goto, browserVars, hubVars
<1>2. /\ board \in Nat /\ version \in [Hubs -> Nat] /\ pc \in [Conns -> PCs]
      /\ hubOf[c] \in Hubs /\ local[c].type # "ack"
  <2>1. board \in Nat /\ version \in [Hubs -> Nat] /\ pc \in [Conns -> PCs]
    BY RoomAssumption DEF Types, TypeOK
  <2>2. hubOf[c] \in Hubs
    BY <1>1 DEF Types, TypeOK, Rooms
  <2>3. local[c].type # "ack"
    BY <1>1 DEF Waiting, Behind
  <2> QED
    BY <2>1, <2>2, <2>3
<1>3. PresenceFrame \in Frame /\ PresenceFrame.type = "presence"
  BY Frames
<1>4. /\ Clients(h) \subseteq {d \in Conns : hubOf[d] \in Hubs /\ hubOf[d] = hubOf[c]}
      /\ \A d \in Clients(h) : pc[d] \in {"announce", "read", "deliver"}
  BY <1>2 DEF Clients, Rooms
<1>5. /\ \A d \in Conns : d # c => pc'[d] = pc[d] /\ local'[d] = local[d]
      /\ pc'[c] \in {"read", "release"} /\ local'[c] = local[c]
      /\ \A g \in Hubs : version[g] <= version'[g] /\ version'[g] <= board'
      /\ version' \in [Hubs -> Nat] /\ board' \in Nat /\ board <= board'
  BY <1>1, <1>2 DEF Waiting, Behind
<1>6. \A d \in Clients(h) : pc'[d] \notin {"idle", "join", "done"}
  BY <1>4, <1>5
<1> QED
  BY <1>1, <1>2, <1>3, <1>4, <1>5, <1>6, SendToWaits

\* The reply waits behind what was queued before it.
LEMMA DeliverWaits ==
  ASSUME Types, Rooms, Sockets, Waiting, NEW c \in Conns, Deliver(c)
  PROVE  Waiting'
<1>1. /\ pc[c] = "deliver" /\ pc' = [pc EXCEPT ![c] = "read"]
      /\ send' = [send EXCEPT ![c] = Append(send[c], local[c])]
      /\ local' = [local EXCEPT ![c] = ErrorFrame]
      /\ UNCHANGED <<board, version, hubOf, gone, cancelled, open, browserOf,
                     shown, seen, settled>>
  BY DEF Deliver, Goto, browserVars, hubVars
<1>2. /\ board \in Nat /\ version \in [Hubs -> Nat] /\ pc \in [Conns -> PCs]
      /\ hubOf[c] \in Hubs /\ local \in [Conns -> Frame] /\ send \in [Conns -> Seq(Frame)]
  <2>1. /\ board \in Nat /\ version \in [Hubs -> Nat] /\ pc \in [Conns -> PCs]
        /\ local \in [Conns -> Frame] /\ send \in [Conns -> Seq(Frame)]
    BY RoomAssumption DEF Types, TypeOK
  <2>2. hubOf[c] \in Hubs
    BY <1>1 DEF Types, TypeOK, Rooms
  <2> QED
    BY <2>1, <2>2
<1>3. /\ send'[c] = Append(send[c], local[c])
      /\ local'[c].type # "ack" /\ pc'[c] = "read"
      /\ \A d \in Conns : d # c => /\ send'[d] = send[d] /\ local'[d] = local[d]
                                   /\ pc'[d] = pc[d]
  BY <1>1, <1>2, Frames
<1>4. ASSUME NEW d \in Conns
      PROVE  Onward(d) /\ Calm(d) /\ InOrder(d) /\ AcksAt(d)
  BY <1>1, <1>2 DEF Onward, Calm, Waiting, FramesInOrder, AcksFollow
<1>5. /\ local[c] \in Frame
      /\ local[c].type = "ack" => local[c].board <= board'
  BY <1>1, <1>2 DEF Waiting, Behind
<1>6. local[c].type = "board" => local[c].version = version'[hubOf[c]] /\ local[c].board = board'
  BY DEF Types
<1>7. InOrder(c)' /\ QueueBehind(c)' /\ AcksAt(c)'
  BY <1>2, <1>3, <1>4, <1>5, <1>6, QueueGrown, AcksGrown DEF Waiting
<1>8. ASSUME NEW d \in Conns, d # c
      PROVE  InOrder(d)' /\ QueueBehind(d)' /\ AcksAt(d)'
  BY <1>3, <1>4, <1>8, QueueKept, AcksKept DEF Waiting
<1>9. /\ \A g \in Hubs : version'[g] <= board'
      /\ \A d \in Conns : pc'[d] \in {"idle", "join", "done"} => send'[d] = <<>>
      /\ \A d \in Conns : local'[d].type = "ack" => pc'[d] = "deliver" /\ local'[d].board <= board'
  BY <1>1, <1>2, <1>3 DEF Waiting, Behind
<1>10. board' \in Nat /\ board <= board' /\ shown' = shown
  BY <1>1, <1>2
<1> QED
  BY <1>4, <1>7, <1>8, <1>9, <1>10, OnwardWaits DEF Waiting

\* A connection starts with nothing waiting, and its browser knows of nothing.
LEMMA ConnectWaits ==
  ASSUME Types, Rooms, Sockets, Waiting, NEW c \in Conns, NEW b \in Browsers, Connect(c, b)
  PROVE  Waiting'
<1>1. /\ pc[c] = "idle" /\ \A d \in Conns : ~Connected(b, d)
      /\ pc' = [pc EXCEPT ![c] = "join"] /\ hubOf' = [hubOf EXCEPT ![c] = entry']
      /\ open' = [open EXCEPT ![c] = TRUE] /\ browserOf' = [browserOf EXCEPT ![c] = b]
      /\ UNCHANGED <<board, version, local, send, gone, cancelled, shown, seen, settled>>
  BY DEF Connect, Acquire, Goto
<1>2. /\ board \in Nat /\ version \in [Hubs -> Nat] /\ entry' \in Hubs
      /\ hubOf'[c] = entry' /\ pc'[c] = "join" /\ browserOf'[c] = b
      /\ \A d \in Conns : d # c =>
           /\ hubOf'[d] = hubOf[d] /\ pc'[d] = pc[d]
           /\ open'[d] = open[d] /\ browserOf'[d] = browserOf[d]
  BY SMTT(30), <1>1, ConnectRooms, RoomAssumption DEF Types, TypeOK
<1>3. send[c] = <<>> /\ local[c].type # "ack" /\ seen[b] = -1 /\ settled[b] = 0
  BY <1>1 DEF Waiting, Behind, Sockets
<1>4. InOrder(c)' /\ QueueBehind(c)'
  BY <1>1, <1>3 DEF InOrder, QueueBehind
<1>5. AcksAt(c)'
  BY <1>1, <1>2, <1>3 DEF AcksAt
<1>6. ASSUME NEW d \in Conns, d # c
      PROVE  InOrder(d)' /\ QueueBehind(d)' /\ AcksAt(d)'
  <2>1. Onward(d) /\ Calm(d) /\ InOrder(d) /\ AcksAt(d)
    BY <1>1, <1>2, <1>6 DEF Onward, Calm, Waiting, FramesInOrder, AcksFollow
  <2> QED
    BY <1>1, <2>1, QueueKept, AcksKept DEF Waiting
<1>7. \A d \in Conns : open'[d] /\ hubOf'[d] # NoHub =>
                         seen'[browserOf'[d]] <= version'[hubOf'[d]]
  BY <1>1, <1>2, <1>3 DEF Waiting, Behind
<1>8. Behind'
  BY <1>1, <1>2, <1>3, <1>4, <1>6, <1>7 DEF Waiting, Behind
<1> QED
  BY <1>4, <1>5, <1>6, <1>8 DEF Waiting, FramesInOrder, AcksFollow

\* Of a connection that is done nothing waits.
LEMMA CancelWaits ==
  ASSUME Types, Rooms, Sockets, Waiting, NEW c \in Conns, Cancel(c)
  PROVE  Waiting'
<1>1. /\ pc[c] = "cancel" /\ pc' = [pc EXCEPT ![c] = "done"]
      /\ hubOf' = [hubOf EXCEPT ![c] = NoHub] /\ send' = [send EXCEPT ![c] = <<>>]
      /\ cancelled' = [cancelled EXCEPT ![c] = TRUE] /\ gone' = [gone EXCEPT ![c] = FALSE]
      /\ UNCHANGED <<board, version, local, open, browserOf, shown, seen, settled>>
  BY DEF Cancel, Goto
<1>2. /\ board \in Nat /\ version \in [Hubs -> Nat]
      /\ hubOf'[c] = NoHub /\ pc'[c] = "done" /\ send'[c] = <<>> /\ cancelled'[c]
      /\ \A d \in Conns : d # c =>
           /\ hubOf'[d] = hubOf[d] /\ pc'[d] = pc[d] /\ send'[d] = send[d]
           /\ gone'[d] = gone[d] /\ cancelled'[d] = cancelled[d]
  BY <1>1, RoomAssumption DEF Types, TypeOK
<1>3. local[c].type # "ack"
  BY <1>1 DEF Waiting, Behind
<1>4. InOrder(c)' /\ QueueBehind(c)' /\ AcksAt(c)'
  BY <1>2 DEF InOrder, QueueBehind, AcksAt
<1>5. ASSUME NEW d \in Conns, d # c
      PROVE  InOrder(d)' /\ QueueBehind(d)' /\ AcksAt(d)'
  <2>1. Onward(d) /\ Calm(d) /\ InOrder(d) /\ AcksAt(d)
    BY <1>1, <1>2, <1>5 DEF Onward, Calm, Waiting, FramesInOrder, AcksFollow
  <2> QED
    BY <1>1, <1>2, <1>5, <2>1, QueueKept, AcksKept DEF Waiting
<1>6. \A d \in Conns : open'[d] /\ hubOf'[d] # NoHub =>
                         seen'[browserOf'[d]] <= version'[hubOf'[d]]
  BY <1>1, <1>2 DEF Waiting, Behind
<1>7. Behind'
  BY <1>1, <1>2, <1>3, <1>4, <1>5, <1>6 DEF Waiting, Behind
<1> QED
  BY <1>4, <1>5, <1>7 DEF Waiting, FramesInOrder, AcksFollow

\* Whatever the step, queues stay in order and acks behind their boards.
LEMMA NextWaiting ==
  ASSUME Types, Rooms, Sockets, Waiting, [Next]_vars
  PROVE  Waiting'
<1>1. ASSUME NEW c \in Conns, Write(c)
      PROVE  Waiting'
  <2> DEFINE b == browserOf[c]
             f == send[c][1]
  <2>1. /\ b \in Browsers /\ open[c] /\ send[c] # <<>> /\ send' = [send EXCEPT ![c] = Tail(send[c])]
        /\ UNCHANGED <<board, hubVars, pc, local, gone, cancelled, writer, open, browserOf>>
        /\ f.type = "board" => /\ shown' = [shown EXCEPT ![b] = f.board] /\ f.board <= board
                               /\ seen' = [seen EXCEPT ![b] = f.version]
                               /\ f.version <= version[hubOf[c]]
        /\ f.type # "board" => shown' = shown /\ seen' = seen
        /\ f.type = "ack" => settled' = [settled EXCEPT ![b] = f.board]
        /\ f.type # "ack" => settled' = settled
        /\ \A d \in Conns : d # c /\ open[d] => browserOf[d] # b
    BY <1>1, WriteFacts DEF Waiting
  <2>2. InOrder(c)' /\ QueueBehind(c)' /\ AcksAt(c)'
    BY <1>1, WriteOrder, WriteAcks DEF Waiting
  <2>3. send \in [Conns -> Seq(Frame)] /\ board \in Nat /\ version \in [Hubs -> Nat]
        /\ shown \in [Browsers -> -1 .. MaxCommands] /\ seen \in [Browsers -> -1 .. MaxCommands]
        /\ settled \in [Browsers -> 0 .. MaxCommands]
    BY RoomAssumption DEF Types, TypeOK
  <2>4. ASSUME NEW d \in Conns, d # c
        PROVE  InOrder(d)' /\ QueueBehind(d)' /\ AcksAt(d)'
    <3>1. send'[d] = send[d] /\ InOrder(d) /\ AcksAt(d)
      BY <2>1, <2>3, <2>4 DEF Waiting, FramesInOrder, AcksFollow
    <3>2. open'[d] => /\ open[d] /\ browserOf[d] \in Browsers /\ browserOf[d] # b
                      /\ browserOf'[d] = browserOf[d]
      BY <2>1, <2>4 DEF Sockets
    <3>3. open'[d] => /\ shown'[browserOf[d]] = shown[browserOf[d]]
                      /\ seen'[browserOf[d]] = seen[browserOf[d]]
                      /\ settled'[browserOf[d]] = settled[browserOf[d]]
      <4> HIDE DEF b, f
      <4>1. \A x \in Browsers : x # b => shown'[x] = shown[x] /\ seen'[x] = seen[x]
        <5>1. CASE f.type = "board"
          BY <2>1, <2>3, <5>1
        <5>2. CASE f.type # "board"
          BY <2>1, <5>2
        <5> QED
          BY <5>1, <5>2
      <4>2. \A x \in Browsers : x # b => settled'[x] = settled[x]
        BY <2>1, <2>3
      <4> QED
        BY <3>2, <4>1, <4>2
    <3>4. hubOf[d] \in Hubs => version[hubOf[d]] <= version'[hubOf[d]]
      BY <2>1, <2>3 DEF hubVars
    <3>5. Onward(d)
      BY <2>1, <2>3, <3>2, <3>3, <3>4 DEF Onward, hubVars
    <3>6. Calm(d)
      BY <2>1, <3>2, <3>3 DEF Calm
    <3> QED
      BY <2>1, <3>1, <3>5, <3>6, QueueKept, AcksKept DEF Waiting
  <2>5. \A x \in Browsers : shown'[x] <= board'
    BY <2>1, <2>3 DEF Waiting, Behind
  <2>6. ASSUME NEW d \in Conns, open'[d], hubOf'[d] # NoHub
        PROVE  seen'[browserOf'[d]] <= version'[hubOf'[d]]
    <3>1. /\ open[d] /\ hubOf'[d] = hubOf[d] /\ browserOf'[d] = browserOf[d] /\ version' = version
          /\ browserOf[d] \in Browsers /\ seen[browserOf[d]] <= version[hubOf[d]]
      BY <2>1, <2>6 DEF Waiting, Behind, Sockets, hubVars
    <3>2. d # c => seen'[browserOf[d]] = seen[browserOf[d]]
      BY ZenonT(30), <2>1, <2>3, <3>1
    <3>3. d = c => seen'[browserOf[d]] <= version[hubOf[d]]
      BY <2>1, <2>3, <3>1
    <3> QED
      BY <3>1, <3>2, <3>3
  <2>7. \A d \in Conns : pc'[d] \in {"idle", "join", "done"} => send'[d] = <<>>
    BY <2>1, <2>3 DEF Waiting, Behind
  <2>8. Behind'
    BY <2>1, <2>2, <2>4, <2>5, <2>6, <2>7 DEF Waiting, Behind, hubVars
  <2> QED
    BY <2>2, <2>4, <2>8 DEF Waiting, FramesInOrder, AcksFollow
<1>2. CASE UNCHANGED vars
  BY <1>2, QuietSteps
<1> QED
  BY <1>1, <1>2, QuietSteps, UpdateWaits, JoinWaits, AnnounceWaits, DeliverWaits, ConnectWaits,
     CancelWaits DEF Next, Handler
---------------------------------------------------------------------------
(* Types *)

\* Of the hubs.
LEMMA NextHubTypes ==
  ASSUME Types, Rooms, [Next]_vars
  PROVE  /\ hubs' \in 0 .. MaxConns /\ entry' \in Hubs \cup {NoHub} /\ refs' \in Nat
         /\ version' \in [Hubs -> Nat] /\ members' \subseteq Conns
         /\ hubOf' \in [Conns -> Hubs \cup {NoHub}] /\ pc' \in [Conns -> PCs]
<1> USE DEF NoHub
<1>0. /\ hubs \in 0 .. MaxConns /\ entry \in Hubs \cup {NoHub} /\ refs \in Nat
      /\ version \in [Hubs -> Nat] /\ members \subseteq Conns
      /\ hubOf \in [Conns -> Hubs \cup {NoHub}] /\ pc \in [Conns -> PCs]
  BY RoomAssumption DEF Types, TypeOK
<1>1. ASSUME NEW c \in Conns, NEW b \in Browsers, Connect(c, b)
      PROVE  /\ hubs' \in 0 .. MaxConns /\ entry' \in Hubs /\ refs' \in Nat
             /\ UNCHANGED <<version, members>>
             /\ hubOf' = [hubOf EXCEPT ![c] = entry'] /\ pc' = [pc EXCEPT ![c] = "join"]
  <2>1. hubs' \in 0 .. MaxConns /\ entry' \in Hubs
    BY <1>1, ConnectRooms DEF Types
  <2> QED
    BY <1>0, <1>1, <2>1 DEF Connect, Acquire, Goto
<1>2. ASSUME NEW c \in Conns, Release(c)
      PROVE  /\ UNCHANGED <<hubs, version, members, hubOf>> /\ refs' \in Nat
             /\ entry' \in {entry, NoHub} /\ pc' = [pc EXCEPT ![c] = "cancel"]
  <2>1. refs' \in Nat
    BY <1>2, ReleaseRooms DEF Types
  <2> QED
    BY <1>2, <2>1 DEF Release, Goto
<1>3. ASSUME NEW c \in Conns, \/ Join(c) \/ JoinFails(c) \/ Announce(c) \/ Update(c)
                              \/ UpdateUnrendered(c) \/ Refuse(c) \/ Deliver(c) \/ Leave(c)
                              \/ AnnounceLeft(c) \/ Cancel(c)
      PROVE  /\ UNCHANGED <<hubs, entry, refs>>
             /\ version' = version \/ version' = [version EXCEPT ![hubOf[c]] = @ + 1]
             /\ members' \subseteq members \cup {c}
             /\ hubOf' = hubOf \/ hubOf' = [hubOf EXCEPT ![c] = NoHub]
             /\ \E where \in PCs : pc' = [pc EXCEPT ![c] = where]
  BY <1>3 DEF Join, JoinFails, Announce, AnnouncePresence, Update, UpdateUnrendered, Refuse,
              Deliver, Leave, AnnounceLeft, Cancel, Goto, PCs, hubVars
<1>4. ASSUME NEW c \in Conns, Write(c) \/ WriterStops(c) \/ SendCommand(c) \/ Hangup(c)
      PROVE  UNCHANGED <<hubs, entry, refs, version, members, hubOf, pc>>
  BY <1>4 DEF Write, WriterStops, SendCommand, Hangup, hubVars, handlerVars
<1>5. CASE UNCHANGED vars
  BY <1>0, <1>5 DEF vars, hubVars, handlerVars
<1>6. ASSUME NEW c \in Conns, NEW b \in Browsers, Connect(c, b)
      PROVE  hubOf' \in [Conns -> Hubs \cup {NoHub}] /\ pc' \in [Conns -> PCs]
  BY <1>0, <1>1, <1>6 DEF PCs
<1>7. ASSUME NEW c \in Conns, Release(c)
      PROVE  pc' \in [Conns -> PCs]
  BY <1>0, <1>2, <1>7 DEF PCs
<1>8. ASSUME NEW c \in Conns, \/ Join(c) \/ JoinFails(c) \/ Announce(c) \/ Update(c)
                              \/ UpdateUnrendered(c) \/ Refuse(c) \/ Deliver(c) \/ Leave(c)
                              \/ AnnounceLeft(c) \/ Cancel(c)
      PROVE  /\ version' \in [Hubs -> Nat] /\ members' \subseteq Conns
             /\ hubOf' \in [Conns -> Hubs \cup {NoHub}] /\ pc' \in [Conns -> PCs]
  BY <1>0, <1>3, <1>8
<1> QED
  BY <1>0, <1>1, <1>2, <1>3, <1>4, <1>5, <1>6, <1>7, <1>8 DEF Next, Handler

\* Of what the handlers and write loops hold.
LEMMA NextHandlerTypes ==
  ASSUME Types, Rooms, Sockets, Waiting, [Next]_vars
  PROVE  /\ send' \in [Conns -> Seq(Frame)] /\ local' \in [Conns -> Frame]
         /\ \A d \in Conns : Len(send'[d]) <= Buffer /\ local'[d].type # "board"
         /\ gone' \in [Conns -> BOOLEAN] /\ cancelled' \in [Conns -> BOOLEAN]
         /\ writer' \in [Conns -> BOOLEAN]
<1>0. /\ send \in [Conns -> Seq(Frame)] /\ local \in [Conns -> Frame]
      /\ gone \in [Conns -> BOOLEAN] /\ cancelled \in [Conns -> BOOLEAN]
      /\ writer \in [Conns -> BOOLEAN] /\ Buffer \in Nat
      /\ \A d \in Conns : Len(send[d]) <= Buffer /\ local[d].type # "board"
  BY RoomAssumption DEF Types, TypeOK
<1>1. /\ board \in Nat /\ version \in [Hubs -> Nat]
      /\ ErrorFrame \in Frame /\ PresenceFrame \in Frame /\ ErrorFrame.type = "error"
      /\ AckFrame(board + 1) \in Frame /\ AckFrame(board + 1).type = "ack"
  <2>1. board \in Nat /\ version \in [Hubs -> Nat]
    BY RoomAssumption DEF Types, TypeOK
  <2> QED
    BY <2>1, Frames
<1>2. ASSUME NEW S, NEW f \in Frame, SendTo(S, f)
      PROVE  /\ send' \in [Conns -> Seq(Frame)] /\ gone' \in [Conns -> BOOLEAN]
             /\ \A d \in Conns : Len(send'[d]) <= Buffer
  BY <1>2, SendToFacts DEF Types
<1>3. ASSUME NEW c \in Conns, Join(c) \/ Update(c) \/ Announce(c) \/ AnnounceLeft(c)
      PROVE  /\ send' \in [Conns -> Seq(Frame)] /\ gone' \in [Conns -> BOOLEAN]
             /\ \A d \in Conns : Len(send'[d]) <= Buffer
  <2>1. CASE Announce(c) \/ AnnounceLeft(c)
    BY <1>1, <1>2, <2>1 DEF Announce, AnnounceLeft, AnnouncePresence
  <2>2. CASE Join(c) \/ Update(c)
    <3>1. pc[c] \in {"join", "read"}
      BY <2>2 DEF Join, Update
    <3>2. hubOf[c] \in Hubs
      BY <3>1 DEF Types, TypeOK, Rooms
    <3>3. /\ BoardFrame(version[hubOf[c]], board) \in Frame
          /\ BoardFrame(version[hubOf[c]] + 1, board + 1) \in Frame
      BY <1>1, <3>2, Frames
    <3> QED
      BY <1>2, <2>2, <3>3 DEF Join, Update
  <2> QED
    BY <1>3, <2>1, <2>2
<1>4. ASSUME NEW c \in Conns, Join(c) \/ Update(c) \/ Announce(c) \/ AnnounceLeft(c)
      PROVE  /\ local' = local \/ local' = [local EXCEPT ![c] = AckFrame(board + 1)]
             /\ cancelled' = cancelled
             /\ writer' = writer \/ writer' = [writer EXCEPT ![c] = TRUE]
  BY <1>4 DEF Join, Update, Announce, AnnounceLeft, AnnouncePresence
<1>5. ASSUME NEW c \in Conns, Deliver(c)
      PROVE  /\ send' \in [Conns -> Seq(Frame)]
             /\ \A d \in Conns : Len(send'[d]) <= Buffer
             /\ local' = [local EXCEPT ![c] = ErrorFrame]
             /\ UNCHANGED <<gone, cancelled, writer>>
  <2>1. /\ Len(send[c]) < Buffer /\ send' = [send EXCEPT ![c] = Append(send[c], local[c])]
        /\ local' = [local EXCEPT ![c] = ErrorFrame] /\ UNCHANGED <<gone, cancelled, writer>>
    BY <1>5 DEF Deliver
  <2>2. /\ Append(send[c], local[c]) \in Seq(Frame) /\ Len(send[c]) \in Nat
        /\ Len(Append(send[c], local[c])) = Len(send[c]) + 1
    BY <1>0
  <2>3. Len(Append(send[c], local[c])) <= Buffer
    BY <1>0, <2>1, <2>2
  <2> QED
    BY <1>0, <2>1, <2>2, <2>3
<1>6. ASSUME NEW c \in Conns, Write(c)
      PROVE  /\ send' \in [Conns -> Seq(Frame)]
             /\ \A d \in Conns : Len(send'[d]) <= Buffer
             /\ UNCHANGED <<local, gone, cancelled, writer>>
  <2>1. /\ send[c] # <<>> /\ send' = [send EXCEPT ![c] = Tail(send[c])]
        /\ UNCHANGED <<local, gone, cancelled, writer>>
    BY <1>6 DEF Write
  <2>2. Tail(send[c]) \in Seq(Frame) /\ Len(Tail(send[c])) = Len(send[c]) - 1 /\ Len(send[c]) \in Nat
    BY <1>0, <2>1, Taken
  <2>3. Len(Tail(send[c])) <= Buffer
    BY <1>0, <2>2
  <2> QED
    BY <1>0, <2>1, <2>2, <2>3
<1>7. ASSUME NEW c \in Conns, Cancel(c)
      PROVE  /\ send' = [send EXCEPT ![c] = <<>>] /\ gone' = [gone EXCEPT ![c] = FALSE]
             /\ cancelled' = [cancelled EXCEPT ![c] = TRUE] /\ UNCHANGED <<local, writer>>
  BY <1>7 DEF Cancel
<1>8. ASSUME NEW c \in Conns, \/ \E b \in Browsers : Connect(c, b)
                              \/ JoinFails(c) \/ UpdateUnrendered(c) \/ Refuse(c) \/ Leave(c)
                              \/ Release(c) \/ WriterStops(c) \/ SendCommand(c) \/ Hangup(c)
      PROVE  /\ UNCHANGED <<send, gone>>
             /\ local' = local \/ local' = [local EXCEPT ![c] = ErrorFrame]
             /\ cancelled' = cancelled \/ cancelled' = [cancelled EXCEPT ![c] = TRUE]
             /\ writer' = writer \/ writer' = [writer EXCEPT ![c] = FALSE]
  BY <1>8 DEF Connect, JoinFails, UpdateUnrendered, Refuse, Leave, Release, WriterStops,
              SendCommand, Hangup, handlerVars
<1>9. CASE UNCHANGED vars
  BY <1>0, <1>9 DEF vars, handlerVars
<1>10. /\ <<>> \in Seq(Frame) /\ Len(<<>>) <= Buffer
  BY <1>0
<1>11. ASSUME NEW c \in Conns, Cancel(c)
       PROVE  /\ send' \in [Conns -> Seq(Frame)]
              /\ \A d \in Conns : Len(send'[d]) <= Buffer
  BY ZenonT(30), <1>0, <1>7, <1>10, <1>11
<1>12. send' \in [Conns -> Seq(Frame)] /\ \A d \in Conns : Len(send'[d]) <= Buffer
  BY <1>0, <1>3, <1>5, <1>6, <1>8, <1>9, <1>11 DEF Next, Handler
<1>13. ASSUME NEW c \in Conns,
              local' = local \/ \E f \in {ErrorFrame, AckFrame(board + 1)} :
                                   local' = [local EXCEPT ![c] = f]
       PROVE  local' \in [Conns -> Frame] /\ \A d \in Conns : local'[d].type # "board"
  BY ZenonT(30), <1>0, <1>1, <1>13
<1>14. local' \in [Conns -> Frame] /\ \A d \in Conns : local'[d].type # "board"
  BY <1>0, <1>4, <1>5, <1>6, <1>7, <1>8, <1>9, <1>13 DEF Next, Handler
<1>15. ASSUME NEW c \in Conns, gone' \in [Conns -> BOOLEAN] \/ gone' = [gone EXCEPT ![c] = FALSE],
              cancelled' = cancelled \/ cancelled' = [cancelled EXCEPT ![c] = TRUE],
              \/ writer' = writer \/ writer' = [writer EXCEPT ![c] = TRUE]
              \/ writer' = [writer EXCEPT ![c] = FALSE]
       PROVE  /\ gone' \in [Conns -> BOOLEAN] /\ cancelled' \in [Conns -> BOOLEAN]
              /\ writer' \in [Conns -> BOOLEAN]
  BY <1>0, <1>15
<1>16. /\ gone' \in [Conns -> BOOLEAN] /\ cancelled' \in [Conns -> BOOLEAN]
       /\ writer' \in [Conns -> BOOLEAN]
  BY <1>0, <1>3, <1>4, <1>5, <1>6, <1>7, <1>8, <1>9, <1>15 DEF Next, Handler
<1> QED
  BY <1>12, <1>14, <1>16

\* Of the browsers' ends.
LEMMA NextBrowserTypes ==
  ASSUME Types, Rooms, Sockets, Waiting, [Next]_vars
  PROVE  /\ commands' \in 0 .. MaxCommands /\ inbox' \in [Conns -> Int]
         /\ open' \in [Conns -> BOOLEAN] /\ browserOf' \in [Conns -> Browsers \cup {None}]
         /\ shown' \in [Browsers -> -1 .. MaxCommands]
         /\ seen' \in [Browsers -> -1 .. MaxCommands]
         /\ settled' \in [Browsers -> 0 .. MaxCommands]
<1>0. /\ commands \in 0 .. MaxCommands /\ inbox \in [Conns -> 0 .. MaxCommands]
      /\ open \in [Conns -> BOOLEAN] /\ browserOf \in [Conns -> Browsers \cup {None}]
      /\ shown \in [Browsers -> -1 .. MaxCommands]
      /\ seen \in [Browsers -> -1 .. MaxCommands]
      /\ settled \in [Browsers -> 0 .. MaxCommands]
      /\ board \in 0 .. MaxCommands /\ MaxCommands \in Nat
      /\ version \in [Hubs -> 0 .. MaxCommands]
  BY RoomAssumption DEF Types, TypeOK
<1>1. ASSUME NEW c \in Conns, Write(c)
      PROVE  /\ UNCHANGED <<commands, inbox, open, browserOf>>
             /\ shown' \in [Browsers -> -1 .. MaxCommands]
             /\ seen' \in [Browsers -> -1 .. MaxCommands]
             /\ settled' \in [Browsers -> 0 .. MaxCommands]
  <2> DEFINE b == browserOf[c]
             f == send[c][1]
  <2>1. /\ b \in Browsers /\ f \in Frame /\ send[c] # <<>>
        /\ f.type = "board" => /\ shown' = [shown EXCEPT ![b] = f.board] /\ f.board <= board
                               /\ seen' = [seen EXCEPT ![b] = f.version]
                               /\ f.version <= version[hubOf[c]]
        /\ f.type # "board" => shown' = shown /\ seen' = seen
        /\ f.type = "ack" => settled' = [settled EXCEPT ![b] = f.board] /\ f.board <= board
        /\ f.type # "ack" => settled' = settled
    BY <1>1, WriteFacts DEF Waiting
  <2>2. hubOf[c] \in Hubs
    BY <2>1, QueueHub DEF Waiting
  <2>3. /\ f.type = "board" => f.version \in Nat /\ f.board \in Nat
        /\ f.type = "ack" => f.board \in Nat
    BY <2>1, Frames
  <2> HIDE DEF b, f
  <2>4. /\ f.type = "board" => f.version \in 0 .. MaxCommands /\ f.board \in 0 .. MaxCommands
        /\ f.type = "ack" => f.board \in 0 .. MaxCommands
    BY <1>0, <2>1, <2>2, <2>3
  <2>5. /\ shown' \in [Browsers -> -1 .. MaxCommands] /\ seen' \in [Browsers -> -1 .. MaxCommands]
    <3>1. CASE f.type = "board"
      <4>1. f.version \in -1 .. MaxCommands /\ f.board \in -1 .. MaxCommands
        BY <1>0, <2>4, <3>1
      <4>2. shown' = [shown EXCEPT ![b] = f.board] /\ seen' = [seen EXCEPT ![b] = f.version]
        BY <2>1, <3>1
      <4> QED
        BY <1>0, <4>1, <4>2
    <3>2. CASE f.type # "board"
      BY <1>0, <2>1, <3>2
    <3> QED
      BY <3>1, <3>2
  <2>6. settled' \in [Browsers -> 0 .. MaxCommands]
    BY <1>0, <2>1, <2>4
  <2> QED
    BY <1>1, <2>5, <2>6 DEF Write
<1>2. ASSUME NEW c \in Conns, JoinFails(c) \/ WriterStops(c) \/ Hangup(c)
      PROVE  Close(c) /\ inbox' = inbox
  BY <1>2 DEF JoinFails, WriterStops, Hangup
<1>3. ASSUME NEW c \in Conns, Close(c)
      PROVE  /\ commands' = commands /\ shown' = shown /\ browserOf' = browserOf
             /\ open' \in [Conns -> BOOLEAN]
             /\ seen' \in [Browsers -> -1 .. MaxCommands]
             /\ settled' \in [Browsers -> 0 .. MaxCommands]
  BY <1>3, CloseFacts DEF Types
<1>4. ASSUME NEW c \in Conns, NEW b \in Browsers, Connect(c, b)
      PROVE  /\ open' = [open EXCEPT ![c] = TRUE] /\ browserOf' = [browserOf EXCEPT ![c] = b]
             /\ UNCHANGED <<inbox, commands, shown, seen, settled>>
  BY <1>4 DEF Connect
<1>5. ASSUME NEW c \in Conns, SendCommand(c)
      PROVE  /\ commands' \in 0 .. MaxCommands /\ inbox' = [inbox EXCEPT ![c] = inbox[c] + 1]
             /\ UNCHANGED <<open, browserOf, shown, seen, settled>>
  BY <1>0, <1>5 DEF SendCommand
<1>6. ASSUME NEW c \in Conns, \/ Join(c) \/ Announce(c) \/ Update(c)
                              \/ UpdateUnrendered(c) \/ Refuse(c) \/ Deliver(c) \/ Leave(c)
                              \/ AnnounceLeft(c) \/ Release(c) \/ Cancel(c)
      PROVE  /\ UNCHANGED <<commands, open, browserOf, shown, seen, settled>>
             /\ \/ inbox' = inbox
                \/ inbox' = [inbox EXCEPT ![c] = inbox[c] - 1] \/ inbox' = [inbox EXCEPT ![c] = 0]
  BY <1>6 DEF Join, Announce, AnnouncePresence, Update, UpdateUnrendered, Refuse, Deliver, Leave,
              AnnounceLeft, Release, Cancel, browserVars
<1>7. CASE UNCHANGED vars
  BY <1>0, <1>7 DEF vars, browserVars
<1>8. inbox \in [Conns -> Int]
  BY <1>0
<1>9. ASSUME NEW c \in Conns,
             \/ inbox' = inbox \/ inbox' = [inbox EXCEPT ![c] = inbox[c] + 1]
             \/ inbox' = [inbox EXCEPT ![c] = inbox[c] - 1] \/ inbox' = [inbox EXCEPT ![c] = 0]
      PROVE  inbox' \in [Conns -> Int]
  BY <1>8, <1>9
<1>10. ASSUME NEW c \in Conns, NEW b \in Browsers, Connect(c, b)
       PROVE  open' \in [Conns -> BOOLEAN] /\ browserOf' \in [Conns -> Browsers \cup {None}]
  BY ZenonT(30), <1>0, <1>4, <1>10
<1> QED
  BY <1>0, <1>1, <1>2, <1>3, <1>4, <1>5, <1>6, <1>7, <1>8, <1>9, <1>10 DEF Next, Handler

\* Of all, and the counts are what the commands sent allow.
LEMMA NextTypes ==
  ASSUME Types, Tally, Rooms, Sockets, Waiting, [Next]_vars
  PROVE  Types'
<1>1. Tally' /\ Waiting'
  BY NextTally, NextWaiting DEF Types
<1>2. commands' \in 0 .. MaxCommands /\ MaxCommands \in Nat
  BY NextBrowserTypes, RoomAssumption
<1>3. board' \in 0 .. MaxCommands /\ \A c \in Conns : inbox'[c] \in 0 .. MaxCommands
  <2>1. PICK owner : /\ board' = Cardinality(Share(owner, commands', Made))
                     /\ \A c \in Conns : inbox'[c] = Cardinality(Share(owner, commands', c))
    BY <1>1 DEF Tally
  <2>2. \A x : Cardinality(Share(owner, commands', x)) \in 0 .. commands'
    BY <1>2, ShareBound
  <2>3. \A k \in 0 .. commands' : k \in 0 .. MaxCommands
    BY <1>2
  <2> QED
    BY <2>1, <2>2, <2>3
<1>4. inbox' \in [Conns -> 0 .. MaxCommands]
  BY <1>3, NextBrowserTypes
<1>5. version' \in [Hubs -> 0 .. MaxCommands]
  <2>1. version' \in [Hubs -> Nat]
    BY NextHubTypes
  <2>2. \A h \in Hubs : version'[h] <= board'
    BY <1>1 DEF Waiting, Behind
  <2>3. \A h \in Hubs : version'[h] \in 0 .. MaxCommands
    BY <1>2, <1>3, <2>1, <2>2
  <2> QED
    BY <2>1, <2>3
<1> QED
  BY <1>3, <1>4, <1>5, NextHubTypes, NextHandlerTypes, NextBrowserTypes DEF Types, TypeOK
---------------------------------------------------------------------------
(* The theorems *)

\* Nobody is there and nothing has happened.
LEMMA InitInductive == Init => Inductive
<1> SUFFICES ASSUME Init
             PROVE  Inductive
  OBVIOUS
<1> USE DEF Init
<1>1. MaxCommands \in Nat /\ MaxConns \in Nat /\ Buffer \in Nat /\ None \notin Browsers
  BY RoomAssumption
<1>2. Types
  BY <1>1, Frames DEF Types, TypeOK, PCs, NoHub
<1>3. Tally
  <2> DEFINE owner == [i \in 1 .. 0 |-> Lost]
  <2>1. owner \in [1 .. 0 -> Conns \cup {Made, Lost}]
    OBVIOUS
  <2>2. \A x : Share(owner, 0, x) = {}
    BY DEF Share
  <2>3. Cardinality({}) = 0
    BY FS_EmptySet
  <2>4. /\ board = Cardinality(Share(owner, commands, Made))
        /\ \A c \in Conns : inbox[c] = Cardinality(Share(owner, commands, c))
    BY <2>2, <2>3
  <2> QED
    BY <2>1, <2>4 DEF Tally
<1>4. Rooms
  <2>1. Holding = {} /\ \A c \in Conns : 0 < c
    BY <1>1 DEF Holding, Conns
  <2>2. Cardinality({}) = 0
    BY FS_EmptySet
  <2> QED
    BY <2>1, <2>2 DEF Rooms, OneRoom, NoHub
<1>5. Sockets
  BY DEF Sockets
<1>6. \A c \in Conns : send[c] = <<>> /\ local[c].type # "ack"
  BY Frames
<1>7. Behind
  BY <1>6 DEF Behind, QueueBehind
<1>8. FramesInOrder /\ AcksFollow
  BY <1>6 DEF FramesInOrder, InOrder, AcksFollow, AcksAt
<1> QED
  BY <1>2, <1>3, <1>4, <1>5, <1>7, <1>8 DEF Inductive

\* And every step keeps it all.
LEMMA NextInductive == Inductive /\ [Next]_vars => Inductive'
<1> SUFFICES ASSUME Inductive, [Next]_vars
             PROVE  Inductive'
  OBVIOUS
<1>1. Types /\ TypeOK /\ Tally /\ Rooms /\ Sockets /\ Waiting
  BY DEF Inductive, Types, Waiting
<1>2. Waiting'
  BY <1>1, NextWaiting
<1> QED
  BY <1>1, <1>2, NextTypes, NextTally, NextRooms, NextSockets DEF Inductive, Waiting

\* So it holds throughout.
LEMMA RoomInductive == Spec => []Inductive
<1> QED
  BY InitInductive, NextInductive, PTL DEF Spec

\* No queue outgrows its buffer, and there are never more changes, nor later
\* versions, than commands sent: the hub's send drops whom it would overflow
\* and deliver waits.
THEOREM RoomTypeCorrect == Spec => []TypeOK
<1>1. Inductive => TypeOK
  BY DEF Inductive, Types
<1> QED
  BY <1>1, RoomInductive, PTL

\* Everyone connected is in the same room, and there is none when nobody is:
\* what Hubs.Acquire and its release promise.
THEOREM RoomIsShared == Spec => []OneRoom
<1>1. Inductive => OneRoom
  BY DEF Inductive, Rooms
<1> QED
  BY <1>1, RoomInductive, PTL

\* What waits for a browser never goes back, nor behind what it shows: Hub.Join
\* and Hub.Update load and queue the board under one lock.
THEOREM FramesStayInOrder == Spec => []FramesInOrder
<1>1. Inductive => FramesInOrder
  BY DEF Inductive
<1> QED
  BY <1>1, RoomInductive, PTL

\* Whoever is told a command was saved shows a board that includes it: the
\* reply is delivered after the board it follows is queued.
THEOREM AcksComeAfter == Spec => []AckAfterBoard
<1>1. Inductive => AckAfterBoard
  BY DEF Inductive, AcksFollow, AcksAt, AckAfterBoard
<1> QED
  BY <1>1, RoomInductive, PTL

\* A room keeps Feed's promise: what a browser shows is a retro that was, and
\* only moves on, through reconnections too.
THEOREM RoomImplementsFeed == Spec => ImplementsFeed
<1>1. Init => F!Init
  BY DEF Init, F!Init
<1>2. ASSUME Inductive, [Next]_vars
      PROVE  [F!Next]_F!feedVars
  <2>1. /\ Types /\ Rooms /\ Sockets /\ Behind /\ FramesInOrder
        /\ shown \in [Browsers -> -1 .. MaxCommands] /\ board \in Nat
    BY <1>2, RoomAssumption DEF Inductive, Types, TypeOK
  <2>2. ASSUME NEW c \in Conns, Write(c)
        PROVE  UNCHANGED F!feedVars \/ \E b \in Browsers : F!Show(b)
    <3> DEFINE b == browserOf[c]
               f == send[c][1]
    <3>1. /\ b \in Browsers /\ f \in Frame /\ board' = board
          /\ f.type = "board" => /\ shown' = [shown EXCEPT ![b] = f.board]
                                 /\ shown[b] <= f.board /\ f.board <= board
          /\ f.type # "board" => shown' = shown
      BY <2>1, <2>2, WriteFacts
    <3>2. f.type = "board" => f.board \in Nat
      BY <3>1, Frames
    <3> HIDE DEF b, f
    <3>3. CASE f.type = "board" /\ f.board # shown[b]
      <4>1. f.board \in shown[b] + 1 .. board
        BY <2>1, <3>1, <3>2, <3>3
      <4> QED
        BY <3>1, <3>3, <4>1 DEF F!Show
    <3>4. CASE f.type = "board" /\ f.board = shown[b]
      BY <2>1, <3>1, <3>4 DEF F!feedVars
    <3>5. CASE f.type # "board"
      BY <3>1, <3>5 DEF F!feedVars
    <3> QED
      BY <3>3, <3>4, <3>5
  <2>3. ASSUME NEW c \in Conns, Update(c) \/ UpdateUnrendered(c)
        PROVE  F!Change
    BY <2>3 DEF Update, UpdateUnrendered, F!Change
  <2>4. ASSUME NEW c \in Conns,
               \/ \E b \in Browsers : Connect(c, b)
               \/ Join(c) \/ JoinFails(c) \/ Announce(c) \/ Refuse(c) \/ Deliver(c) \/ Leave(c)
               \/ AnnounceLeft(c) \/ Release(c) \/ Cancel(c) \/ WriterStops(c)
               \/ SendCommand(c) \/ Hangup(c)
        PROVE  UNCHANGED F!feedVars
    BY <2>4 DEF Connect, Join, JoinFails, Announce, AnnouncePresence, Refuse, Deliver, Leave,
                AnnounceLeft, Release, Cancel, WriterStops, SendCommand, Hangup, Close,
                browserVars, F!feedVars
  <2>5. CASE UNCHANGED vars
    BY <2>5 DEF vars, browserVars, F!feedVars
  <2> QED
    BY <1>2, <2>2, <2>3, <2>4, <2>5 DEF Next, Handler, F!Next
<1> QED
  BY <1>1, <1>2, RoomInductive, PTL DEF Spec, ImplementsFeed, F!Spec
=============================================================================
