------------------------------- MODULE Room -------------------------------
(***************************************************************************)
(* One retro's room: the hub and its reference count (internal/live), the  *)
(* socket handler and write loop that serve each connection                *)
(* (internal/server/socket.go) and the browser at the other end            *)
(* (ui/src/lib/socket.ts).                                                 *)
(*                                                                         *)
(* A step is what runs under one lock, or between two points where another *)
(* goroutine can run.  Hub.Update, Hub.Join, Hub.Leave, Hub.People and     *)
(* Hub.Broadcast each hold the hub's lock throughout, so each is one step; *)
(* a handler that calls two of them can be overtaken in between.  A change *)
(* to the retro is only counted: board is how many there have been, and a  *)
(* board frame says how many it includes.                                  *)
(***************************************************************************)
EXTENDS Integers, Sequences, FiniteSets

CONSTANTS
  Browsers,     \* each a person of their own
  None,         \* no browser
  Buffer,       \* the room in Client.Send, 32 in the code
  MaxConns,     \* bound of the model: connections made in all
  MaxCommands   \* bound of the model: commands sent in all

ASSUME RoomAssumption ==
  /\ Buffer \in Nat \ {0} /\ MaxConns \in Nat /\ MaxCommands \in Nat
  /\ None \notin Browsers

\* Connections and hubs are numbered as they are made.
Conns == 1 .. MaxConns
Hubs  == 1 .. MaxConns
NoHub == 0

VARIABLES
  board,      \* changes committed to the retro
  hubs,       \* hubs made so far
  entry,      \* the hub Hubs has for the retro, NoHub when it has none
  refs,       \* refs of that entry
  version,    \* version[h] of hub h
  members,    \* the clients of all hubs; c is a client of hubOf[c]
  hubOf,      \* hubOf[c], the hub that the handler of c acquired
  pc,         \* pc[c], where the handler of c is
  local,      \* local[c], the reply it is about to deliver, or ErrorFrame
  send,       \* send[c], what waits in c's Send
  gone,       \* gone[c], the hub has dropped c
  cancelled,  \* cancelled[c], the context of c's handler is done
  writer,     \* writer[c], whether c's writeLoop runs
  open,       \* open[c], the websocket is open at the browser's end
  browserOf,  \* browserOf[c], the browser that connected
  inbox,      \* inbox[c], commands sent over c and not read yet
  commands,   \* commands sent so far
  shown,      \* shown[b], changes included in the board that b shows
  seen,       \* seen[b], the version of the last board over b's connection
  settled     \* settled[b], changes told of by the last ack over it

hubVars     == <<hubs, entry, refs, version, members, hubOf>>
handlerVars == <<pc, local, send, gone, cancelled, writer>>
browserVars == <<open, browserOf, inbox, commands, shown, seen, settled>>
vars == <<board, hubVars, handlerVars, browserVars>>

BoardFrame(v, k) == [type |-> "board", version |-> v, board |-> k]
PresenceFrame    == [type |-> "presence"]
AckFrame(k)      == [type |-> "ack", board |-> k]
ErrorFrame       == [type |-> "error"]

PCs == {"idle", "join", "announce", "read", "deliver",
        "announceLeft", "release", "cancel", "done"}

---------------------------------------------------------------------------
(* internal/live/live.go *)

Clients(h) == {c \in members : hubOf[c] = h}

\* Mutant: a full buffer only loses the frame.
BadSendTo(S, frame) ==
  /\ send' = [c \in Conns |->
                IF c \in S /\ Len(send[c]) < Buffer
                THEN Append(send[c], frame) ELSE send[c]]
  /\ UNCHANGED gone

\* Hub.send to every connection in S: a full buffer drops the client instead.
SendTo(S, frame) ==
  /\ send' = [c \in Conns |->
                IF c \in S /\ Len(send[c]) < Buffer
                THEN Append(send[c], frame) ELSE send[c]]
  /\ gone' = [c \in Conns |-> gone[c] \/ (c \in S /\ Len(send[c]) >= Buffer)]

\* Hubs.Acquire
Acquire(c) ==
  /\ hubs' = IF entry = NoHub THEN hubs + 1 ELSE hubs
  /\ entry' = IF entry = NoHub THEN hubs + 1 ELSE entry
  /\ refs' = IF entry = NoHub THEN 1 ELSE refs + 1
  /\ hubOf' = [hubOf EXCEPT ![c] = entry']
  /\ UNCHANGED <<version, members>>

---------------------------------------------------------------------------
Init ==
  /\ board = 0
  /\ hubs = 0
  /\ entry = NoHub
  /\ refs = 0
  /\ version = [h \in Hubs |-> 0]
  /\ members = {}
  /\ hubOf = [c \in Conns |-> NoHub]
  /\ pc = [c \in Conns |-> "idle"]
  /\ local = [c \in Conns |-> ErrorFrame]
  /\ send = [c \in Conns |-> <<>>]
  /\ gone = [c \in Conns |-> FALSE]
  /\ cancelled = [c \in Conns |-> FALSE]
  /\ writer = [c \in Conns |-> FALSE]
  /\ open = [c \in Conns |-> FALSE]
  /\ browserOf = [c \in Conns |-> None]
  /\ inbox = [c \in Conns |-> 0]
  /\ commands = 0
  /\ shown = [b \in Browsers |-> -1]
  /\ seen = [b \in Browsers |-> -1]
  /\ settled = [b \in Browsers |-> 0]

Goto(c, where) == pc' = [pc EXCEPT ![c] = where]

Connected(b, c) == browserOf[c] = b /\ open[c]

\* Mutant: connect() does not set version back to -1.
BadClose(c) ==
  /\ open' = [open EXCEPT ![c] = FALSE]
  /\ settled' = [b \in Browsers |-> IF Connected(b, c) THEN 0 ELSE settled[b]]
  /\ UNCHANGED <<browserOf, commands, shown, seen>>

\* The websocket closes, if it was open: its browser gives up the commands it
\* waits for.  The version = -1 of the next connect() is done here too, as
\* nothing looks at it in between.
Close(c) ==
  /\ open' = [open EXCEPT ![c] = FALSE]
  /\ seen' = [b \in Browsers |-> IF Connected(b, c) THEN -1 ELSE seen[b]]
  /\ settled' = [b \in Browsers |-> IF Connected(b, c) THEN 0 ELSE settled[b]]
  /\ UNCHANGED <<browserOf, commands, shown>>

---------------------------------------------------------------------------
(* The socket handler of connection c *)

\* Mutant: connect() without waiting for onclose of the last socket.
BadConnect(c, b) ==
  /\ pc[c] = "idle" /\ \A d \in 1 .. c - 1 : pc[d] # "idle"
  /\ open' = [open EXCEPT ![c] = TRUE]
  /\ browserOf' = [browserOf EXCEPT ![c] = b]
  /\ Acquire(c)
  /\ Goto(c, "join")
  /\ UNCHANGED <<board, local, send, gone, cancelled, writer,
                 inbox, commands, shown, seen, settled>>

\* connect() of a browser with no open socket, and the handler as far as
\* Acquire.
Connect(c, b) ==
  /\ pc[c] = "idle" /\ \A d \in 1 .. c - 1 : pc[d] # "idle"
  /\ ~\E d \in Conns : Connected(b, d)
  /\ open' = [open EXCEPT ![c] = TRUE]
  /\ browserOf' = [browserOf EXCEPT ![c] = b]
  /\ Acquire(c)
  /\ Goto(c, "join")
  /\ UNCHANGED <<board, local, send, gone, cancelled, writer,
                 inbox, commands, shown, seen, settled>>

\* Hub.Join: the snapshot is loaded and queued under the hub's lock.
Join(c) ==
  /\ pc[c] = "join"
  /\ members' = members \cup {c}
  /\ SendTo({c}, BoardFrame(version[hubOf[c]], board))
  /\ Goto(c, "announce")
  /\ UNCHANGED <<board, hubs, entry, refs, version, hubOf,
                 local, cancelled, writer, browserVars>>

\* The snapshot cannot be loaded: the connection is closed.
JoinFails(c) ==
  /\ pc[c] = "join"
  /\ Close(c)
  /\ Goto(c, "release")
  /\ UNCHANGED <<board, hubVars, local, send, gone, cancelled, writer, inbox>>

\* hub.Broadcast of who is here, on the way in and on the way out.  Who the
\* frame names does not matter here: module Presence is about that.
AnnouncePresence(c) ==
  /\ SendTo(Clients(hubOf[c]), PresenceFrame)
  /\ UNCHANGED <<board, hubVars, local, cancelled, browserVars>>

\* On the way in go a.writeLoop comes next.
Announce(c) ==
  /\ pc[c] = "announce"
  /\ AnnouncePresence(c)
  /\ writer' = [writer EXCEPT ![c] = TRUE]
  /\ Goto(c, "read")

AnnounceLeft(c) ==
  /\ pc[c] = "announceLeft"
  /\ AnnouncePresence(c)
  /\ Goto(c, "release")
  /\ UNCHANGED writer

\* Mutant: whoever sent the command is left out, having made the change.
BadUpdate(c) ==
  LET h == hubOf[c] IN
  /\ pc[c] = "read" /\ inbox[c] > 0
  /\ inbox' = [inbox EXCEPT ![c] = @ - 1]
  /\ board' = board + 1
  /\ version' = [version EXCEPT ![h] = @ + 1]
  /\ SendTo(Clients(h) \ {c}, BoardFrame(version[h] + 1, board + 1))
  /\ local' = [local EXCEPT ![c] = AckFrame(board + 1)]
  /\ Goto(c, "deliver")
  /\ UNCHANGED <<hubs, entry, refs, members, hubOf, cancelled, writer,
                 open, browserOf, commands, shown, seen, settled>>

\* Reads a command, which changes the retro, and Hub.Update shows it to all.
Update(c) ==
  LET h == hubOf[c] IN
  /\ pc[c] = "read" /\ inbox[c] > 0
  /\ inbox' = [inbox EXCEPT ![c] = @ - 1]
  /\ board' = board + 1
  /\ version' = [version EXCEPT ![h] = @ + 1]
  /\ SendTo(Clients(h), BoardFrame(version[h] + 1, board + 1))
  /\ local' = [local EXCEPT ![c] = AckFrame(board + 1)]
  /\ Goto(c, "deliver")
  /\ UNCHANGED <<hubs, entry, refs, members, hubOf, cancelled, writer,
                 open, browserOf, commands, shown, seen, settled>>

\* The same, but the context ends after the command commits and before the
\* board is loaded: "An error from change sends nothing".
UpdateUnrendered(c) ==
  /\ pc[c] = "read" /\ inbox[c] > 0
  /\ inbox' = [inbox EXCEPT ![c] = @ - 1]
  /\ board' = board + 1
  /\ local' = [local EXCEPT ![c] = ErrorFrame]
  /\ Goto(c, "deliver")
  /\ UNCHANGED <<hubVars, send, gone, cancelled, writer,
                 open, browserOf, commands, shown, seen, settled>>

\* A command the store refuses.
Refuse(c) ==
  /\ pc[c] = "read" /\ inbox[c] > 0
  /\ inbox' = [inbox EXCEPT ![c] = @ - 1]
  /\ local' = [local EXCEPT ![c] = ErrorFrame]
  /\ Goto(c, "deliver")
  /\ UNCHANGED <<board, hubVars, send, gone, cancelled, writer,
                 open, browserOf, commands, shown, seen, settled>>

\* Mutant: replies are queued without a limit.
BadDeliver(c) ==
  /\ pc[c] = "deliver"
  /\ send' = [send EXCEPT ![c] = Append(@, local[c])]
  /\ local' = [local EXCEPT ![c] = ErrorFrame]
  /\ Goto(c, "read")
  /\ UNCHANGED <<board, hubVars, gone, cancelled, writer, browserVars>>

\* deliver waits for room in Send, unlike the hub.
Deliver(c) ==
  /\ pc[c] = "deliver"
  /\ Len(send[c]) < Buffer
  /\ send' = [send EXCEPT ![c] = Append(@, local[c])]
  /\ local' = [local EXCEPT ![c] = ErrorFrame]
  /\ Goto(c, "read")
  /\ UNCHANGED <<board, hubVars, gone, cancelled, writer, browserVars>>

\* Mutant: deliver does not look at ctx.Done.
BadLeave(c) ==
  /\ \/ pc[c] = "deliver" /\ gone[c]
     \/ pc[c] = "read" /\ (cancelled[c] \/ ~open[c])
  /\ members' = members \ {c}
  /\ local' = [local EXCEPT ![c] = ErrorFrame]
  /\ Goto(c, "announceLeft")
  /\ UNCHANGED <<board, hubs, entry, refs, version, hubOf,
                 send, gone, cancelled, writer, browserVars>>

\* deliver, or conn.Read, gives up and the handler returns, which begins with
\* Hub.Leave.
Leave(c) ==
  /\ \/ pc[c] = "deliver" /\ (gone[c] \/ cancelled[c])
     \/ pc[c] = "read" /\ (cancelled[c] \/ ~open[c])
  /\ members' = members \ {c}
  /\ local' = [local EXCEPT ![c] = ErrorFrame]
  /\ Goto(c, "announceLeft")
  /\ UNCHANGED <<board, hubs, entry, refs, version, hubOf,
                 send, gone, cancelled, writer, browserVars>>

\* Mutant: the hub is forgotten with the first handler that ends.
BadRelease(c) ==
  /\ pc[c] = "release"
  /\ refs' = refs - 1
  /\ entry' = NoHub
  /\ Goto(c, "cancel")
  /\ UNCHANGED <<board, hubs, version, members, hubOf,
                 local, send, gone, cancelled, writer, browserVars>>

\* The deferred release, which forgets the hub with its last reference.
Release(c) ==
  /\ pc[c] = "release"
  /\ refs' = refs - 1
  /\ entry' = IF refs = 1 THEN NoHub ELSE entry
  /\ Goto(c, "cancel")
  /\ UNCHANGED <<board, hubs, version, members, hubOf,
                 local, send, gone, cancelled, writer, browserVars>>

\* The deferred cancel.  The hub holds the client no more and its write loop
\* can only stop: all that was c's is garbage.
Cancel(c) ==
  /\ pc[c] = "cancel"
  /\ cancelled' = [cancelled EXCEPT ![c] = TRUE]
  /\ send' = [send EXCEPT ![c] = <<>>]
  /\ gone' = [gone EXCEPT ![c] = FALSE]
  /\ hubOf' = [hubOf EXCEPT ![c] = NoHub]
  /\ inbox' = [inbox EXCEPT ![c] = 0]
  /\ Goto(c, "done")
  /\ UNCHANGED <<board, hubs, entry, refs, version, members, local, writer,
                 open, browserOf, commands, shown, seen, settled>>

Handler(c) ==
  \/ Join(c) \/ JoinFails(c)
  \/ Announce(c)
  \/ Update(c) \/ UpdateUnrendered(c) \/ Refuse(c) \/ Deliver(c)
  \/ Leave(c) \/ AnnounceLeft(c) \/ Release(c) \/ Cancel(c)

---------------------------------------------------------------------------
(* The write loop of connection c, and what the browser makes of a frame *)

\* onmessage of the browser b: a board older than the one already shown over
\* this connection is ignored.
Receive(b, f) ==
  LET shows == f.type = "board" /\ f.version >= seen[b] IN
  /\ shown' = IF shows THEN [shown EXCEPT ![b] = f.board] ELSE shown
  /\ seen' = IF shows THEN [seen EXCEPT ![b] = f.version] ELSE seen
  /\ settled' = IF f.type = "ack" THEN [settled EXCEPT ![b] = f.board] ELSE settled

\* case msg := <-c.Send, which select may take even when Gone is closed.
Write(c) ==
  /\ writer[c] /\ ~cancelled[c] /\ open[c]
  /\ send[c] # <<>>
  /\ send' = [send EXCEPT ![c] = Tail(@)]
  /\ Receive(browserOf[c], Head(send[c]))
  /\ UNCHANGED <<board, hubVars, pc, local, gone, cancelled, writer,
                 open, browserOf, inbox, commands>>

\* ctx.Done, Gone, or a write or ping that fails: the loop returns, the
\* connection is closed and the deferred cancel ends the handler's context.
WriterStops(c) ==
  /\ writer[c]
  /\ cancelled[c] \/ gone[c] \/ ~open[c]
  /\ writer' = [writer EXCEPT ![c] = FALSE]
  /\ cancelled' = [cancelled EXCEPT ![c] = TRUE]
  /\ Close(c)
  /\ UNCHANGED <<board, hubVars, pc, local, send, gone, inbox>>

---------------------------------------------------------------------------
(* What people and networks do *)

SendCommand(c) ==
  /\ open[c]
  /\ commands < MaxCommands
  /\ inbox' = [inbox EXCEPT ![c] = @ + 1]
  /\ commands' = commands + 1
  /\ UNCHANGED <<board, hubVars, handlerVars, open, browserOf,
                 shown, seen, settled>>

\* The tab is closed, the connection is lost, or a write or ping over it
\* takes longer than writeWait, which closes it.
Hangup(c) ==
  /\ open[c]
  /\ Close(c)
  /\ UNCHANGED <<board, hubVars, handlerVars, inbox>>

---------------------------------------------------------------------------
Next ==
  \E c \in Conns :
    \/ \E b \in Browsers : Connect(c, b)
    \/ Handler(c)
    \/ Write(c) \/ WriterStops(c)
    \/ SendCommand(c) \/ Hangup(c)

Spec == Init /\ [][Next]_vars

\* Each handler and each write loop is a goroutine that keeps running: a
\* handler's reads, lock acquisitions and deliveries return when they can,
\* and so does the loop's select.  Nobody has to connect, send a command or
\* stay.
Fairness ==
  \A c \in Conns : WF_vars(Handler(c)) /\ WF_vars(Write(c) \/ WriterStops(c))

FairSpec == Spec /\ Fairness

---------------------------------------------------------------------------
\* The variables have their types, and no client has more waiting for it than
\* its buffer has room for.
TypeOK ==
  /\ board \in 0 .. MaxCommands /\ commands \in 0 .. MaxCommands
  /\ hubs \in 0 .. MaxConns /\ entry \in Hubs \cup {NoHub} /\ refs \in Nat
  /\ version \in [Hubs -> 0 .. MaxCommands]
  /\ members \subseteq Conns
  /\ hubOf \in [Conns -> Hubs \cup {NoHub}]
  /\ pc \in [Conns -> PCs]
  /\ \A c \in Conns : Len(send[c]) <= Buffer
  /\ gone \in [Conns -> BOOLEAN] /\ cancelled \in [Conns -> BOOLEAN]
  /\ writer \in [Conns -> BOOLEAN] /\ open \in [Conns -> BOOLEAN]
  /\ browserOf \in [Conns -> Browsers \cup {None}]
  /\ inbox \in [Conns -> 0 .. MaxCommands]
  /\ shown \in [Browsers -> -1 .. MaxCommands]
  /\ seen \in [Browsers -> -1 .. MaxCommands]
  /\ settled \in [Browsers -> 0 .. MaxCommands]

\* The handlers that hold a reference to a hub.
Holding == {c \in Conns : pc[c] \notin {"idle", "cancel", "done"}}

\* "Hubs hands out one Hub per retro and forgets it when the last person
\* leaves": everyone connected is in the same room, whatever order they come,
\* go and come back in, and there is no room when nobody is.
OneRoom ==
  /\ refs = Cardinality(Holding)
  /\ (entry = NoHub) <=> (Holding = {})
  /\ \A c \in Holding : hubOf[c] = entry
  /\ members \subseteq Holding

\* What waits for a browser never goes back, neither in version nor in what it
\* includes, and is no older than what the browser shows.
InOrder(c) ==
  \A i \in 1 .. Len(send[c]) :
    LET f == send[c][i] IN
    f.type = "board" =>
      /\ \A j \in 1 .. i - 1 : send[c][j].type = "board" =>
           send[c][j].version <= f.version /\ send[c][j].board <= f.board
      /\ open[c] => seen[browserOf[c]] <= f.version /\ shown[browserOf[c]] <= f.board

\* "Each change and the frames it produces go out in the order they happened",
\* to everyone.
FramesInOrder == \A c \in Conns : InOrder(c)

\* By the time a browser is told its command was saved it shows a board that
\* includes it, unless the hub has dropped the connection for falling behind.
AckAfterBoard ==
  \A c \in Conns :
    (open[c] /\ ~gone[c] /\ ~cancelled[c] /\ settled[browserOf[c]] > 0) =>
      settled[browserOf[c]] <= shown[browserOf[c]]

\* What a browser shows only moves on, through reconnections too.
F == INSTANCE Feed
ImplementsFeed == F!Spec

\* Once people stop sending commands everyone who stays connected comes to
\* show the last version of the room they are in, and goes on showing it.
EveryoneCatchesUp ==
  <>[](\A c \in members : open[c] => seen[browserOf[c]] = version[hubOf[c]])

\* A handler and its write loop wind down once the connection is closed,
\* whatever they were waiting for, so the room of a retro nobody is in goes.
\* (A closed connection stays closed, so with finitely many of them this says
\* that each one ends.)
ClosedConnectionsEnd ==
  <>[](\A c \in Conns :
         (browserOf[c] # None /\ ~open[c]) => (pc[c] = "done" /\ ~writer[c]))

\* Nothing is on its way anywhere.
Quiet ==
  \A c \in Conns :
    /\ pc[c] \in {"idle", "done"} \/ (pc[c] = "read" /\ inbox[c] = 0 /\ open[c])
    /\ send[c] = <<>> \/ ~open[c]

\* "After every change the server loads the retro once and sends everyone
\* their own projection": when nothing is on its way everyone connected
\* shows the retro as it is.
ScreensAgree ==
  Quiet => \A c \in Conns : open[c] => shown[browserOf[c]] = board
=============================================================================
