------------------------------ MODULE Presence ------------------------------
(***************************************************************************)
(* Who is in a room, as Room leaves it out: what the presence frames say   *)
(* that a socket handler broadcasts as it joins and as it leaves, and what *)
(* each browser shows of it.  Hub.People and Hub.Broadcast lock the hub    *)
(* one after the other, so other handlers can run between the two.  No     *)
(* buffer is ever full here; Room is about that.                           *)
(***************************************************************************)
EXTENDS Sequences

CONSTANTS
  Conns,   \* connections, each used once
  People,  \* who may be behind one
  None     \* nobody

VARIABLES
  members,   \* the clients of the hub
  personOf,  \* personOf[c], the Person of client c
  pc,        \* pc[c], where the handler of c is
  list,      \* list[c], what the last call of People returned to it
  send,      \* send[c], the presence frames that wait for c
  shown      \* shown[c], who the browser at the end of c shows as here

vars == <<members, personOf, pc, list, send, shown>>

Init ==
  /\ members = {}
  /\ personOf = [c \in Conns |-> None]
  /\ pc = [c \in Conns |-> "idle"]
  /\ list = [c \in Conns |-> {}]
  /\ send = [c \in Conns |-> <<>>]
  /\ shown = [c \in Conns |-> {}]

Goto(c, where) == pc' = [pc EXCEPT ![c] = where]

\* "Everyone connected, once each however many tabs they have open."
Present == {personOf[c] : c \in members}

\* Hub.Join
Join(c, p) ==
  /\ pc[c] = "idle"
  /\ personOf' = [personOf EXCEPT ![c] = p]
  /\ members' = members \cup {c}
  /\ Goto(c, "people")
  /\ UNCHANGED <<list, send, shown>>

\* Hub.Leave
Leave(c) ==
  /\ pc[c] = "reading"
  /\ members' = members \ {c}
  /\ Goto(c, "peopleLeft")
  /\ UNCHANGED <<personOf, list, send, shown>>

\* hub.People(), the argument of the Broadcast that comes next.
ReadPeople(c) ==
  /\ pc[c] \in {"people", "peopleLeft"}
  /\ list' = [list EXCEPT ![c] = Present]
  /\ Goto(c, IF pc[c] = "people" THEN "broadcast" ELSE "broadcastLeft")
  /\ UNCHANGED <<members, personOf, send, shown>>

\* hub.Broadcast of it
Broadcast(c) ==
  /\ pc[c] \in {"broadcast", "broadcastLeft"}
  /\ send' = [d \in Conns |-> IF d \in members THEN Append(send[d], list[c]) ELSE send[d]]
  /\ Goto(c, IF pc[c] = "broadcast" THEN "reading" ELSE "done")
  /\ UNCHANGED <<members, personOf, list, shown>>

\* setPeople of a frame that the write loop sent.
ShowPeople(c) ==
  /\ send[c] # <<>>
  /\ shown' = [shown EXCEPT ![c] = Head(send[c])]
  /\ send' = [send EXCEPT ![c] = Tail(@)]
  /\ UNCHANGED <<members, personOf, pc, list>>

Next ==
  \E c \in Conns :
    \/ \E p \in People : Join(c, p)
    \/ ReadPeople(c) \/ Broadcast(c) \/ Leave(c) \/ ShowPeople(c)

Spec == Init /\ [][Next]_vars

\* No handler has anything to announce and no frame is on its way.
Quiet ==
  \A c \in Conns : pc[c] \in {"idle", "reading", "done"} /\ send[c] = <<>>

\* "People is everyone connected": when nothing is on its way, that is who
\* every browser in the room shows, which is what the soak test waits for.
EveryoneShown == Quiet => \A c \in members : shown[c] = Present
=============================================================================
