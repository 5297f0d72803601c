--------------------------- MODULE ServerProofs ---------------------------
(***************************************************************************)
(* Proofs about Server for any v1 databases, any number of migrations,     *)
(* connections, crashes and failures, and about what Import makes of them. *)
(***************************************************************************)
EXTENDS Server, Induction, FiniteSetTheorems

---------------------------------------------------------------------------
(* The inductive invariant *)

Counted == {c \in Conns : conn[c] = "counted"}

\* What TypeOK leaves out: what is counted can be counted.
Types ==
  /\ TypeOK
  /\ asking \subseteq Conns
  /\ IsFiniteSet(Counted) /\ IsFiniteSet(asking)

\* The first n migrations, in order.
Applied(n) == [i \in 1 .. n |-> i]

Running == {"serving", "closed"} \cup Ending

\* The file has a prefix of the migrations, and all of them once Run is past
\* applying them; it is v1's until it is converted, and what it is converted to
\* is what Import makes of it.
Schema ==
  /\ old # None => /\ IsOldDatabase(old)
                   /\ outcome = IF Fails(old) THEN None ELSE Converted(old)
  /\ IsV1 => file.migrations = <<>>
  /\ ~IsV1 => \E n \in 0 .. Migrations : file.migrations = Applied(n)
  /\ pc \in {"copying", "copied"} => IsV1
  /\ pc \in {"migrating", "wired"} \cup Running => ~IsV1
  /\ pc \in {"wired"} \cup Running => file.migrations = Applied(Migrations)
  /\ DOMAIN file = {"v1", "migrations", "tables"}
  /\ WasV1 => ~Fails(old) /\ file.tables = Converted(old)

\* The copy being taken becomes the whole one that the conversion waits for.
Copying ==
  /\ pc = "copied" => copies[copyAt] = "whole"
  /\ CopyFirst

Inductive == Types /\ Schema /\ Copying
---------------------------------------------------------------------------
(* Migrations *)

\* The migrations that have been applied, as a set and as a sequence.
LEMMA AppliedFacts ==
  ASSUME NEW n \in Nat
  PROVE  /\ Applied(n) \in Seq(Nat) /\ Len(Applied(n)) = n
         /\ DOMAIN Applied(n) = 1 .. n
         /\ ToSet(Applied(n)) = 1 .. n
         /\ Append(Applied(n), n + 1) = Applied(n + 1)
<1>1. Applied(n) \in Seq(Nat) /\ Len(Applied(n)) = n /\ DOMAIN Applied(n) = 1 .. n
  BY DEF Applied
<1>2. ToSet(Applied(n)) = 1 .. n
  BY DEF Applied, ToSet
<1>3. Append(Applied(n), n + 1) = Applied(n + 1)
  <2>1. /\ Append(Applied(n), n + 1) \in Seq(Nat) /\ Len(Append(Applied(n), n + 1)) = n + 1
        /\ \A i \in 1 .. n + 1 : Append(Applied(n), n + 1)[i] = IF i = n + 1 THEN n + 1 ELSE Applied(n)[i]
    BY <1>1
  <2>2. \A i \in 1 .. n + 1 : Append(Applied(n), n + 1)[i] = i
    BY <2>1 DEF Applied
  <2>3. Append(Applied(n), n + 1) = [i \in 1 .. n + 1 |-> Append(Applied(n), n + 1)[i]]
    BY <2>1
  <2> QED
    BY <2>2, <2>3 DEF Applied
<1> QED
  BY <1>1, <1>2, <1>3

\* Of a prefix of the migrations, the next one pending is the one after it.
LEMMA NextMigration ==
  ASSUME NEW n \in 0 .. Migrations, file.migrations = Applied(n)
  PROVE  /\ Pending = n + 1 .. Migrations
         /\ Pending # {} => (CHOOSE m \in Pending : \A k \in Pending : m <= k) = n + 1
         /\ Pending = {} => n = Migrations
<1>1. n \in Nat /\ Migrations \in Nat
  BY ServerAssumption
<1>2. Pending = n + 1 .. Migrations
  <2>1. ToSet(file.migrations) = 1 .. n
    BY <1>1, AppliedFacts
  <2>2. Pending = (1 .. Migrations) \ (1 .. n)
    BY <2>1 DEF Pending
  <2> QED
    BY <1>1, <2>2
<1>3. ASSUME Pending # {}
      PROVE  (CHOOSE m \in Pending : \A k \in Pending : m <= k) = n + 1
  <2>1. n + 1 \in Pending /\ \A k \in Pending : n + 1 <= k
    BY <1>1, <1>2, <1>3
  <2>2. \A m \in Pending : (\A k \in Pending : m <= k) => m = n + 1
    BY <1>1, <1>2, <2>1
  <2> QED
    BY <2>1, <2>2
<1> QED
  BY <1>1, <1>2, <1>3

---------------------------------------------------------------------------
(* The steps *)

\* A file of v1, or of v2 with some of the migrations, and no process.
LEMMA InitInductive == Init => Inductive
<1> SUFFICES ASSUME Init
             PROVE  Inductive
  OBVIOUS
<1> USE ServerAssumption DEF Init
<1>1. Counted = {} /\ asking = {}
  BY DEF Counted
<1>2. /\ IsFiniteSet(Counted) /\ Cardinality(Counted) = 0
      /\ IsFiniteSet(asking) /\ Cardinality(asking) = 0
  BY <1>1, FS_EmptySet
<1>3. IsV1 => old # None /\ file = V1File(old)
  BY DEF IsV1, V1File, V2File
<1>4. Types
  BY <1>1, <1>2, <1>3 DEF Types, TypeOK, Counted, Processes
<1>5. ~WasV1
  BY DEF WasV1, IsV1, V1File, V2File
<1>6. Schema
  <2>1. CASE \E v1 \in OldDatabases :
               /\ old = v1 /\ file = V1File(v1)
               /\ outcome = IF Fails(v1) THEN None ELSE Converted(v1)
    BY <1>5, <2>1 DEF Schema, V1File, IsV1, Running, Ending
  <2>2. CASE \E n \in 0 .. Migrations : old = None /\ file = V2File(n) /\ outcome = None
    BY <1>5, <2>2 DEF Schema, V2File, IsV1, Running, Ending, Applied
  <2> QED
    BY <2>1, <2>2
<1>7. Copying
  BY <1>5 DEF Copying, CopyFirst, WasV1
<1> QED
  BY <1>4, <1>6, <1>7 DEF Inductive
\* What keeps the tables, the migrations and the copies keeps their invariants,
\* if Run comes nowhere it may not be with them.
LEMMA StartUpAside ==
  ASSUME Inductive, UNCHANGED <<old, outcome, file, copies, copyAt>>,
         pc' \in {"copying", "copied"} => pc' = pc,
         pc' \in {"migrating", "wired"} \cup Running => ~IsV1,
         pc' \in {"wired"} \cup Running => file.migrations = Applied(Migrations)
  PROVE  Schema' /\ Copying'
<1>1. Schema'
  BY DEF Inductive, Schema, IsV1, WasV1, V1File
<1>2. Copying'
  BY DEF Inductive, Copying, CopyFirst, IsV1
<1> QED
  BY <1>1, <1>2

\* Starting up changes nothing that is served, and what it does to the file and
\* the copies it does in order.
LEMMA StartUpStep ==
  ASSUME Inductive, StartUp
  PROVE  Inductive'
<1> USE DEF Inductive
<1>1. ASSUME Open \/ NotV1 \/ CopyExists \/ RefuseToConvert \/ Migrated \/ Listen
      PROVE  Inductive'
  <2> USE <1>1 DEF Open, NotV1, CopyExists, RefuseToConvert, Migrated, Listen, served
  <2>1. Types'
    BY DEF Types, TypeOK, Counted, Processes, Starting, IsV1, V1File
  <2>2. pc' \in {"wired"} \cup Running => file.migrations = Applied(Migrations)
    BY NextMigration DEF Schema, Running, Ending
  <2>3. Schema' /\ Copying'
    BY <2>2, StartUpAside DEF Schema, Running, Ending
  <2> QED
    BY <2>1, <2>3
<1>2. ASSUME BeginCopy
      PROVE  Inductive'
  <2> USE <1>2 DEF BeginCopy, served
  <2>1. Types'
    BY DEF Types, TypeOK, Counted, Processes, Starting, IsV1, V1File
  <2>2. Schema'
    BY DEF Schema, IsV1, WasV1, V1File, Running, Ending
  <2>3. Copying'
    BY DEF Copying, CopyFirst, IsV1
  <2> QED
    BY <2>1, <2>2, <2>3
<1>3. ASSUME EndCopy
      PROVE  Inductive'
  <2> USE <1>3 DEF EndCopy, served
  <2>1. Types'
    BY DEF Types, TypeOK, Counted, Processes, Starting, IsV1, V1File
  <2>2. Schema'
    BY DEF Schema, IsV1, WasV1, V1File, Running, Ending
  <2>3. Copying'
    BY DEF Copying, CopyFirst, IsV1, Types, TypeOK, Schema
  <2> QED
    BY <2>1, <2>2, <2>3
<1>4. ASSUME Convert
      PROVE  Inductive'
  <2> USE <1>4 DEF Convert, served
  <2>1. /\ file' = [v1 |-> None, migrations |-> Applied(Migrations), tables |-> outcome]
    BY DEF V2File, Applied
  <2>2. IsV1 /\ old # None /\ ~Fails(old) /\ outcome = Converted(old)
    BY DEF Schema, Types, TypeOK, IsV1, V1File
  <2>3. ~IsV1'
    BY <2>1 DEF IsV1
  <2>4. Types'
    BY <2>3 DEF Types, TypeOK, Counted, Processes, Starting
  <2>5. Schema'
    BY <2>1, <2>2, <2>3, ServerAssumption DEF Schema, WasV1, Running, Ending
  <2>6. Copying'
    BY DEF Copying, CopyFirst, Types, TypeOK
  <2> QED
    BY <2>4, <2>5, <2>6
<1>5. ASSUME ApplyMigration
      PROVE  Inductive'
  <2> USE <1>5 DEF ApplyMigration, served
  <2>1. ~IsV1
    BY DEF Schema
  <2>2. PICK n \in 0 .. Migrations : file.migrations = Applied(n)
    BY <2>1 DEF Schema
  <2>3. file' = [file EXCEPT !.migrations = Append(@, n + 1)] /\ n + 1 \in 1 .. Migrations
    <3> DEFINE next == CHOOSE m \in Pending : \A k \in Pending : m <= k
    <3>1. Pending = n + 1 .. Migrations /\ next = n + 1
      BY <2>2, NextMigration
    <3>2. file' = [file EXCEPT !.migrations = Append(@, next)]
      OBVIOUS
    <3>3. n + 1 \in 1 .. Migrations
      BY <3>1, ServerAssumption
    <3> HIDE DEF next
    <3> QED
      BY <3>1, <3>2, <3>3
  <2>4. Append(Applied(n), n + 1) = Applied(n + 1)
    BY AppliedFacts
  <2>5. /\ file'.v1 = file.v1 /\ file'.tables = file.tables
        /\ file'.migrations = Applied(n + 1) /\ DOMAIN file' = DOMAIN file
    BY <2>2, <2>3, <2>4 DEF Schema
  <2>6. Types'
    BY <2>1, <2>5 DEF Types, TypeOK, Counted, IsV1
  <2>7. Schema'
    BY <2>1, <2>3, <2>5, ServerAssumption DEF Schema, IsV1, WasV1, Running, Ending
  <2>8. Copying'
    BY <2>5 DEF Copying, CopyFirst, IsV1
  <2> QED
    BY <2>6, <2>7, <2>8
<1> QED
  BY <1>1, <1>2, <1>3, <1>4, <1>5 DEF StartUp
\* A failure may take the part of a copy away, and never a whole one.
LEMMA FailStep ==
  ASSUME Inductive, Fail
  PROVE  Inductive'
<1> USE DEF Inductive, Fail, served
<1>1. Types'
  BY ServerAssumption DEF Types, TypeOK, Counted, Processes, IsV1, V1File
<1>2. Schema'
  BY DEF Schema, IsV1, WasV1, V1File, Running, Ending
<1>3. Copying'
  <2>1. CASE pc = "copying"
    BY <2>1 DEF Schema, Copying, CopyFirst, IsV1
  <2>2. CASE pc # "copying"
    BY <2>2 DEF Copying, CopyFirst, IsV1
  <2> QED
    BY <2>1, <2>2
<1> QED
  BY <1>1, <1>2, <1>3

\* With nothing served there is nothing to count.
LEMMA ForgetCounts ==
  ASSUME Forget
  PROVE  /\ conn' \in [Conns -> {"none", "request", "hijacked", "counted"}]
         /\ asking' \subseteq Conns
         /\ IsFiniteSet(Counted') /\ IsFiniteSet(asking')
         /\ sockets' = Cardinality(Counted') + Cardinality(asking')
<1>1. Counted' = {} /\ asking' = {} /\ sockets' = 0
  BY DEF Counted, Forget
<1>2. /\ IsFiniteSet(Counted') /\ IsFiniteSet(asking')
      /\ Cardinality(Counted') = 0 /\ Cardinality(asking') = 0
  BY <1>1, FS_EmptySet
<1> QED
  BY <1>1, <1>2 DEF Forget

\* A process that exits or is killed leaves the file and the copies as they are.
LEMMA GoneStep ==
  ASSUME Inductive, Exit \/ Crash
  PROVE  Inductive'
<1> USE DEF Inductive, Exit, Crash
<1>1. Types'
  BY ForgetCounts, ServerAssumption DEF Types, TypeOK, Counted, Processes, IsV1, V1File
<1>2. Schema' /\ Copying'
  BY StartUpAside DEF Running, Ending, Copying, CopyFirst, IsV1, Schema, WasV1
<1> QED
  BY <1>1, <1>2

\* Time passing touches nothing.
LEMMA TickStep ==
  ASSUME Inductive, Tick
  PROVE  Inductive'
<1> USE DEF Inductive, Tick, served
<1>1. Types'
  BY ServerAssumption DEF Types, TypeOK, Counted, IsV1, V1File
<1>2. Schema' /\ Copying'
  BY StartUpAside DEF Schema
<1> QED
  BY <1>1, <1>2

\* Shutting down goes on with the file it serves.
LEMMA EndingStep ==
  ASSUME Inductive, Signal \/ CloseChannel \/ Deadline \/ ShutdownReturns \/ CloseDatabase
  PROVE  Inductive'
<1> USE DEF Inductive, Signal, CloseChannel, Deadline, ShutdownReturns, CloseDatabase, served
<1>1. Types'
  BY DEF Types, TypeOK, Counted, Processes, Ending, IsV1, V1File
<1>2. pc \in Running /\ pc' \in Running
  BY DEF Running, Ending
<1>3. Schema' /\ Copying'
  BY <1>2, StartUpAside DEF Schema, Running, Ending
<1> QED
  BY <1>1, <1>3

\* The wait group goes up by one with each handler and each AI request, and
\* down by one when it ends.
LEMMA CountStep ==
  ASSUME Types, NEW c \in Conns,
         \/ Request(c) \/ Respond(c) \/ Hijack(c) \/ Count(c)
         \/ Ask(c) \/ Answer(c) \/ Leave(c)
  PROVE  /\ conn' \in [Conns -> {"none", "request", "hijacked", "counted"}]
         /\ asking' \subseteq Conns
         /\ IsFiniteSet(Counted') /\ IsFiniteSet(asking')
         /\ sockets' = Cardinality(Counted') + Cardinality(asking')
<1> DEFINE A == asking
           W == Counted
<1>1. /\ IsFiniteSet(W) /\ IsFiniteSet(A) /\ A \subseteq Conns
      /\ sockets = Cardinality(W) + Cardinality(A)
      /\ conn \in [Conns -> {"none", "request", "hijacked", "counted"}]
  BY DEF Types, TypeOK, Counted
<1>2. Cardinality(W) \in Nat /\ Cardinality(A) \in Nat
  BY <1>1, FS_CardinalityType
<1>3. CASE Request(c) \/ Respond(c) \/ Hijack(c)
  <2>1. Counted' = W
    BY <1>1, <1>3 DEF Counted, Request, Respond, Hijack
  <2> QED
    BY <1>1, <1>3, <2>1 DEF Request, Respond, Hijack
<1>4. CASE Count(c)
  <2>1. Counted' = W \cup {c} /\ c \notin W
    BY <1>1, <1>4 DEF Counted, Count
  <2>2. IsFiniteSet(W \cup {c}) /\ Cardinality(W \cup {c}) = Cardinality(W) + 1
    BY <1>1, <2>1, FS_AddElement
  <2> HIDE DEF W
  <2> QED
    BY <1>1, <1>2, <1>4, <2>1, <2>2 DEF Count
<1>5. CASE Leave(c)
  <2>1. Counted' = W \ {c} /\ c \in W
    BY <1>1, <1>5 DEF Counted, Leave
  <2>2. IsFiniteSet(W \ {c}) /\ Cardinality(W \ {c}) = Cardinality(W) - 1
    BY <1>1, <2>1, FS_RemoveElement
  <2> HIDE DEF W
  <2> QED
    BY <1>1, <1>2, <1>5, <2>1, <2>2 DEF Leave
<1>6. CASE Ask(c)
  <2>1. Counted' = W /\ asking' = A \cup {c} /\ c \notin A
    BY <1>6 DEF Counted, Ask
  <2>2. IsFiniteSet(A \cup {c}) /\ Cardinality(A \cup {c}) = Cardinality(A) + 1
    BY <1>1, <2>1, FS_AddElement
  <2> HIDE DEF W
  <2> QED
    BY <1>1, <1>2, <1>6, <2>1, <2>2 DEF Ask
<1>7. CASE Answer(c)
  <2>1. Counted' = W /\ asking' = A \ {c} /\ c \in A
    BY <1>7 DEF Counted, Answer
  <2>2. IsFiniteSet(A \ {c}) /\ Cardinality(A \ {c}) = Cardinality(A) - 1
    BY <1>1, <2>1, FS_RemoveElement
  <2> HIDE DEF W
  <2> QED
    BY <1>1, <1>2, <1>7, <2>1, <2>2 DEF Answer
<1> QED
  BY <1>3, <1>4, <1>5, <1>6, <1>7

\* Serving touches what is served alone.
LEMMA ServeStep ==
  ASSUME Inductive, NEW c \in Conns, Serve(c)
  PROVE  Inductive'
<1> USE DEF Inductive
<1>1. UNCHANGED <<old, outcome, file, copies, now, faults, pc, copyAt>>
  BY DEF Serve, Request, Respond, Hijack, Count, Ask, Answer, Leave
<1>2. Types'
  BY <1>1, CountStep DEF Serve, Types, TypeOK, Counted, IsV1, V1File
<1>3. Schema' /\ Copying'
  BY <1>1, StartUpAside DEF Schema
<1> QED
  BY <1>2, <1>3

\* Every step keeps the inductive invariant.
LEMMA NextInductive == Inductive /\ [Next]_vars => Inductive'
<1> SUFFICES ASSUME Inductive, [Next]_vars
             PROVE  Inductive'
  OBVIOUS
<1>1. CASE StartUp
  BY <1>1, StartUpStep
<1>2. CASE Fail
  BY <1>2, FailStep
<1>3. ASSUME NEW c \in Conns, Serve(c)
      PROVE  Inductive'
  BY <1>3, ServeStep
<1>4. CASE Signal \/ ShutDown
  BY <1>4, EndingStep, GoneStep DEF ShutDown
<1>5. CASE Crash
  BY <1>5, GoneStep
<1>6. CASE Tick
  BY <1>6, TickStep
<1>7. CASE UNCHANGED vars
  <2>1. Types'
    BY <1>7 DEF vars, served, Inductive, Types, TypeOK, Counted, IsV1, V1File
  <2>2. Schema' /\ Copying'
    BY <1>7, StartUpAside DEF vars, Inductive, Schema
  <2> QED
    BY <2>1, <2>2 DEF Inductive
<1> QED
  BY <1>1, <1>2, <1>3, <1>4, <1>5, <1>6, <1>7 DEF Next

\* So it holds throughout; it takes no fairness.
LEMMA Invariance == Spec => []Inductive
BY InitInductive, NextInductive, PTL DEF Spec

---------------------------------------------------------------------------
(* The loop of importNotes *)

\* How far it may be.
Placings ==
  [failed : BOOLEAN, left : Nat, moved : Nat,
   home   : [Retros \X Groups -> GroupIds \cup {None}],
   group  : [GroupIds -> GroupRow \cup {None}],
   note   : [Notes -> NoteRow \cup {None}]]

\* The first i notes that are of a retro that is there.
NotesKept(v1, i) == {j \in 1 .. i : v1.retro[v1.notes[j].retro] # None}

\* What tells v1's groups apart.
KeyOf(n) == <<n.retro, n.group>>

AuthorOf(v1, n) == IF n.user \in v1.users THEN n.user ELSE Someone

NoteRows(d) == {n \in Notes : d.note[n] # None}

\* After i notes each of them that has a retro has a row, in the group that its
\* v1 group has become, and no other note has; no two v1 groups have become one,
\* and each is in the column of one of its notes.
InOrder(v1, i, d) ==
  /\ \A j \in NotesKept(v1, i) :
       LET n == v1.notes[j]
       IN /\ d.home[KeyOf(n)] # None
          /\ d.note[n.id] = [retro |-> n.retro, group |-> d.home[KeyOf(n)],
                             author |-> AuthorOf(v1, n), text |-> Text]
  /\ \A id \in Notes : d.note[id] # None => \E j \in NotesKept(v1, i) : v1.notes[j].id = id
  /\ \A k \in Retros \X Groups : d.home[k] # None =>
       /\ \E j \in NotesKept(v1, i) : KeyOf(v1.notes[j]) = k
       /\ d.group[d.home[k]] # None /\ d.group[d.home[k]].retro = k[1]
       /\ \A l \in Retros \X Groups : d.home[l] = d.home[k] => l = k
  /\ \A g \in GroupIds : d.group[g] # None =>
       /\ \E k \in Retros \X Groups : d.home[k] = g
       /\ \E j \in NotesKept(v1, i) :
            /\ d.group[g].retro = v1.notes[j].retro
            /\ d.group[g].column = ColumnFor(v1, v1.notes[j])
  /\ IsFiniteSet(NoteRows(d))
  /\ Cardinality(NoteRows(d)) + d.left = i

\* A v1 note is placed in a column that is there, or in none.
LEMMA ColumnForType ==
  ASSUME NEW v1, IsOldDatabase(v1), NEW n \in V1Note, v1.retro[n.retro] # None
  PROVE  ColumnFor(v1, n) \in Columns \cup {None}
<1>1. v1.retro[n.retro] \in V1Retro /\ n.column \in Columns
  BY DEF IsOldDatabase, V1Note
<1>2. v1.retro[n.retro].columns \in Seq(Columns)
  BY <1>1 DEF V1Retro
<1>3. v1.retro[n.retro].columns # <<>> => Head(v1.retro[n.retro].columns) \in Columns
  BY <1>2
<1> QED
  BY <1>1, <1>3 DEF ColumnFor

\* Placing a note: what is assigned, by the groups there were.
LEMMA PlaceFacts ==
  ASSUME NEW v1, IsOldDatabase(v1), NEW d \in Placings, NEW n \in V1Note,
         v1.retro[n.retro] # None, ~ Place(v1, d, n).failed, ~ d.failed
  PROVE  LET e == Place(v1, d, n)
             g == e.home[KeyOf(n)]
         IN /\ e \in Placings
            /\ e.home = [d.home EXCEPT ![KeyOf(n)] = g]
            /\ e.note = [d.note EXCEPT ![n.id] = [retro |-> n.retro, group |-> g,
                                                  author |-> AuthorOf(v1, n), text |-> Text]]
            /\ e.left = d.left
            /\ g \in GroupIds
            /\ d.home[KeyOf(n)] # None => g = d.home[KeyOf(n)] /\ e.group = d.group
            /\ d.home[KeyOf(n)] = None =>
                 /\ d.group[g] = None
                 /\ ColumnFor(v1, n) # None
                 /\ e.group = [d.group EXCEPT ![g] = [retro |-> n.retro, column |-> ColumnFor(v1, n),
                                                      title |-> Untitled]]
<1> DEFINE fresh == Home(d, n) = None
           g == IF fresh THEN NewGroupId(d, n) ELSE Home(d, n)
           e == Place(v1, d, n)
<1>1. /\ n.retro \in Retros /\ n.group \in Groups /\ n.id \in Notes /\ n.user \in Users
      /\ KeyOf(n) \in Retros \X Groups /\ KeyOf(n) = <<n.retro, n.group>>
  BY DEF V1Note, KeyOf
<1>2. g \in GroupIds
  BY <1>1 DEF Home, NewGroupId, GroupIds, Placings, KeyOf
<1>3. ~ (n.id \in v1.unreadable \/ (fresh /\ (ColumnFor(v1, n) = None \/ d.group[g] # None)))
  BY DEF Place, Placings
<1>4. e = [d EXCEPT
             !.home[KeyOf(n)] = g,
             !.group[g] =
               IF fresh THEN [retro |-> n.retro, column |-> ColumnFor(v1, n), title |-> Untitled]
               ELSE @,
             !.note[n.id] = [retro |-> n.retro, group |-> g, author |-> AuthorOf(v1, n), text |-> Text],
             !.moved = IF ColumnTable(v1)[n.column] = None THEN @ + 1 ELSE @]
  BY <1>3, <1>1 DEF Place, AuthorOf, KeyOf
<1> HIDE DEF g, e
<1>5. ColumnFor(v1, n) \in Columns \cup {None}
  BY ColumnForType
<1>6. e.home = [d.home EXCEPT ![KeyOf(n)] = g]
  BY <1>4 DEF Placings
<1>7. e.home[KeyOf(n)] = g
  BY <1>1, <1>6 DEF Placings
<1>8. /\ e.note = [d.note EXCEPT ![n.id] = [retro |-> n.retro, group |-> g,
                                            author |-> AuthorOf(v1, n), text |-> Text]]
  BY <1>4 DEF Placings
<1>81. /\ e.left = d.left /\ e.failed = d.failed
       /\ e.group = [d.group EXCEPT ![g] =
             IF fresh THEN [retro |-> n.retro, column |-> ColumnFor(v1, n), title |-> Untitled]
             ELSE d.group[g]]
  BY <1>4 DEF Placings
<1>82. e.moved \in Nat
  BY <1>4 DEF Placings
<1>83. e = [failed |-> e.failed, left |-> e.left, moved |-> e.moved, home |-> e.home,
              group |-> e.group, note |-> e.note]
  BY <1>4, Zenon DEF Placings
<1>9. AuthorOf(v1, n) \in Users \cup {Someone}
  BY <1>1 DEF AuthorOf
<1>10. e \in Placings
  <2>1. e.home \in [Retros \X Groups -> GroupIds \cup {None}]
    BY <1>2, <1>6 DEF Placings
  <2>2. e.note \in [Notes -> NoteRow \cup {None}]
    BY <1>1, <1>2, <1>8, <1>81, <1>82, <1>83, <1>9 DEF Placings, NoteRow
  <2>3. e.group \in [GroupIds -> GroupRow \cup {None}]
    <3>1. fresh => [retro |-> n.retro, column |-> ColumnFor(v1, n), title |-> Untitled] \in GroupRow
      BY <1>1, <1>3, <1>5 DEF GroupRow
    <3>2. d.group \in [GroupIds -> GroupRow \cup {None}]
      BY DEF Placings
    <3> HIDE DEF fresh
    <3> QED
      BY <1>2, <1>81, <3>1, <3>2
  <2>4. e.failed \in BOOLEAN /\ e.left \in Nat
    BY <1>81 DEF Placings
  <2> QED
    BY <1>8, <1>81, <1>82, <1>83, <2>1, <2>2, <2>3, <2>4 DEF Placings
<1>11. ~ fresh => e.group = d.group
  BY <1>81 DEF Placings
<1>12. fresh <=> d.home[KeyOf(n)] = None
  BY DEF Home, KeyOf
<1>13. ~ fresh => g = d.home[KeyOf(n)]
  BY DEF g, Home, KeyOf
<1> HIDE DEF fresh
<1> QED
  BY <1>2, <1>3, <1>6, <1>7, <1>8, <1>81, <1>82, <1>83, <1>10, <1>11, <1>12, <1>13 DEF e

\* A step of the loop gets it as far as it may be.
LEMMA PlaceNextType ==
  ASSUME NEW v1, IsOldDatabase(v1), NEW d \in Placings, NEW n \in V1Note
  PROVE  PlaceNext(v1, d, n) \in Placings
<1>1. CASE d.failed
  BY <1>1 DEF PlaceNext
<1>2. CASE ~ d.failed /\ v1.retro[n.retro] = None
  BY <1>2 DEF PlaceNext, Placings
<1>3. CASE ~ d.failed /\ v1.retro[n.retro] # None
  <2>1. PlaceNext(v1, d, n) = Place(v1, d, n)
    BY <1>3 DEF PlaceNext
  <2>2. CASE ~ Place(v1, d, n).failed
    <3>1. Place(v1, d, n) \in Placings
      BY <1>3, <2>2, PlaceFacts
    <3> QED
      BY <2>1, <3>1
  <2>3. CASE Place(v1, d, n).failed
    <3>1. Place(v1, d, n) = [d EXCEPT !.failed = TRUE]
      BY <1>3, <2>3 DEF Place, Placings
    <3> QED
      BY <2>1, <3>1 DEF Placings
  <2> QED
    BY <2>2, <2>3
<1> QED
  BY <1>1, <1>2, <1>3

\* The loop is what its steps are one after the other.
LEMMA PlacingLoop ==
  ASSUME NEW v1, IsOldDatabase(v1)
  PROVE  /\ Placing(v1) \in [0 .. Len(v1.notes) -> Placings]
         /\ Placing(v1)[0] = NothingPlaced
         /\ \A i \in 1 .. Len(v1.notes) :
              Placing(v1)[i] = PlaceNext(v1, Placing(v1)[i - 1], v1.notes[i])
<1> DEFINE N == Len(v1.notes)
           step == [i \in 1 .. N |-> [d \in Placings |-> PlaceNext(v1, d, v1.notes[i])]]
           Eq(f) == f = [i \in 0 .. N |-> IF i = 0 THEN NothingPlaced
                                          ELSE PlaceNext(v1, f[i - 1], v1.notes[i])]
<1>1. N \in Nat /\ \A i \in 1 .. N : v1.notes[i] \in V1Note
  BY DEF IsOldDatabase
<1>2. NothingPlaced \in Placings
  BY DEF NothingPlaced, Placings
<1>3. step \in Bodies(N, Placings)
  BY <1>1, PlaceNextType DEF Bodies
<1>4. PICK f \in [0 .. N -> Placings] :
        f[0] = NothingPlaced /\ \A i \in 1 .. N : f[i] = step[i][f[i - 1]]
  <2> HIDE DEF step, N
  <2>1. Courses(N, Placings, NothingPlaced, step) # {}
    BY <1>1, <1>2, <1>3, LoopExists
  <2> QED
    BY <2>1 DEF Courses
<1>5. \A i \in 0 .. N : i # 0 => i \in 1 .. N /\ i - 1 \in 0 .. N
  BY <1>1
<1>6. \A i \in 0 .. N : i # 0 => f[i] = PlaceNext(v1, f[i - 1], v1.notes[i])
  BY <1>4, <1>5
<1>7. Eq(f)
  BY <1>4, <1>6
<1>8. Placing(v1) = CHOOSE h : Eq(h)
  BY DEF Placing
<1>9. Eq(Placing(v1))
  <2> HIDE DEF Eq
  <2> QED
    BY <1>7, <1>8
<1> DEFINE P == Placing(v1)
<1>10. P = [i \in 0 .. N |-> IF i = 0 THEN NothingPlaced ELSE PlaceNext(v1, P[i - 1], v1.notes[i])]
  BY <1>9
<1> HIDE DEF P
<1>11. P[0] = NothingPlaced /\ \A i \in 1 .. N : P[i] = PlaceNext(v1, P[i - 1], v1.notes[i])
  <2>1. \A i \in 0 .. N : P[i] = IF i = 0 THEN NothingPlaced ELSE PlaceNext(v1, P[i - 1], v1.notes[i])
    BY <1>10, Zenon
  <2>2. 0 \in 0 .. N /\ \A i \in 1 .. N : i \in 0 .. N /\ i # 0
    BY <1>1
  <2> HIDE DEF N
  <2> QED
    BY <2>1, <2>2
<1>12. \A i \in 0 .. N : P[i] \in Placings
  <2> DEFINE T == {i \in 0 .. N : P[i] \in Placings}
  <2>1. 0 \in T
    BY <1>1, <1>2, <1>11
  <2>2. \A i \in 0 .. N - 1 : i \in T => i + 1 \in T
    <3> TAKE i \in 0 .. N - 1
    <3> HAVE i \in T
    <3>1. i + 1 \in 1 .. N /\ i + 1 - 1 = i
      BY <1>1
    <3>2. P[i + 1] = PlaceNext(v1, P[i], v1.notes[i + 1])
      BY <1>11, <3>1
    <3> QED
      BY <1>1, <3>1, <3>2, PlaceNextType
  <2> HIDE DEF T
  <2>3. \A i \in 0 .. N : i \in T
    BY <1>1, <2>1, <2>2, CountingUp
  <2> QED
    BY <2>3 DEF T
<1> QED
  BY <1>10, <1>11, <1>12 DEF P

\* A note of a retro that has gone is passed over.
LEMMA PassedInOrder ==
  ASSUME NEW v1, IsOldDatabase(v1), NEW i \in 1 .. Len(v1.notes), NEW d \in Placings,
         InOrder(v1, i - 1, d), v1.retro[v1.notes[i].retro] = None
  PROVE  InOrder(v1, i, [d EXCEPT !.left = @ + 1])
<1> DEFINE e == [d EXCEPT !.left = @ + 1]
<1>1. Len(v1.notes) \in Nat
  BY DEF IsOldDatabase
<1>2. NotesKept(v1, i) = NotesKept(v1, i - 1)
  BY <1>1 DEF NotesKept
<1>3. e.home = d.home /\ e.group = d.group /\ e.note = d.note /\ e.left = d.left + 1 /\ d.left \in Nat
  BY DEF Placings
<1>4. NoteRows(e) = NoteRows(d)
  BY <1>3 DEF NoteRows
<1>5. IsFiniteSet(NoteRows(d)) /\ Cardinality(NoteRows(d)) + d.left = i - 1
  BY DEF InOrder
<1>6. Cardinality(NoteRows(d)) \in Nat
  BY <1>5, FS_CardinalityType
<1>7. Cardinality(NoteRows(e)) + e.left = i
  BY <1>1, <1>3, <1>4, <1>5, <1>6
<1> HIDE DEF e
<1> QED
  BY <1>2, <1>3, <1>4, <1>5, <1>7 DEF InOrder, e

\* A note that is placed goes with those of its v1 group and with no others.
LEMMA PlacedInOrder ==
  ASSUME NEW v1, IsOldDatabase(v1), NEW i \in 1 .. Len(v1.notes), NEW d \in Placings,
         InOrder(v1, i - 1, d), v1.retro[v1.notes[i].retro] # None,
         ~ d.failed, ~ Place(v1, d, v1.notes[i]).failed
  PROVE  InOrder(v1, i, Place(v1, d, v1.notes[i]))
<1> DEFINE n == v1.notes[i]
           K == KeyOf(n)
           e == Place(v1, d, n)
           g == e.home[K]
           row == [retro |-> n.retro, group |-> g, author |-> AuthorOf(v1, n), text |-> Text]
           Old == NotesKept(v1, i - 1)
           Ids(j) == v1.notes[j].id
<1>1. /\ Len(v1.notes) \in Nat /\ \A j \in 1 .. Len(v1.notes) : v1.notes[j] \in V1Note
      /\ \A j, k \in 1 .. Len(v1.notes) : Ids(j) = Ids(k) => j = k
  BY DEF IsOldDatabase
<1>2. /\ NotesKept(v1, i) = Old \cup {i}
      /\ \A j \in Old : j \in 1 .. Len(v1.notes) /\ j # i
      /\ \A j \in Old : KeyOf(v1.notes[j]) \in Retros \X Groups /\ Ids(j) \in Notes
  BY <1>1 DEF NotesKept, KeyOf, V1Note
<1>3. n \in V1Note /\ n.id \in Notes /\ K \in Retros \X Groups /\ K[1] = n.retro
  BY <1>1 DEF V1Note, KeyOf
<1>4. /\ e \in Placings
      /\ e.home = [d.home EXCEPT ![K] = g]
      /\ e.note = [d.note EXCEPT ![n.id] = row]
      /\ e.left = d.left
      /\ g \in GroupIds
      /\ d.home[K] # None => g = d.home[K] /\ e.group = d.group
      /\ d.home[K] = None =>
           /\ d.group[g] = None
           /\ ColumnFor(v1, n) # None
           /\ e.group = [d.group EXCEPT ![g] = [retro |-> n.retro, column |-> ColumnFor(v1, n),
                                                title |-> Untitled]]
  BY <1>3, PlaceFacts
<1>5. /\ d.home \in [Retros \X Groups -> GroupIds \cup {None}] /\ d.left \in Nat
      /\ d.group \in [GroupIds -> GroupRow \cup {None}] /\ d.note \in [Notes -> NoteRow \cup {None}]
      /\ e.group \in [GroupIds -> GroupRow \cup {None}] /\ e.note \in [Notes -> NoteRow \cup {None}]
  BY <1>4 DEF Placings
<1>6. None \notin GroupIds /\ None \notin GroupRow /\ None \notin NoteRow
  BY ImportAssumption
<1>7. row # None
  <2>1. row = e.note[n.id] /\ row.group = g
    BY <1>3, <1>4, <1>5
  <2>2. row \in NoteRow
    <3>1. AuthorOf(v1, n) \in Users \cup {Someone} /\ n.retro \in Retros
      BY <1>3 DEF AuthorOf, V1Note
    <3> QED
      BY <1>4, <3>1 DEF NoteRow
  <2> QED
    BY <1>6, <2>2
<1>8. d.home[K] = None => /\ e.group[g] # None /\ e.group[g].retro = n.retro
                          /\ e.group[g].column = ColumnFor(v1, n)
  <2> SUFFICES ASSUME d.home[K] = None
               PROVE  /\ e.group[g] # None /\ e.group[g].retro = n.retro
                      /\ e.group[g].column = ColumnFor(v1, n)
    OBVIOUS
  <2>1. e.group[g] = [retro |-> n.retro, column |-> ColumnFor(v1, n), title |-> Untitled]
    BY <1>4, <1>5
  <2>2. [retro |-> n.retro, column |-> ColumnFor(v1, n), title |-> Untitled] \in GroupRow
    BY <1>3, <1>4, ColumnForType DEF GroupRow, V1Note
  <2> QED
    BY <1>6, <2>1, <2>2
<1> HIDE DEF n, K, e, g, row, Ids, Old
<1>9. /\ \A j \in Old : d.home[KeyOf(v1.notes[j])] # None
      /\ \A j \in Old : d.note[Ids(j)] = [retro |-> v1.notes[j].retro, group |-> d.home[KeyOf(v1.notes[j])],
                                          author |-> AuthorOf(v1, v1.notes[j]), text |-> Text]
      /\ \A id \in Notes : d.note[id] # None => \E j \in Old : Ids(j) = id
      /\ \A k \in Retros \X Groups : d.home[k] # None =>
           /\ \E j \in Old : KeyOf(v1.notes[j]) = k
           /\ d.group[d.home[k]] # None /\ d.group[d.home[k]].retro = k[1]
           /\ \A l \in Retros \X Groups : d.home[l] = d.home[k] => l = k
      /\ \A h \in GroupIds : d.group[h] # None =>
           /\ \E k \in Retros \X Groups : d.home[k] = h
           /\ \E j \in Old : /\ d.group[h].retro = v1.notes[j].retro
                             /\ d.group[h].column = ColumnFor(v1, v1.notes[j])
      /\ IsFiniteSet(NoteRows(d)) /\ Cardinality(NoteRows(d)) + d.left = i - 1
  BY DEF InOrder, Ids, Old
\* What was there stays, and the new group has the note's v1 group alone.
<1>10. /\ e.home[K] = g /\ g # None
       /\ \A k \in Retros \X Groups : d.home[k] # None => e.home[k] = d.home[k]
       /\ \A k \in Retros \X Groups : k # K => e.home[k] = d.home[k]
  BY <1>3, <1>4, <1>5, <1>6
<1>11. \A h \in GroupIds : d.group[h] # None => e.group[h] = d.group[h]
  BY <1>4, <1>5
<1>12. \A h \in GroupIds : e.group[h] # None => d.group[h] # None \/ (d.home[K] = None /\ h = g)
  BY <1>4, <1>5
<1>13. \A k \in Retros \X Groups : d.home[k] = g => k = K
  BY <1>3, <1>4, <1>6, <1>9
<1>14. \A j \in Old : e.home[KeyOf(v1.notes[j])] = d.home[KeyOf(v1.notes[j])]
  BY <1>2, <1>9, <1>10
<1>15. \A j \in Old : Ids(j) # n.id /\ e.note[Ids(j)] = d.note[Ids(j)]
  <2>1. \A j \in Old : Ids(j) # n.id
    BY <1>1, <1>2 DEF Ids, n
  <2> QED
    BY <1>2, <1>4, <1>5, <2>1
<1>16. e.note[n.id] = row /\ \A id \in Notes : id # n.id => e.note[id] = d.note[id]
  BY <1>3, <1>4, <1>5
<1>17. \A j \in NotesKept(v1, i) :
         LET m == v1.notes[j]
         IN /\ e.home[KeyOf(m)] # None
            /\ e.note[m.id] = [retro |-> m.retro, group |-> e.home[KeyOf(m)],
                               author |-> AuthorOf(v1, m), text |-> Text]
  <2> TAKE j \in NotesKept(v1, i)
  <2>1. CASE j = i
    BY <2>1, <1>10, <1>16 DEF row, n, K, g
  <2>2. CASE j \in Old
    BY <2>2, <1>9, <1>14, <1>15 DEF Ids
  <2> QED
    BY <1>2, <2>1, <2>2
<1>18. \A id \in Notes : e.note[id] # None => \E j \in NotesKept(v1, i) : v1.notes[j].id = id
  BY <1>2, <1>9, <1>16 DEF Ids, n
<1>19. \A k \in Retros \X Groups : e.home[k] # None =>
         /\ \E j \in NotesKept(v1, i) : KeyOf(v1.notes[j]) = k
         /\ e.group[e.home[k]] # None /\ e.group[e.home[k]].retro = k[1]
         /\ \A l \in Retros \X Groups : e.home[l] = e.home[k] => l = k
  <2> TAKE k \in Retros \X Groups
  <2> HAVE e.home[k] # None
  <2>1. \E j \in NotesKept(v1, i) : KeyOf(v1.notes[j]) = k
    BY <1>2, <1>9, <1>10 DEF K, n
  <2>2. e.group[e.home[k]] # None /\ e.group[e.home[k]].retro = k[1]
    <3>1. CASE d.home[k] # None
      <4>1. e.home[k] = d.home[k] /\ d.home[k] \in GroupIds
        BY <3>1, <1>5, <1>10
      <4> QED
        BY <3>1, <4>1, <1>9, <1>11
    <3>2. CASE d.home[k] = None
      <4>1. k = K
        BY <3>2, <1>10
      <4> QED
        BY <3>2, <4>1, <1>3, <1>8, <1>10
    <3> QED
      BY <3>1, <3>2
  <2>3. ASSUME NEW l \in Retros \X Groups, e.home[l] = e.home[k]
        PROVE  l = k
    <3>1. CASE k = K /\ l # K
      BY <2>3, <3>1, <1>10, <1>13
    <3>2. CASE k # K /\ l = K
      BY <2>3, <3>2, <1>10, <1>13
    <3>3. CASE k # K /\ l # K
      BY <2>3, <3>3, <1>9, <1>10
    <3> QED
      BY <3>1, <3>2, <3>3
  <2> QED
    BY <2>1, <2>2, <2>3
<1>20. \A h \in GroupIds : e.group[h] # None =>
         /\ \E k \in Retros \X Groups : e.home[k] = h
         /\ \E j \in NotesKept(v1, i) :
              /\ e.group[h].retro = v1.notes[j].retro
              /\ e.group[h].column = ColumnFor(v1, v1.notes[j])
  <2> TAKE h \in GroupIds
  <2> HAVE e.group[h] # None
  <2>1. CASE d.group[h] # None
    <3>1. e.group[h] = d.group[h]
      BY <2>1, <1>11
    <3>2. \E k \in Retros \X Groups : e.home[k] = h
      BY <2>1, <1>6, <1>9, <1>10
    <3> QED
      BY <2>1, <3>1, <3>2, <1>2, <1>9
  <2>2. CASE d.home[K] = None /\ h = g
    <3>1. i \in NotesKept(v1, i)
      BY <1>2
    <3> QED
      BY <2>2, <3>1, <1>3, <1>8, <1>10 DEF n
  <2> QED
    BY <2>1, <2>2, <1>12
<1>21. NoteRows(e) = NoteRows(d) \cup {n.id} /\ n.id \notin NoteRows(d)
  BY <1>3, <1>7, <1>9, <1>15, <1>16 DEF NoteRows
<1>22. IsFiniteSet(NoteRows(e)) /\ Cardinality(NoteRows(e)) + e.left = i
  <2>1. IsFiniteSet(NoteRows(e)) /\ Cardinality(NoteRows(e)) = Cardinality(NoteRows(d)) + 1
    BY <1>9, <1>21, FS_AddElement
  <2>2. Cardinality(NoteRows(d)) \in Nat
    BY <1>9, FS_CardinalityType
  <2> QED
    BY <1>1, <1>4, <1>5, <1>9, <2>1, <2>2
<1> QED
  BY <1>17, <1>18, <1>19, <1>20, <1>22 DEF InOrder, e, n

\* The loop keeps everything in order, until it fails or ends.
LEMMA LoopInOrder ==
  ASSUME NEW v1, IsOldDatabase(v1)
  PROVE  /\ Placed(v1) \in Placings
         /\ ~ Placed(v1).failed => InOrder(v1, Len(v1.notes), Placed(v1))
<1> DEFINE N == Len(v1.notes)
           P == Placing(v1)
           T == {i \in 0 .. N : ~ P[i].failed => InOrder(v1, i, P[i])}
<1>1. N \in Nat /\ \A i \in 1 .. N : v1.notes[i] \in V1Note
  BY DEF IsOldDatabase
<1>2. /\ P \in [0 .. N -> Placings] /\ P[0] = NothingPlaced
      /\ \A i \in 1 .. N : P[i] = PlaceNext(v1, P[i - 1], v1.notes[i])
  BY PlacingLoop
<1>3. 0 \in T
  <2>1. NotesKept(v1, 0) = {}
    BY DEF NotesKept
  <2>2. NoteRows(NothingPlaced) = {}
    BY DEF NoteRows, NothingPlaced
  <2>3. IsFiniteSet(NoteRows(NothingPlaced)) /\ Cardinality(NoteRows(NothingPlaced)) = 0
    BY <2>2, FS_EmptySet
  <2>4. InOrder(v1, 0, NothingPlaced)
    BY <2>1, <2>3 DEF InOrder, NothingPlaced
  <2> QED
    BY <1>1, <1>2, <2>4
<1>4. ASSUME NEW i \in 0 .. N - 1, i \in T
      PROVE  i + 1 \in T
  <2> DEFINE d == P[i]
             n == v1.notes[i + 1]
  <2>1. i + 1 \in 1 .. N /\ i + 1 \in 0 .. N /\ i + 1 - 1 = i /\ d \in Placings
    BY <1>1, <1>2
  <2>2. P[i + 1] = PlaceNext(v1, d, n)
    BY <1>2, <2>1
  <2> HIDE DEF P, n
  <2>3. ASSUME ~ P[i + 1].failed
        PROVE  InOrder(v1, i + 1, P[i + 1])
    <3>1. ~ d.failed
      BY <2>2, <2>3 DEF PlaceNext
    <3>2. InOrder(v1, i, d)
      BY <1>4, <3>1
    <3>3. CASE v1.retro[n.retro] = None
      <4>1. P[i + 1] = [d EXCEPT !.left = @ + 1]
        BY <2>2, <3>1, <3>3 DEF PlaceNext
      <4> QED
        BY <2>1, <3>2, <3>3, <4>1, PassedInOrder DEF n
    <3>4. CASE v1.retro[n.retro] # None
      <4>1. P[i + 1] = Place(v1, d, n)
        BY <2>2, <3>1, <3>4 DEF PlaceNext
      <4> QED
        BY <2>1, <2>3, <3>1, <3>2, <3>4, <4>1, PlacedInOrder DEF n
    <3> QED
      BY <3>3, <3>4
  <2> QED
    BY <2>1, <2>3
<1>5. N \in 0 .. N /\ \A i \in 0 .. N : i \in T
  <2> HIDE DEF T, N
  <2> QED
    BY <1>1, <1>3, <1>4, CountingUp
<1> QED
  BY <1>2, <1>5 DEF Placed

---------------------------------------------------------------------------
(* What the tables owe v1 *)

\* No column is in two retros, so each is where its retro has it.
LEMMA ColumnsOfOneRetro ==
  ASSUME NEW v1, IsOldDatabase(v1), ~ RetrosFail(v1), NEW r \in RetrosOf(v1),
         NEW c \in Columns, Contains(v1.retro[r].columns, c)
  PROVE  ColumnTable(v1)[c] = r
<1> DEFINE in == {s \in RetrosOf(v1) : Contains(v1.retro[s].columns, c)}
<1>1. \A s \in RetrosOf(v1) : Contains(v1.retro[s].columns, c) => c \in ToSet(v1.retro[s].columns)
  BY DEF Contains, ToSet
<1>2. in = {r}
  BY <1>1 DEF RetrosFail
<1>3. r \in Retros
  BY DEF RetrosOf
<1> HIDE DEF in
<1>4. (CHOOSE s \in in : TRUE) = r
  BY <1>2
<1> QED
  BY <1>2, <1>4 DEF ColumnTable, in

\* A note that goes into a column goes into one that is there, and into one of
\* its own retro if it was in one, or in none.
LEMMA ColumnForThere ==
  ASSUME NEW v1, IsOldDatabase(v1), ~ RetrosFail(v1), NEW n \in V1Note,
         v1.retro[n.retro] # None, ColumnFor(v1, n) # None
  PROVE  /\ ColumnTable(v1)[ColumnFor(v1, n)] # None
         /\ ColumnTable(v1)[n.column] \in {None, n.retro} =>
              ColumnTable(v1)[ColumnFor(v1, n)] = n.retro
<1> DEFINE columns == v1.retro[n.retro].columns
<1>1. n.retro \in Retros /\ n.retro \in RetrosOf(v1) /\ n.column \in Columns
  BY DEF V1Note, RetrosOf
<1>2. columns \in Seq(Columns)
  BY <1>1 DEF IsOldDatabase, V1Retro
<1>3. None \notin Retros
  BY ImportAssumption
<1>4. CASE ColumnTable(v1)[n.column] # None
  BY <1>4 DEF ColumnFor
<1>5. CASE ColumnTable(v1)[n.column] = None
  <2>1. columns # <<>> /\ ColumnFor(v1, n) = Head(columns)
    BY <1>5 DEF ColumnFor
  <2> HIDE DEF columns
  <2>2. Head(columns) \in Columns /\ Head(columns) = columns[1] /\ 1 \in 1 .. Len(columns)
    BY <1>2, <2>1
  <2>3. Contains(columns, Head(columns))
    BY <2>2 DEF Contains
  <2>4. ColumnTable(v1)[Head(columns)] = n.retro
    BY <1>1, <2>2, <2>3, ColumnsOfOneRetro DEF columns
  <2> QED
    BY <1>1, <1>3, <2>1, <2>4
<1> QED
  BY <1>4, <1>5

\* A v1 note that has a row has it as the loop left it.
LEMMA NoteKept ==
  ASSUME NEW v1, IsOldDatabase(v1), NEW d \in Placings, InOrder(v1, Len(v1.notes), d),
         NEW n \in ToSet(v1.notes), d.note[n.id] # None
  PROVE  /\ n \in V1Note /\ KeyOf(n) \in Retros \X Groups
         /\ v1.retro[n.retro] # None
         /\ d.home[KeyOf(n)] # None
         /\ d.note[n.id].group = d.home[KeyOf(n)] /\ d.note[n.id].author = AuthorOf(v1, n)
<1>1. PICK j \in 1 .. Len(v1.notes) : n = v1.notes[j]
  BY DEF ToSet, IsOldDatabase
<1>2. n \in V1Note
  BY <1>1 DEF IsOldDatabase
<1>3. n.id \in Notes /\ KeyOf(n) \in Retros \X Groups
  BY <1>2 DEF V1Note, KeyOf
<1>4. PICK k \in NotesKept(v1, Len(v1.notes)) : v1.notes[k].id = n.id
  BY <1>3 DEF InOrder
<1>5. j = k
  BY <1>1, <1>4 DEF NotesKept, IsOldDatabase
<1>6. j \in NotesKept(v1, Len(v1.notes))
  BY <1>4, <1>5
<1>7. /\ d.home[KeyOf(n)] # None
      /\ d.note[n.id] = [retro |-> n.retro, group |-> d.home[KeyOf(n)],
                         author |-> AuthorOf(v1, n), text |-> Text]
  BY <1>1, <1>6 DEF InOrder
<1>8. d.note[n.id].group = d.home[KeyOf(n)] /\ d.note[n.id].author = AuthorOf(v1, n)
  BY <1>7
<1> QED
  BY <1>1, <1>2, <1>3, <1>6, <1>7, <1>8 DEF NotesKept

\* A v1 group that has become one in v2 has a note there.
LEMMA GroupKept ==
  ASSUME NEW v1, IsOldDatabase(v1), NEW d \in Placings, InOrder(v1, Len(v1.notes), d),
         NEW k \in Retros \X Groups, d.home[k] # None
  PROVE  /\ d.home[k] \in GroupIds
         /\ d.group[d.home[k]] # None /\ d.group[d.home[k]].retro = k[1]
         /\ \E n \in ToSet(v1.notes) :
              /\ n.id \in Notes /\ KeyOf(n) = k /\ d.note[n.id] # None
              /\ d.note[n.id].group = d.home[k]
<1>1. /\ d.group[d.home[k]] # None /\ d.group[d.home[k]].retro = k[1]
      /\ \E j \in NotesKept(v1, Len(v1.notes)) : KeyOf(v1.notes[j]) = k
  BY DEF InOrder
<1>2. PICK j \in NotesKept(v1, Len(v1.notes)) : KeyOf(v1.notes[j]) = k
  BY <1>1
<1> DEFINE n == v1.notes[j]
           row == [retro |-> n.retro, group |-> d.home[KeyOf(n)], author |-> AuthorOf(v1, n), text |-> Text]
<1>3. j \in 1 .. Len(v1.notes) /\ n \in ToSet(v1.notes) /\ n \in V1Note
  BY DEF NotesKept, ToSet, IsOldDatabase
<1>4. d.note[n.id] = row
  BY DEF InOrder
<1>5. n.id \in Notes /\ n.retro \in Retros /\ AuthorOf(v1, n) \in Users \cup {Someone}
  BY <1>3 DEF V1Note, AuthorOf
<1>6. d.home[k] \in GroupIds
  BY DEF Placings
<1> HIDE DEF n
<1>7. row \in NoteRow
  BY <1>2, <1>5, <1>6 DEF NoteRow, n
<1>8. d.note[n.id] # None
  BY <1>4, <1>7, ImportAssumption
<1>9. d.note[n.id].group = d.home[k]
  BY <1>2, <1>4 DEF n
<1> QED
  BY <1>1, <1>2, <1>3, <1>5, <1>6, <1>8, <1>9 DEF n

\* The part that is kept and the rest make up the whole.
LEMMA PartAndRest ==
  ASSUME NEW S, IsFiniteSet(S), NEW T, T \subseteq S
  PROVE  Cardinality(T) + Cardinality(S \ T) = Cardinality(S)
<1>1. IsFiniteSet(T) /\ Cardinality(T) \in Nat /\ Cardinality(S) \in Nat
  BY FS_Subset, FS_CardinalityType
<1>2. S \cap T = T
  OBVIOUS
<1>3. Cardinality(S \ T) = Cardinality(S) - Cardinality(S \cap T)
  BY <1>1, FS_Difference
<1> QED
  BY <1>1, <1>2, <1>3

\* Notes keep their company.
LEMMA KeepsCompany ==
  ASSUME NEW v1, IsOldDatabase(v1), ~ Fails(v1)
  PROVE  CompanyKept(v1, Converted(v1))
<1> DEFINE d == Placed(v1)
<1>1. d \in Placings /\ InOrder(v1, Len(v1.notes), d)
  BY LoopInOrder DEF Fails
<1>2. Converted(v1).note = d.note
  BY DEF Converted
<1> HIDE DEF d
<1>3. ASSUME NEW m \in ToSet(v1.notes), NEW n \in ToSet(v1.notes),
             d.note[m.id] # None, d.note[n.id] # None
      PROVE  d.note[m.id].group = d.note[n.id].group <=> m.retro = n.retro /\ m.group = n.group
  <2>1. /\ KeyOf(m) \in Retros \X Groups /\ d.home[KeyOf(m)] # None
        /\ d.note[m.id].group = d.home[KeyOf(m)]
    BY <1>1, <1>3, NoteKept
  <2>2. /\ KeyOf(n) \in Retros \X Groups /\ d.home[KeyOf(n)] # None
        /\ d.note[n.id].group = d.home[KeyOf(n)]
    BY <1>1, <1>3, NoteKept
  <2>3. d.home[KeyOf(m)] = d.home[KeyOf(n)] <=> KeyOf(m) = KeyOf(n)
    BY <1>1, <2>1, <2>2 DEF InOrder
  <2>4. KeyOf(m) = KeyOf(n) <=> m.retro = n.retro /\ m.group = n.group
    BY DEF KeyOf
  <2> QED
    BY <2>1, <2>2, <2>3, <2>4
<1> QED
  BY <1>2, <1>3 DEF CompanyKept

\* The votes of a user on a group, and what is made of them.
Cast(v1, d, g, u) == {v \in VotesKept(v1, d) : v[2] = u /\ d.home[<<v[1], v[3]>>] = g}

LEMMA VoteRows ==
  ASSUME NEW v1, IsOldDatabase(v1), NEW d, NEW g \in GroupIds, NEW u \in Users \cup {Someone}
  PROVE  LET cast == Cast(v1, d, g, u)
             row  == VoteTable(v1, d)[g][u]
         IN /\ cast = {} => row = None
            /\ cast # {} => row # None /\ row.count = Cardinality(cast)
                             /\ \E v \in cast : row.retro = v[1]
<1> DEFINE cast == Cast(v1, d, g, u)
           row  == VoteTable(v1, d)[g][u]
<1>1. row = IF cast = {} THEN None
            ELSE [retro |-> (CHOOSE v \in cast : TRUE)[1], count |-> Cardinality(cast)]
  BY DEF VoteTable, Cast
<1>2. cast \subseteq v1.votes /\ IsFiniteSet(v1.votes) /\ v1.votes \subseteq Retros \X Users \X Groups
  BY DEF Cast, VotesKept, IsOldDatabase
<1> HIDE DEF cast
<1>3. Cardinality(cast) \in Nat
  BY <1>2, FS_Subset, FS_CardinalityType
<1>4. ASSUME cast # {}
      PROVE  row # None /\ row.count = Cardinality(cast) /\ \E v \in cast : row.retro = v[1]
  <2> DEFINE w == CHOOSE v \in cast : TRUE
  <2>1. w \in cast
    BY <1>4
  <2> HIDE DEF w
  <2>2. w[1] \in Retros
    BY <1>2, <2>1
  <2>3. row = [retro |-> w[1], count |-> Cardinality(cast)]
    BY <1>1, <1>4 DEF w
  <2>4. row \in VoteRow
    BY <1>3, <2>2, <2>3 DEF VoteRow
  <2> QED
    BY <2>1, <2>3, <2>4, ImportAssumption
<1> QED
  BY <1>1, <1>4 DEF cast

\* Votes stay with the notes they were on.
LEMMA KeepsVotes ==
  ASSUME NEW v1, IsOldDatabase(v1), ~ Fails(v1)
  PROVE  VotesStayed(v1, Converted(v1))
<1> DEFINE d == Placed(v1)
<1>1. d \in Placings /\ InOrder(v1, Len(v1.notes), d)
  BY LoopInOrder DEF Fails
<1>2. Converted(v1).note = d.note /\ Converted(v1).vote = VoteTable(v1, d)
  BY DEF Converted
<1> HIDE DEF d
<1>3. ASSUME NEW g \in GroupIds, NEW u \in v1.users
      PROVE  LET here   == {n \in ToSet(v1.notes) : d.note[n.id] # None /\ d.note[n.id].group = g}
                 theirs == {v \in v1.votes :
                              v[2] = u /\ \E n \in here : n.retro = v[1] /\ n.group = v[3]}
                 row    == VoteTable(v1, d)[g][u]
             IN (IF row = None THEN 0 ELSE row.count) = Cardinality(theirs)
  <2> DEFINE here   == {n \in ToSet(v1.notes) : d.note[n.id] # None /\ d.note[n.id].group = g}
             theirs == {v \in v1.votes : v[2] = u /\ \E n \in here : n.retro = v[1] /\ n.group = v[3]}
             row    == VoteTable(v1, d)[g][u]
             cast   == Cast(v1, d, g, u)
  <2>1. v1.votes \subseteq Retros \X Users \X Groups /\ u \in Users
    BY DEF IsOldDatabase
  <2>2. g # None
    BY ImportAssumption
  <2>3. ASSUME NEW v \in theirs
        PROVE  v \in cast
    <3>1. PICK n \in here : n.retro = v[1] /\ n.group = v[3]
      OBVIOUS
    <3>2. n \in ToSet(v1.notes) /\ d.note[n.id] # None /\ d.note[n.id].group = g
      OBVIOUS
    <3>3. d.home[KeyOf(n)] # None /\ d.note[n.id].group = d.home[KeyOf(n)]
      <4> HIDE DEF here
      <4> QED
        BY <1>1, <3>2, NoteKept
    <3>4. KeyOf(n) = <<v[1], v[3]>>
      BY <3>1 DEF KeyOf
    <3> QED
      BY <3>2, <3>3, <3>4 DEF Cast, VotesKept
  <2>4. ASSUME NEW v \in cast
        PROVE  v \in theirs
    <3>1. v \in v1.votes /\ v[2] = u /\ d.home[<<v[1], v[3]>>] = g
      BY DEF Cast, VotesKept
    <3>2. <<v[1], v[3]>> \in Retros \X Groups
      BY <2>1, <3>1
    <3>3. PICK n \in ToSet(v1.notes) :
            KeyOf(n) = <<v[1], v[3]>> /\ d.note[n.id] # None /\ d.note[n.id].group = g
      BY <1>1, <2>2, <3>1, <3>2, GroupKept
    <3> QED
      BY <3>1, <3>3 DEF KeyOf
  <2>5. theirs = cast
    <3> HIDE DEF theirs, cast
    <3> QED
      BY <2>3, <2>4
  <2>6. /\ cast = {} => row = None
        /\ cast # {} => row # None /\ row.count = Cardinality(cast)
    BY <2>1, VoteRows
  <2>7. Cardinality({}) = 0
    BY FS_EmptySet
  <2> HIDE DEF theirs, cast, row
  <2>8. (IF row = None THEN 0 ELSE row.count) = Cardinality(theirs)
    BY <2>5, <2>6, <2>7
  <2> QED
    BY <2>8 DEF theirs, row
<1> QED
  BY <1>2, <1>3 DEF VotesStayed

\* Every row is brought over or counted as left out; a tag is, if the retros of
\* all tags are there.
LEMMA CountsAll ==
  ASSUME NEW v1, IsOldDatabase(v1), ~ Fails(v1)
  PROVE  OnlyTagsUncounted(v1, Converted(v1))
<1> DEFINE d == Placed(v1)
           s == Summary(v1, d)
<1>1. d \in Placings /\ InOrder(v1, Len(v1.notes), d)
  BY LoopInOrder DEF Fails
<1>2. Converted(v1).summary = s
  BY DEF Converted
<1> HIDE DEF d
<1>3. Cardinality({n \in Notes : d.note[n] # None}) + d.left = Len(v1.notes)
  BY <1>1 DEF InOrder, NoteRows
<1>4. Cardinality(VotesKept(v1, d)) + Cardinality(v1.votes \ VotesKept(v1, d)) = Cardinality(v1.votes)
  BY PartAndRest DEF VotesKept, IsOldDatabase
<1>5. Cardinality(TasksKept(v1)) + Cardinality(v1.tasks \ TasksKept(v1)) = Cardinality(v1.tasks)
  BY PartAndRest DEF TasksKept, IsOldDatabase
<1>6. Cardinality(ReactionsKept(v1, d)) + Cardinality(v1.reactions \ ReactionsKept(v1, d))
        = Cardinality(v1.reactions)
  BY PartAndRest DEF ReactionsKept, IsOldDatabase
<1>7. Cardinality(TagsKept(v1)) + Cardinality(TagsOfGoneRetros(v1)) = Cardinality(v1.tags)
  <2>1. TagsOfGoneRetros(v1) = v1.tags \ TagsKept(v1)
    BY DEF TagsOfGoneRetros, TagsKept
  <2> QED
    BY <2>1, PartAndRest DEF TagsKept, IsOldDatabase
<1>8. DOMAIN s.left = {"notes", "votes", "actions", "reactions"}
  BY DEF Summary
<1>9. /\ AccountsFor(s, "users") = s.users /\ AccountsFor(s, "retros") = s.retros
      /\ AccountsFor(s, "tags") = s.tags
      /\ AccountsFor(s, "notes") = s.notes + s.left.notes
      /\ AccountsFor(s, "votes") = s.votes + s.left.votes
      /\ AccountsFor(s, "actions") = s.actions + s.left.actions
      /\ AccountsFor(s, "reactions") = s.reactions + s.left.reactions
  <2> HIDE DEF s
  <2> QED
    BY <1>8 DEF AccountsFor
<1>10. /\ s.users = Rows(v1).users /\ s.retros = Rows(v1).retros
       /\ s.tags = Cardinality(TagsKept(v1)) /\ Rows(v1).tags = Cardinality(v1.tags)
       /\ s.notes + s.left.notes = Rows(v1).notes
  BY <1>3 DEF Rows, Summary
<1>11. /\ s.votes + s.left.votes = Rows(v1).votes
       /\ s.actions + s.left.actions = Rows(v1).actions
       /\ s.reactions + s.left.reactions = Rows(v1).reactions
  BY <1>4, <1>5, <1>6 DEF Rows, Summary
<1>12. DOMAIN Rows(v1) = {"users", "retros", "notes", "votes", "actions", "tags", "reactions"}
  BY DEF Rows
<1> HIDE DEF s
<1> QED
  BY <1>2, <1>7, <1>9, <1>10, <1>11, <1>12 DEF OnlyTagsUncounted

\* Whoever is referred to is there.
LEMMA KnowsAll ==
  ASSUME NEW v1, IsOldDatabase(v1), ~ Fails(v1)
  PROVE  NoStrangers(Converted(v1))
<1> DEFINE d == Placed(v1)
           t == Converted(v1)
<1>1. d \in Placings /\ InOrder(v1, Len(v1.notes), d)
  BY LoopInOrder DEF Fails
<1>2. /\ t.users = v1.users \cup (IF NeedsSomeone(v1, d) THEN {Someone} ELSE {})
      /\ t.stage = [r \in Retros |-> IF v1.retro[r] = None THEN None ELSE StageFor[v1.retro[r].status]]
      /\ t.note = d.note /\ t.vote = VoteTable(v1, d) /\ t.action = ActionTable(v1)
      /\ t.tags = TagsKept(v1) /\ t.reaction = ReactionsKept(v1, d)
  BY DEF Converted
<1> HIDE DEF d, t
<1>3. ASSUME NEW n \in Notes, t.note[n] # None
      PROVE  t.note[n].author \in t.users
  <2>1. PICK j \in NotesKept(v1, Len(v1.notes)) : v1.notes[j].id = n
    BY <1>1, <1>2, <1>3 DEF InOrder
  <2>2. d.note[n].author = AuthorOf(v1, v1.notes[j])
    <3> DEFINE m == v1.notes[j]
    <3>1. d.note[m.id] = [retro |-> m.retro, group |-> d.home[KeyOf(m)],
                          author |-> AuthorOf(v1, m), text |-> Text]
      BY <1>1 DEF InOrder
    <3> QED
      BY <2>1, <3>1
  <2>3. AuthorOf(v1, v1.notes[j]) \notin v1.users => NeedsSomeone(v1, d) /\ d.note[n].author = Someone
    BY <1>2, <1>3, <2>2 DEF NeedsSomeone, AuthorOf
  <2> QED
    BY <1>2, <2>2, <2>3
<1>4. ASSUME NEW g \in GroupIds, NEW u \in Users \cup {Someone}, t.vote[g][u] # None
      PROVE  u \in t.users
  <2>1. Cast(v1, d, g, u) # {}
    BY <1>2, <1>4, VoteRows
  <2> QED
    BY <1>2, <2>1 DEF Cast, VotesKept
<1>5. \A x \in t.reaction : x[2] \in t.users
  BY <1>2 DEF ReactionsKept
<1>6. ASSUME NEW r \in Retros, v1.retro[r] # None
      PROVE  t.stage[r] # None
  <2>1. v1.retro[r].status \in DOMAIN StageFor
    BY <1>6 DEF Fails, RetrosFail, RetrosOf
  <2>2. StageFor[v1.retro[r].status] \in 0 .. 3
    BY <2>1 DEF StageFor
  <2> QED
    BY <1>2, <1>6, <2>2, ImportAssumption
<1>7. ASSUME NEW a \in Tasks, t.action[a] # None
      PROVE  t.stage[t.action[a].retro] # None
  <2>1. \E s \in TasksKept(v1) : s.id = a
    BY <1>2, <1>7 DEF ActionTable
  <2> DEFINE s == CHOOSE s \in TasksKept(v1) : s.id = a
  <2>2. s \in TasksKept(v1)
    BY <2>1
  <2>3. t.action[a].retro = s.retro
    BY <1>2, <2>1 DEF ActionTable
  <2> HIDE DEF s
  <2>4. s.retro \in Retros /\ v1.retro[s.retro] # None
    BY <2>2 DEF TasksKept, IsOldDatabase, V1Task
  <2> QED
    BY <1>6, <2>3, <2>4
<1>8. ASSUME NEW x \in t.tags
      PROVE  t.stage[x[1]] # None
  <2>1. x[1] \in Retros /\ v1.retro[x[1]] # None
    BY <1>2 DEF TagsKept, IsOldDatabase
  <2> QED
    BY <1>6, <2>1
<1> QED
  BY <1>3, <1>4, <1>5, <1>7, <1>8 DEF NoStrangers, t

\* A row of votes counts at least one.
LEMMA VoteRowTyped ==
  ASSUME NEW v1, IsOldDatabase(v1), NEW d, NEW g \in GroupIds, NEW u \in Users \cup {Someone}
  PROVE  VoteTable(v1, d)[g][u] \in Imported!VoteRow \cup {None}
<1> DEFINE cast == Cast(v1, d, g, u)
           row  == VoteTable(v1, d)[g][u]
           w    == CHOOSE v \in cast : TRUE
<1>1. row = IF cast = {} THEN None ELSE [retro |-> w[1], count |-> Cardinality(cast)]
  BY DEF VoteTable, Cast
<1>2. IsFiniteSet(cast) /\ cast \subseteq Retros \X Users \X Groups
  BY FS_Subset DEF Cast, VotesKept, IsOldDatabase
<1> HIDE DEF cast, row
<1>3. CASE cast # {}
  <2>1. w \in cast
    BY <1>3
  <2> HIDE DEF w
  <2>2. w[1] \in Retros
    BY <1>2, <2>1
  <2>3. Cardinality(cast) \in Nat \ {0}
    BY <1>2, <1>3, FS_CardinalityType, FS_EmptySet
  <2> QED
    BY <1>1, <1>3, <2>2, <2>3 DEF row, Imported!VoteRow
<1> QED
  BY <1>1, <1>3 DEF row

\* The groups, votes and reactions of a converted database are in order.
LEMMA TablesHealthy ==
  ASSUME IsOldDatabase(old), ~ Fails(old), file.tables = Converted(old)
  PROVE  /\ Imported!GroupsHaveNotes /\ Imported!NotesInGroups
         /\ Imported!VotesOnGroups /\ Imported!SpotlightOnGroup /\ Imported!ReactionsOnNotes
         /\ \A g \in GroupIds : file.tables.group[g] # None =>
              file.tables.column[file.tables.group[g].column] # None
         /\ OwnColumns(old) => Imported!GroupsInColumns
<1> DEFINE d == Placed(old)
<1>1. d \in Placings /\ InOrder(old, Len(old.notes), d) /\ ~ RetrosFail(old)
  BY LoopInOrder DEF Fails
<1>2. /\ file.tables.column = ColumnTable(old) /\ file.tables.group = d.group
      /\ file.tables.note = d.note /\ file.tables.vote = VoteTable(old, d)
      /\ file.tables.reaction = ReactionsKept(old, d)
  BY DEF Converted
<1> HIDE DEF d
<1>3. /\ None \notin GroupIds
      /\ d.home \in [Retros \X Groups -> GroupIds \cup {None}]
      /\ d.group \in [GroupIds -> GroupRow \cup {None}]
  BY <1>1, ImportAssumption DEF Placings
<1>4. Imported!GroupsHaveNotes
  <2> SUFFICES ASSUME NEW g \in GroupIds, d.group[g] # None
               PROVE  \E n \in Notes : d.note[n] # None /\ d.note[n].group = g
    BY <1>2 DEF Imported!GroupsHaveNotes, Imported!NotesIn
  <2>1. PICK k \in Retros \X Groups : d.home[k] = g
    BY <1>1 DEF InOrder
  <2> QED
    BY <1>1, <1>3, <2>1, GroupKept
<1>5. Imported!NotesInGroups
  <2> SUFFICES ASSUME NEW n \in Notes, d.note[n] # None
               PROVE  d.group[d.note[n].group] # None /\ d.group[d.note[n].group].retro = d.note[n].retro
    BY <1>2 DEF Imported!NotesInGroups, Imported!GroupIn
  <2>1. PICK j \in NotesKept(old, Len(old.notes)) : old.notes[j].id = n
    BY <1>1 DEF InOrder
  <2> DEFINE m == old.notes[j]
  <2>2. /\ d.home[KeyOf(m)] # None
        /\ d.note[m.id] = [retro |-> m.retro, group |-> d.home[KeyOf(m)],
                           author |-> AuthorOf(old, m), text |-> Text]
    BY <1>1 DEF InOrder
  <2>3. m \in V1Note
    BY DEF NotesKept, IsOldDatabase
  <2>4. d.note[n].retro = m.retro /\ d.note[n].group = d.home[KeyOf(m)]
    BY <2>1, <2>2
  <2> HIDE DEF m
  <2>5. KeyOf(m) \in Retros \X Groups /\ KeyOf(m)[1] = m.retro
    BY <2>3 DEF V1Note, KeyOf
  <2> QED
    BY <1>1, <2>2, <2>4, <2>5, GroupKept
<1>6. Imported!VotesOnGroups
  <2> SUFFICES ASSUME NEW g \in GroupIds, NEW u \in Users \cup {Someone},
                      VoteTable(old, d)[g][u] # None
               PROVE  d.group[g] # None /\ d.group[g].retro = VoteTable(old, d)[g][u].retro
    BY <1>2 DEF Imported!VotesOnGroups, Imported!GroupIn
  <2>1. Cast(old, d, g, u) # {}
    BY VoteRows
  <2>2. PICK v \in Cast(old, d, g, u) : VoteTable(old, d)[g][u].retro = v[1]
    BY <2>1, VoteRows
  <2>3. v \in old.votes /\ d.home[<<v[1], v[3]>>] = g
    BY DEF Cast, VotesKept
  <2>4. <<v[1], v[3]>> \in Retros \X Groups
    BY <2>3 DEF IsOldDatabase
  <2>5. d.group[g] # None /\ d.group[g].retro = <<v[1], v[3]>>[1]
    BY <1>1, <1>3, <2>3, <2>4, GroupKept
  <2> QED
    BY <2>2, <2>5
<1>7. Imported!SpotlightOnGroup
  BY DEF Imported!SpotlightOnGroup
<1>8. Imported!ReactionsOnNotes
  BY <1>2 DEF Imported!ReactionsOnNotes, ReactionsKept
<1>9. ASSUME NEW g \in GroupIds, d.group[g] # None
      PROVE  /\ ColumnTable(old)[d.group[g].column] # None
             /\ OwnColumns(old) => ColumnTable(old)[d.group[g].column] = d.group[g].retro
  <2>1. PICK j \in NotesKept(old, Len(old.notes)) :
          d.group[g].retro = old.notes[j].retro /\ d.group[g].column = ColumnFor(old, old.notes[j])
    BY <1>1, <1>9 DEF InOrder
  <2> DEFINE m == old.notes[j]
  <2>2. m \in V1Note /\ m \in ToSet(old.notes) /\ old.retro[m.retro] # None
    BY DEF NotesKept, IsOldDatabase, ToSet
  <2>3. d.group[g].column \in Columns
    BY <1>3, <1>9 DEF GroupRow
  <2>4. ColumnFor(old, m) # None
    BY <2>1, <2>3, ImportAssumption
  <2> HIDE DEF m
  <2>5. /\ ColumnTable(old)[ColumnFor(old, m)] # None
        /\ ColumnTable(old)[m.column] \in {None, m.retro} =>
             ColumnTable(old)[ColumnFor(old, m)] = m.retro
    BY <1>1, <2>2, <2>4, ColumnForThere
  <2> QED
    BY <2>1, <2>2, <2>5 DEF OwnColumns, m
<1>10. OwnColumns(old) => Imported!GroupsInColumns
  BY <1>2, <1>9 DEF Imported!GroupsInColumns
<1> QED
  BY <1>2, <1>4, <1>5, <1>6, <1>7, <1>8, <1>9, <1>10

\* They have the types that the store's tables have.
LEMMA TablesTyped ==
  ASSUME IsOldDatabase(old), ~ Fails(old), file.tables = Converted(old)
  PROVE  Imported!TypeOK
<1> DEFINE d == Placed(old)
           t == file.tables
<1>1. d \in Placings /\ ~ RetrosFail(old)
  BY LoopInOrder DEF Fails
<1>2. /\ t.stage = [r \in Retros |-> IF old.retro[r] = None THEN None
                                    ELSE StageFor[old.retro[r].status]]
      /\ t.maxVotes = [r \in Retros |->
           IF old.retro[r] = None THEN MinVotes
           ELSE LET m == old.retro[r].maxVotes
                IN IF m < MinVotes THEN MinVotes ELSE IF m > MaxVotesCap THEN MaxVotesCap ELSE m]
      /\ t.column = ColumnTable(old) /\ t.group = d.group /\ t.note = d.note
      /\ t.vote = VoteTable(old, d) /\ t.reaction = ReactionsKept(old, d)
  BY DEF Converted
<1> HIDE DEF d, t
<1>3. \A r \in Retros : old.retro[r] # None =>
        old.retro[r].maxVotes \in Int /\ old.retro[r].status \in DOMAIN StageFor
  BY <1>1 DEF IsOldDatabase, V1Retro, RetrosFail, RetrosOf
<1>4. t.stage \in [Retros -> Imported!Stages \cup {None}]
  <2>1. \A s \in DOMAIN StageFor : StageFor[s] \in 0 .. 3
    BY DEF StageFor
  <2>2. Imported!Stages = 0 .. 3
    BY DEF Imported!Stages, Imported!Reflect, Imported!Discuss
  <2> QED
    BY <1>2, <1>3, <2>1, <2>2
<1>5. t.maxVotes \in [Retros -> 1 .. MaxVotesCap]
  BY <1>2, <1>3, ImportAssumption
<1>6. t.column \in [Columns -> Retros \cup {None}]
  BY <1>2 DEF ColumnTable, RetrosOf
<1>7. /\ t.group \in [GroupIds -> Imported!GroupRow \cup {None}]
      /\ t.note \in [Notes -> Imported!NoteRow \cup {None}]
  BY <1>1, <1>2 DEF Placings, GroupRow, NoteRow, Imported!GroupRow, Imported!NoteRow
<1>8. t.vote \in [GroupIds -> [Users \cup {Someone} -> Imported!VoteRow \cup {None}]]
  <2> DEFINE row(g, u) ==
        LET cast == {v \in VotesKept(old, d) : v[2] = u /\ d.home[<<v[1], v[3]>>] = g}
        IN IF cast = {} THEN None
           ELSE [retro |-> (CHOOSE v \in cast : TRUE)[1], count |-> Cardinality(cast)]
  <2>1. t.vote = [g \in GroupIds |-> [u \in Users \cup {Someone} |-> row(g, u)]]
    BY <1>2 DEF VoteTable
  <2> HIDE DEF row
  <2>2. ASSUME NEW g \in GroupIds, NEW u \in Users \cup {Someone}
        PROVE  row(g, u) \in Imported!VoteRow \cup {None}
    <3>1. VoteTable(old, d)[g][u] \in Imported!VoteRow \cup {None}
      BY VoteRowTyped
    <3>2. VoteTable(old, d)[g][u] = row(g, u)
      BY <1>2, <2>1
    <3> QED
      BY <3>1, <3>2
  <2> QED
    BY <2>1, <2>2
<1>9. t.reaction \subseteq Notes \X (Users \cup {Someone}) \X Emojis
  BY <1>2 DEF ReactionsKept, IsOldDatabase
<1> QED
  BY <1>4, <1>5, <1>6, <1>7, <1>8, <1>9 DEF Imported!TypeOK, t

---------------------------------------------------------------------------
(* What follows from it *)

\* The wait group counts the sockets and the AI requests there are, whenever
\* the process was killed and however often it was started.
THEOREM WaitGroupCounts == Spec => []TypeOK
<1>1. Inductive => TypeOK
  BY DEF Inductive, Types
<1> QED
  BY <1>1, Invariance, PTL

\* A file that was v1's and is v2's has a whole copy of v1 beside it.
THEOREM CopiedFirst == Spec => []CopyFirst
<1>1. Inductive => CopyFirst
  BY DEF Inductive, Copying
<1> QED
  BY <1>1, Invariance, PTL

\* Each migration is applied once, in order, and all of them before serving,
\* for any number of migrations and of interrupted starts.
THEOREM MigrationsInOrder == Spec => []SchemaInOrder
<1>1. Inductive => SchemaInOrder
  <2> SUFFICES ASSUME Inductive
               PROVE  SchemaInOrder
    OBVIOUS
  <2>1. CASE IsV1
    BY <2>1 DEF Inductive, Schema, SchemaInOrder, Running
  <2>2. CASE ~IsV1
    <3>1. PICK n \in 0 .. Migrations : file.migrations = Applied(n)
      BY <2>2 DEF Inductive, Schema
    <3>2. \A i \in DOMAIN file.migrations : file.migrations[i] = i
      BY <3>1 DEF Applied
    <3>3. pc \in Running => Len(file.migrations) = Migrations
      BY AppliedFacts, ServerAssumption DEF Inductive, Schema
    <3> QED
      BY <3>2, <3>3 DEF SchemaInOrder, Running
  <2> QED
    BY <2>1, <2>2
<1> QED
  BY <1>1, Invariance, PTL

\* A database that was converted is what Import makes of the v1 database it
\* was, which did not fail: nothing of a start that was cut short is left in it.
THEOREM ConvertedAsAWhole == Spec => [](WasV1 => ~Fails(old) /\ file.tables = Converted(old))
<1>1. Inductive => (WasV1 => ~Fails(old) /\ file.tables = Converted(old))
  BY DEF Inductive, Schema
<1> QED
  BY <1>1, Invariance, PTL

\* What is converted is in order: the rows have the types of the store's, every
\* group has notes, every row refers to what is there and is its own retro's,
\* whatever v1 left dangling.  HealthyOnwards of RetroBoardProofs says that it
\* then stays so, whatever people do, if no note of v1 was in a column of another
\* retro (OwnColumns).
THEOREM ImportsHealthy == Spec => []ImportedHealthy
<1>1. Inductive => ImportedHealthy
  <2> SUFFICES ASSUME Inductive, WasV1
               PROVE  ImportedHealthy
    BY DEF ImportedHealthy
  <2>1. IsOldDatabase(old) /\ ~ Fails(old) /\ file.tables = Converted(old)
    BY DEF Inductive, Schema, WasV1
  <2>2. NoStrangers(file.tables)
    BY <2>1, KnowsAll
  <2> QED
    BY <2>1, <2>2, TablesTyped, TablesHealthy DEF ImportedHealthy
<1> QED
  BY <1>1, Invariance, PTL

\* The conversion neither mixes nor splits groups, keeps every vote where its
\* notes are, and counts every row it leaves out but for the tags of retros that
\* are gone, for every v1 database: any number of notes, in any order, whatever
\* ids its groups share.
THEOREM ImportsAddUp == Spec => []ImportAddsUp
<1>1. Inductive => ImportAddsUp
  <2> SUFFICES ASSUME Inductive, WasV1
               PROVE  ImportAddsUp
    BY DEF ImportAddsUp
  <2>1. IsOldDatabase(old) /\ ~ Fails(old) /\ file.tables = Converted(old)
    BY DEF Inductive, Schema, WasV1
  <2> QED
    BY <2>1, KeepsCompany, KeepsVotes, CountsAll DEF ImportAddsUp
<1> QED
  BY <1>1, Invariance, PTL

\* The database closes after the last handler and AI request, unless the time
\* was up: a wait group at zero means there are none.
THEOREM ClosesAfterWork == Spec => WorkEndsFirst
<1>1. Inductive /\ [Next]_vars =>
        [(pc = "waiting" /\ pc' = "closed" /\ ~timedOut) =>
           asking = {} /\ \A c \in Conns : conn[c] # "counted"]_vars
  <2> SUFFICES ASSUME Inductive, Next, pc = "waiting", pc' = "closed", ~timedOut
               PROVE  asking = {} /\ \A c \in Conns : conn[c] # "counted"
    OBVIOUS
  <2>1. sockets = 0
    BY DEF Next, StartUp, ShutDown, Serve, Open, NotV1, BeginCopy, CopyExists, EndCopy, Convert,
           RefuseToConvert, ApplyMigration, Migrated, Listen, Fail, Request, Respond, Hijack,
           Count, Ask, Answer, Leave, Signal, CloseChannel, Deadline, ShutdownReturns,
           CloseDatabase, Exit, Crash, Tick
  <2>2. /\ IsFiniteSet(Counted) /\ IsFiniteSet(asking)
        /\ Cardinality(Counted) + Cardinality(asking) = 0
    BY <2>1 DEF Inductive, Types, TypeOK, Counted
  <2>3. Cardinality(Counted) \in Nat /\ Cardinality(asking) \in Nat
    BY <2>2, FS_CardinalityType
  <2>4. Cardinality(Counted) = 0 /\ Cardinality(asking) = 0
    BY <2>2, <2>3
  <2>5. Counted = {} /\ asking = {}
    BY <2>2, <2>4, FS_EmptySet
  <2> QED
    BY <2>5 DEF Counted
<1> QED
  BY <1>1, Invariance, PTL DEF Spec, WorkEndsFirst
=============================================================================
