------------------------------ MODULE Server ------------------------------
(***************************************************************************)
(* The life of a server process and of its database file: opening it,      *)
(* copying and converting what v1 left, applying migrations, serving,      *)
(* shutting down, and stopping at any point in between (internal/server's  *)
(* Run, internal/db, internal/v1import).                                   *)
(*                                                                         *)
(* A transaction is one step, and a crash leaves the file as the last      *)
(* committed one did.  A copy taken with VACUUM INTO is not a transaction: *)
(* a crash leaves part of one.  Of a connection only what shutting down    *)
(* has to do with is kept: whether net/http still tracks it and whether    *)
(* the wait group counts it.                                               *)
(***************************************************************************)
EXTENDS Import

CONSTANTS
  OldDatabases,   \* the v1 databases a file may start as
  Migrations,     \* the number of migrations this version has
  Conns,          \* connections to the server
  MaxNow,         \* bound on the clock, in seconds
  MaxFaults       \* bound on crashes and failures

ASSUME ServerAssumption ==
  /\ Migrations \in Nat \ {0}
  /\ MaxNow \in Nat /\ MaxFaults \in Nat
  /\ None \notin OldDatabases /\ \A v1 \in OldDatabases : IsOldDatabase(v1)

VARIABLES
  old,        \* the v1 database the file started as, or None
  outcome,    \* the tables Import makes of it, or None; it depends on old alone
  file,       \* what is committed in the file
  copies,     \* copies[s], the copy whose name has second s
  now,        \* the clock, in seconds
  faults,     \* crashes and failures so far
  pc,         \* where Run is; "down" when there is no process
  copyAt,     \* the second in the name of the copy being taken
  conn,       \* conn[c], how far the handler of c's request is
  asking,     \* the connections with an AI request under way
  sockets,    \* the counter of the wait group
  closing,    \* the channel is closed
  timedOut    \* the shutdown context has ended

served == <<conn, asking, sockets, closing, timedOut>>
vars   == <<old, outcome, file, copies, now, faults, pc, copyAt, served>>

\* A file of v1, and one of v2 with some of its migrations applied; `tables`
\* is what the conversion filled it with.
V1File(v1) == [v1 |-> v1, migrations |-> <<>>, tables |-> None]
V2File(n)  == [v1 |-> None, migrations |-> [i \in 1 .. n |-> i], tables |-> None]

IsV1 == file.v1 # None

Starting == {"opened", "copying", "copied", "migrating", "wired"}
Ending   == {"stopping", "waiting"}

\* A new file, one of v1, or one of v2 of this version or an older one.
Init ==
  /\ \/ \E v1 \in OldDatabases :
          /\ old = v1 /\ file = V1File(v1)
          /\ outcome = IF Fails(v1) THEN None ELSE Converted(v1)
     \/ \E n \in 0 .. Migrations : old = None /\ file = V2File(n) /\ outcome = None
  /\ copies = [s \in 0 .. MaxNow |-> "none"]
  /\ now = 0 /\ faults = 0
  /\ pc = "down" /\ copyAt = 0
  /\ conn = [c \in Conns |-> "none"] /\ asking = {} /\ sockets = 0
  /\ closing = FALSE /\ timedOut = FALSE

\* What a process held in memory is gone with it.
Forget ==
  /\ conn' = [c \in Conns |-> "none"] /\ asking' = {} /\ sockets' = 0
  /\ closing' = FALSE /\ timedOut' = FALSE

---------------------------------------------------------------------------
(* Starting up: Run until it listens *)

\* db.Open
Open ==
  /\ pc = "down"
  /\ pc' = "opened"
  /\ UNCHANGED <<old, outcome, file, copies, now, faults, copyAt, served>>

\* importV1 has nothing to do.
NotV1 ==
  /\ pc = "opened" /\ ~IsV1
  /\ pc' = "migrating"
  /\ UNCHANGED <<old, outcome, file, copies, now, faults, copyAt, served>>

\* Backup: no file has the name of this second, and VACUUM INTO begins.
BeginCopy ==
  /\ pc = "opened" /\ IsV1
  /\ copies[now] = "none"
  /\ copies' = [copies EXCEPT ![now] = "partial"]
  /\ copyAt' = now
  /\ pc' = "copying"
  /\ UNCHANGED <<old, outcome, file, now, faults, served>>

\* Mutant: a copy that is there already is as good as another.
BadCopyExists ==
  /\ pc = "opened" /\ IsV1
  /\ copies[now] # "none"
  /\ pc' = "copied"
  /\ UNCHANGED <<old, outcome, file, copies, now, faults, copyAt, served>>

\* Backup: "backup %s already exists", and Run returns.
CopyExists ==
  /\ pc = "opened" /\ IsV1
  /\ copies[now] # "none"
  /\ pc' = "down"
  /\ UNCHANGED <<old, outcome, file, copies, now, faults, copyAt, served>>

EndCopy ==
  /\ pc = "copying"
  /\ copies' = [copies EXCEPT ![copyAt] = "whole"]
  /\ pc' = "copied"
  /\ UNCHANGED <<old, outcome, file, now, faults, copyAt, served>>

\* Import commits: the migrations and the rows come in one transaction.
Convert ==
  /\ pc = "copied" /\ outcome # None
  /\ file' = [V2File(Migrations) EXCEPT !.tables = outcome]
  /\ pc' = "migrating"
  /\ UNCHANGED <<old, outcome, copies, now, faults, copyAt, served>>

\* Import rolls back, and Run returns.
RefuseToConvert ==
  /\ pc = "copied" /\ outcome = None
  /\ pc' = "down"
  /\ UNCHANGED <<old, outcome, file, copies, now, faults, copyAt, served>>

\* Mutant: every migration is applied at every start.
BadPending == 1 .. Migrations

Pending == (1 .. Migrations) \ ToSet(file.migrations)

\* Migrate: the next pending one and its row in schema_migrations, in a
\* transaction of its own.
ApplyMigration ==
  /\ pc = "migrating"
  /\ Pending # {}
  /\ LET next == CHOOSE m \in Pending : \A n \in Pending : m <= n
     IN file' = [file EXCEPT !.migrations = Append(@, next)]
  /\ UNCHANGED <<old, outcome, copies, now, faults, pc, copyAt, served>>

Migrated ==
  /\ pc = "migrating" /\ Pending = {}
  /\ pc' = "wired"
  /\ UNCHANGED <<old, outcome, file, copies, now, faults, copyAt, served>>

Listen ==
  /\ pc = "wired"
  /\ pc' = "serving"
  /\ UNCHANGED <<old, outcome, file, copies, now, faults, copyAt, served>>

\* Any step fails on its own account (the disk, a signal that ends the
\* context, a configuration that cannot be used, the port): the transaction
\* rolls back, the part of a copy there is may stay, and Run returns.
Fail ==
  /\ pc \in Starting
  /\ faults < MaxFaults /\ now < MaxNow
  /\ faults' = faults + 1
  /\ copies' \in {copies} \cup
       (IF pc = "copying" THEN {[copies EXCEPT ![copyAt] = "none"]} ELSE {})
  /\ pc' = "down"
  /\ UNCHANGED <<old, outcome, file, now, copyAt, served>>

---------------------------------------------------------------------------
(* Serving *)

Request(c) ==
  /\ pc = "serving" /\ conn[c] = "none"
  /\ conn' = [conn EXCEPT ![c] = "request"]
  /\ UNCHANGED <<old, outcome, file, copies, now, faults, pc, copyAt, asking, sockets, closing, timedOut>>

\* An ordinary request, or a socket for a retro that is not there.
Respond(c) ==
  /\ conn[c] = "request" /\ pc # "down"
  /\ conn' = [conn EXCEPT ![c] = "none"]
  /\ UNCHANGED <<old, outcome, file, copies, now, faults, pc, copyAt, asking, sockets, closing, timedOut>>

\* websocket.Accept: from here on net/http does not track the connection.
Hijack(c) ==
  /\ conn[c] = "request" /\ pc # "down"
  /\ conn' = [conn EXCEPT ![c] = "hijacked"]
  /\ UNCHANGED <<old, outcome, file, copies, now, faults, pc, copyAt, asking, sockets, closing, timedOut>>

\* a.sockets.Add(1)
Count(c) ==
  /\ conn[c] = "hijacked" /\ pc # "down"
  /\ conn' = [conn EXCEPT ![c] = "counted"]
  /\ sockets' = sockets + 1
  /\ UNCHANGED <<old, outcome, file, copies, now, faults, pc, copyAt, asking, closing, timedOut>>

\* Mutant: a plain go statement, so the wait group knows nothing of it.
BadAsk(c) ==
  /\ conn[c] = "counted" /\ c \notin asking /\ pc # "down"
  /\ asking' = asking \cup {c}
  /\ UNCHANGED <<old, outcome, file, copies, now, faults, pc, copyAt, conn, sockets, closing, timedOut>>

\* a.sockets.Go: an AI request in a goroutine of its own.
Ask(c) ==
  /\ conn[c] = "counted" /\ c \notin asking /\ pc # "down"
  /\ asking' = asking \cup {c}
  /\ sockets' = sockets + 1
  /\ UNCHANGED <<old, outcome, file, copies, now, faults, pc, copyAt, conn, closing, timedOut>>

\* The AI request is answered, or its context ends with the handler's.
Answer(c) ==
  /\ c \in asking /\ pc # "down"
  /\ asking' = asking \ {c}
  /\ sockets' = sockets - 1
  /\ UNCHANGED <<old, outcome, file, copies, now, faults, pc, copyAt, conn, closing, timedOut>>

\* Mutant: the handler returns without sockets.Done.
BadLeave(c) ==
  /\ conn[c] = "counted" /\ pc # "down"
  /\ conn' = [conn EXCEPT ![c] = "none"]
  /\ UNCHANGED <<old, outcome, file, copies, now, faults, pc, copyAt, asking, sockets, closing, timedOut>>

\* The handler returns: the browser went away, or the closing channel ended
\* its context.
Leave(c) ==
  /\ conn[c] = "counted" /\ pc # "down"
  /\ conn' = [conn EXCEPT ![c] = "none"]
  /\ sockets' = sockets - 1
  /\ UNCHANGED <<old, outcome, file, copies, now, faults, pc, copyAt, asking, closing, timedOut>>

---------------------------------------------------------------------------
(* Shutting down *)

\* The context of Run ends; srv.Shutdown lets nobody new in.
Signal ==
  /\ pc = "serving"
  /\ pc' = "stopping"
  /\ UNCHANGED <<old, outcome, file, copies, now, faults, copyAt, served>>

\* The function given to RegisterOnShutdown, in a goroutine of its own.
CloseChannel ==
  /\ pc \in Ending /\ ~closing
  /\ closing' = TRUE
  /\ UNCHANGED <<old, outcome, file, copies, now, faults, pc, copyAt, conn, asking, sockets, timedOut>>

Deadline ==
  /\ pc \in Ending /\ ~timedOut
  /\ timedOut' = TRUE
  /\ UNCHANGED <<old, outcome, file, copies, now, faults, pc, copyAt, conn, asking, sockets, closing>>

\* Mutant: Shutdown is given a context that never ends.
BadShutdownReturns ==
  /\ pc = "stopping"
  /\ \A c \in Conns : conn[c] # "request"
  /\ pc' = "waiting"
  /\ UNCHANGED <<old, outcome, file, copies, now, faults, copyAt, served>>

\* srv.Shutdown: no request is left that it tracks, or the time is up.
ShutdownReturns ==
  /\ pc = "stopping"
  /\ timedOut \/ \A c \in Conns : conn[c] # "request"
  /\ pc' = "waiting"
  /\ UNCHANGED <<old, outcome, file, copies, now, faults, copyAt, served>>

\* a.sockets.Wait() returns or the time is up; Run returns and its deferred
\* d.Close() runs.
CloseDatabase ==
  /\ pc = "waiting"
  /\ timedOut \/ sockets = 0
  /\ pc' = "closed"
  /\ UNCHANGED <<old, outcome, file, copies, now, faults, copyAt, served>>

Exit ==
  /\ pc = "closed"
  /\ pc' = "down"
  /\ Forget
  /\ UNCHANGED <<old, outcome, file, copies, now, faults, copyAt>>

---------------------------------------------------------------------------
(* The world *)

\* The process is killed.
Crash ==
  /\ pc # "down"
  /\ faults < MaxFaults /\ now < MaxNow
  /\ faults' = faults + 1
  /\ pc' = "down"
  /\ Forget
  /\ UNCHANGED <<old, outcome, file, copies, now, copyAt>>

Tick ==
  /\ now < MaxNow
  /\ now' = now + 1
  /\ UNCHANGED <<old, outcome, file, copies, faults, pc, copyAt, served>>

StartUp ==
  \/ Open \/ NotV1 \/ BeginCopy \/ CopyExists \/ EndCopy \/ Convert
  \/ RefuseToConvert \/ ApplyMigration \/ Migrated \/ Listen

ShutDown == CloseChannel \/ Deadline \/ ShutdownReturns \/ CloseDatabase \/ Exit

Serve(c) ==
  \/ Request(c) \/ Respond(c) \/ Hijack(c) \/ Count(c)
  \/ Ask(c) \/ Answer(c) \/ Leave(c)

Next ==
  \/ StartUp \/ Fail
  \/ \E c \in Conns : Serve(c)
  \/ Signal \/ ShutDown
  \/ Crash \/ Tick

\* Run goes on from step to step, the deadline passes, time does not stand
\* still, and whoever runs the server starts it again when it has stopped.
\* Once the channel is closed the context of a socket's handler has ended, and
\* with it what it waits for.  Nothing makes a request or a signal come.
Fairness ==
  /\ WF_vars(StartUp) /\ WF_vars(ShutDown) /\ WF_vars(Tick)
  /\ \A c \in Conns : WF_vars(closing /\ (Leave(c) \/ Answer(c)))

Spec == Init /\ [][Next]_vars /\ Fairness

---------------------------------------------------------------------------
Processes == {"down", "serving", "closed"} \cup Starting \cup Ending

\* What is served is only there while a process serves; the wait group counts
\* the sockets and the AI requests there are, and no request alone.
TypeOK ==
  /\ pc \in Processes
  /\ now \in 0 .. MaxNow /\ copyAt \in 0 .. MaxNow /\ faults \in 0 .. MaxFaults
  /\ copies \in [0 .. MaxNow -> {"none", "partial", "whole"}]
  /\ conn \in [Conns -> {"none", "request", "hijacked", "counted"}]
  /\ sockets = Cardinality({c \in Conns : conn[c] = "counted"}) + Cardinality(asking)
  /\ IsV1 => file = V1File(old)

\* "v2 copies your v1 database, converts it": however often starting up was
\* interrupted, a file that is v2 and was v1 has a whole copy of v1 beside it.
CopyFirst ==
  (old # None /\ ~IsV1) => \E s \in 0 .. MaxNow : copies[s] = "whole"

\* "applies each *.sql file once, in name order": after any number of starts
\* and crashes, and there is no serving before the last one.
SchemaInOrder ==
  /\ \A i \in DOMAIN file.migrations : file.migrations[i] = i
  /\ pc \in {"serving", "closed"} \cup Ending => Len(file.migrations) = Migrations

WasV1 == old # None /\ ~IsV1

Imported == INSTANCE RetroBoard WITH
  Users <- Users \cup {Someone}, Groups <- GroupIds,
  Texts <- {Text}, Titles <- {Untitled},
  MinColumns <- 0, MaxColumns <- Cardinality(Columns), DefaultVotes <- MinVotes,
  stage <- file.tables.stage, maxVotes <- file.tables.maxVotes,
  spotlight <- [r \in Retros |-> None], column <- file.tables.column,
  group <- file.tables.group, note <- file.tables.note, vote <- file.tables.vote,
  reaction <- file.tables.reaction

\* A converted database is in order as RetroBoard keeps one: its tables have
\* the types of the store's, there is all that Store.Check looks for, and no row
\* refers to anything or anybody unknown.
\* A group is in a column of its own retro if v1's notes were: importNotes asks
\* no more of a column than that it is there.
ImportedHealthy ==
  WasV1 =>
    /\ Imported!TypeOK
    /\ Imported!GroupsHaveNotes /\ Imported!NotesInGroups
    /\ Imported!VotesOnGroups /\ Imported!SpotlightOnGroup /\ Imported!ReactionsOnNotes
    /\ \A g \in GroupIds : file.tables.group[g] # None =>
         file.tables.column[file.tables.group[g].column] # None
    /\ OwnColumns(old) => Imported!GroupsInColumns
    /\ NoStrangers(file.tables)

\* The conversion keeps groups together and apart, and every vote on its group.
\* The summary it logs accounts for every row, but for the tags of retros that
\* are gone: importTags leaves those out and counts them nowhere.
ImportAddsUp ==
  WasV1 => /\ CompanyKept(old, file.tables)
           /\ VotesStayed(old, file.tables)
           /\ OnlyTagsUncounted(old, file.tables)

\* "sockets counts the work it waits for before the database closes": unless
\* the time was up, no handler and no AI request that was at work is cut off.
WorkEndsFirst ==
  [][(pc = "waiting" /\ pc' = "closed" /\ ~timedOut) =>
       asking = {} /\ \A c \in Conns : conn[c] # "counted"]_vars

\* A server told to stop does, whatever its browsers and requests do.
Stops == pc = "stopping" ~> pc = "down"

\* A v1 database with nothing wrong but dangling rows is converted and served
\* in the end, whatever failures and crashes interrupted earlier starts and
\* whatever they left behind.
Upgrades == (old # None /\ Sane(old)) => <>(pc = "serving" /\ ~IsV1)
=============================================================================
