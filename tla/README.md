# Thoughts in TLA+

Thoughts is a retrospective board: people join a retro in their browsers, write
notes in columns, group them, vote on the groups and discuss them. It is one Go
process over one SQLite database, with a TypeScript UI that keeps a websocket
open to it. This directory holds TLA+ modules of its logic, the TLC
configurations that check them and proofs for TLAPS.

- [The system](#the-system): components, state, operations, what is hard
- [The modules](#the-modules): how state and actions correspond to the code
- [The runs](#the-runs): what is checked, with which bounds and fairness
- [The proofs](#the-proofs): what holds for every instance
- [What the checks found](#what-the-checks-found)
- [The plan](#the-plan) and [what is not modelled](#what-is-not-modelled)

## The system

| component | state | operations | what makes it correct |
|---|---|---|---|
| Board store (`internal/store/board.go`, `retros.go`, `migrations/0002`) | tables `retros`, `columns`, `groups`, `notes`, `votes`, `reactions` | create, settings, stages, columns; add, edit, delete, move notes; name groups; vote, react | no empty groups, no row of one retro refers to another's, votes neither made nor lost, notes fixed while voting |
| Facilitation (`facilitation.go`, `migrations/0004`) | `timer_ends_at`, `timer_left`, `ready`, `spotlight_group_id` | start, add, pause, resume, clear; ready; spotlight | the two timer columns agree, pausing loses no time, ready is per stage, no spotlight on a group that is gone |
| Actions and teams (`board.go`, `facilitation.go`, `teams.go`) | `actions`, `teams`, `retros.team_id` | add, update, done, delete, close earlier; create team | an action is carried into one later retro, from an earlier one of its team |
| Live rooms (`internal/live`) | `Hubs` (hub and reference count per retro), `Hub` (clients, version), `Client` (buffer, gone) | Acquire, release, Join, Leave, Update, Broadcast | one room per retro, frames in order, nobody blocks the room |
| Socket handler and write loop (`internal/server/socket.go`) | per connection: context, client, two goroutines | read, run a command, deliver the reply; write, ping, close | the reply follows the board it is about; both goroutines end with the connection |
| Browser socket (`ui/src/lib/socket.ts`) | last version, board, people, commands waiting | connect, receive, send, back off | a screen never goes back, and catches up |
| Suggestions (`server/ai.go`, `store/suggestions.go`) | `ai_suggestions`, `aiBusy` | ask, save, take, take one item, apply | an item is applied once, under the rules of the stage |
| Projection (`server/board.go`) | none | what of the board each person is sent | hidden notes and votes do not show through, nothing is left out or counted twice |
| Sessions (`store/users.go`, `server/session.go`, `auth/oidc.go`) | `users`, `identities`, `sessions`, flows in memory, cookies | sign in by form and by redirect, look up, sign out, adopt a v1 cookie | one user per provider and subject; a browser is only taken for who signed in at it; a flow signs in once |
| Ids (`store/store.go`) | last millisecond and counter | `newID` | strictly increasing |
| Start-up (`server.Run`, `v1import`, `db`) | the database file and its backup | back up, convert, migrate | v1 or v2 as a whole at every crash, a copy first, nothing mixed up, or lost unless it is said so |
| Shutdown (`server.Run`) | closing channel, wait group | close, wait, time out | it ends, and no work that is counted is cut off before the deadline |

How they interact: an HTTP handler or a command on a socket calls the store,
which runs each operation in a transaction. There is a single database
connection (`db.Open` sets `SetMaxOpenConns(1)`), so transactions are serial. A
command runs inside `Hub.Update`, under the hub's lock: the transaction, the
load of the whole board, and the send of everyone's projection to buffered
channels. A write loop for each connection takes frames from its channel to the
socket. A client whose channel is full is dropped and connects again; nothing
is sent twice, a new connection starts with a snapshot.

What is hard about it, and is hard to test:

- long sequences of legal commands over the tables: groups are emptied, merged
  and re-created while votes, a spotlight and other retros refer to them, and
  stages go back as well as forward;
- three goroutines per connection (handler, write loop, whoever sends through
  the hub) with a buffer that fills up, a lock, a cancelled context and a socket
  that closes at any moment, and a room that is forgotten and made again;
- versions that start again with every room and every connection;
- operations in two steps: a command that commits and a board that is then not
  loaded, the list of people that is read and then broadcast, a suggestion
  read, taken and then applied step by step;
- AI requests that go on for minutes beside everything else, and outlive the
  room they were made in;
- requests of one browser that overlap, and whose cookies arrive in any order;
- v1 rows that refer to what is gone, and a start that is interrupted anywhere;
- numbers at their limits: the vote limit lowered, the timer past an hour,
  ids in one millisecond.

`PROJECT.json` lists each as a hazard, at its line, with the properties that
look for it.

## The modules

| module | models | kind |
|---|---|---|
| `RetroBoard` | the store of the board and the spotlight | detailed |
| `Ballot` | what the store promises about votes | abstract |
| `Facilitation` | the timer and the ready marks | detailed |
| `Room` | hubs, handlers, write loops and browsers of one retro | detailed, composed |
| `Feed` | what a room promises a browser | abstract |
| `Presence` | who is shown as present | detailed |
| `Actions` | actions, teams and last time | detailed |
| `Projection` | what each person is sent of the board, over the tables of `RetroBoard` | operators and their properties |
| `Suggestions` | AI requests, suggestions and applying them, over the store of `RetroBoard` | detailed, composed |
| `Sessions` | users, sessions, cookies and sign-in flows | detailed |
| `Import` | the conversion of a v1 database, as operators | pure algorithm |
| `Server` | start-up, serving and shutdown of a process, with `Import` | detailed, composed |
| `Ids` | `newID` | detailed |
| `MCRetroBoard`, `MCRoom`, `MCActions`, `MCSuggestions`, `MCSessions`, `MCServer` | the symmetry and the inputs of TLC's instances | |
| `RetroBoardProofs` | theorems about `RetroBoard`, its refinement of `Ballot`, and `Projection` | proofs |
| `Induction` | induction and loops, for the proofs about recursive functions | lemmas |
| `FacilitationProofs`, `ActionsProofs`, `RoomProofs`, `SuggestionsProofs`, `SessionsProofs`, `ServerProofs` | theorems about the module each is named for; those of `Ids` are at the end of `ActionsProofs` | proofs |

Operators whose names begin with `Bad` stand beside the definition they vary:
each is a plausible bug of that code, and shows that the properties would
notice.

### RetroBoard

A table is a function from ids to rows or `None`. One action stands for one
method of `Store`, transaction and cascades included; a method that reports a
problem rolls back and is no step. `MoveNote` is two actions, to a group and to
a column, as its arguments are; both end in `Rehome`, its last two statements,
where `leaveGroup` hands a group's votes on with its last note. `CastVote` is
`VoteOn` and `TakeBackVote`. `DeleteGroups` is what `ON DELETE` of the schema
does. `Used` is the `SUM(count)` of the code, counted as the cardinality of the
set of a person's dots, which needs no recursion and can be proved about.
Abstracted: titles, tags and content (a few values), positions within a
column, timestamps, and the caller's permissions (there are none beyond
authorship; anyone signed in may run a retro). Ids are reused once no row has
them; `newID` never does that, so the model allows more than the code, and
`Healthy` shows that no row still refers to a reused id.

### Ballot

Each person has a number of votes in use. It changes by one, by their own vote,
while voting and up to the limit of that moment; deleting a note while notes
are being arranged may take votes with it. Moving, merging and naming do not
exist here. `RetroBoard!ImplementsBallot` is the refinement: `used` is mapped
to `Used`, the stages `reflect` and `group` to one phase, so every move of a
note has to be a stutter.

### Facilitation

The timer is kept as the database keeps it: `timer_ends_at` and `timer_left`.
`Tick` is the clock; `UpdateTimer` writes both columns, as `updateTimer` does.
`Horizon` bounds the clock and every end of a timer.

### Room and Feed

One retro, its entry in `Hubs`, every hub there ever was for it, and for each
connection the handler (`pc`), the write loop (`writer`), the client's buffer
(`send`, `gone`), the context (`cancelled`) and the socket (`open`). `inbox`
counts commands sent and not read. A frame carries its type, the hub's version
and how many changes the board in it includes. Steps under one lock are one
action: `Update` is a command, the load and the sends; `Join` is the snapshot
and the first frame. Between them anything may happen. `Leave` is the return of
the handler as far as `Hub.Leave`; `AnnounceLeft`, `Release`, `Cancel` and the
end of the handler are the deferred calls in their order. `Close` is what
`onclose` does in the browser and `Receive` what `onmessage` does. `SendTo` is
the send that never blocks, `Deliver` the one that does.
`UpdateUnrendered` is the command that commits and whose board is not loaded.
What a connection leaves behind once it is over is cleared, to keep the state
space small; nothing reads it.

`Feed` says that a browser shows boards the retro really had, each later than
the one before. `Room!ImplementsFeed` is `Feed!Spec` over the same two variables.

### Presence

Only the handlers' announcements: `Hub.People` and `Hub.Broadcast` are two
steps, as each takes the lock for itself. Buffers never fill up here. It is a
module of its own since lists of people would multiply Room's states.

### Actions

Retros with the second they were created in and their team, and the rows of
`actions`. `Earlier` is the condition of the same name in the code, on seconds
and then ids; `FromLastTime` is `earlierAction`, the only actions that "last
time" can act on. `CloseEarlier` is three actions, one per outcome. `AddAction`
and `CarryOver` take an id that was never used, as `newID` gives them.
`CreateRetro` may create a retro with a lower id or an earlier second than one
that is there: both are taken before the transaction begins. `origin` is a
history variable: the action that one was first copied from. Abstracted: names,
slugs and due dates; tags but for the one a team may be made from.

### Projection

`Shown(u, r)` is `project` for a viewer and a retro, put together from
`NoteShown`, `ReactionsShown` and `GroupShown` as the code does. The order of
groups and notes, and what everybody is sent alike (timer, ready marks, team,
last time, actions, suggestions), are left out. `NothingShowsThrough` is
non-interference, step by step: a step that changes only what somebody may not
know leaves their board as it was. It is stated of what people may know
(`TextsKnown`, `VotesKnown`, `ReactionsKnown`), apart from how the board is put
together.
`BoardAddsUp` composes the projection with the store: it is why empty groups
matter.

### Suggestions

An AI request is a process of its own (`request[q]`): `Ask` marks the kind in
`aiBusy` and reads the stage and the groups, `Read` reads the notes and votes
(`Board` is several queries and no lock is held), `Answer` or `AnswerRecap`
keeps what is left of the model's answer, `Fail` is every other end. `Raw` is
what the model says, which may name notes twice or notes that are gone; `Clean`
is what the code keeps of it, its loops as recursive functions (`Kept` and
`KeepNext`, `CleanGroups` and `CleanNext`). `RoomForgotten` sets `room` to
`FALSE`: the lock that request will take is no longer that of the room, so
`LockFree` lets it save beside a command. Such a save comes in the window
between the handler's deferred `release` and its deferred `cancel`.

A command holds the room (`command`): `Click` reads the board and finds the row,
`TakeSuggestion` is the `DELETE ... RETURNING`, `FindItem` and `TakeItem` the
two statements of `TakeSuggestionItem`, and each `Apply...` one step of
`applySuggestion` in its own transaction, or `SkipStep` if `outgrown` says so.
`item` and `step` are where its two loops are, `groupOf` is its map.
`End` may come at any point. `Otherwise` are all other commands that touch what
suggestions are about, by the actions of `RetroBoard` itself. Its tables stay
the tables of `RetroBoard` (`Store == INSTANCE RetroBoard`), so merging,
emptying groups and the guards of stages apply as they do there.
`shown` and `left` are history variables. An item is identified by the id and
the position it was saved under; ids are reused once nothing has them.

### Sessions

A request carries the cookies its browser had when it was sent; it is handled
later (`Handle`), and its response changes the cookies later still (`Arrive`) or
never (`Lose`). A handler is one step, except that `CreateSession` may fail after
`SignIn` has committed (`Admit`). An identity is a provider with a subject:
`AccountSignIn` is LDAP's, `Finish` is the redirect's, and one subject under both
is two users. `Start`, `StartRefused`, `Finish` and `FinishFails` are the two
halves of a redirect sign-in; what the redirect goes to is a source of callbacks
for any flow that was started, in any browser and any number of times. `Expires`
actions are the clock, `Restart` forgets the flows, which are in memory only.
`was`, `signedIn`, `startedBy` and `finished` are history.
Tokens and states come from `rand.Text` and are never met twice.

### Import and Server

`Import` is the conversion as operators on a record of v1 tables. `Placing` is
the loop of `importNotes`, a recursive function of the number of notes it has
been through in their order, with the maps `c.groups` and `used` in its value;
`Placed` is its end. The other tables are set expressions. `IsOldDatabase` is
what v1's schema did enforce, and all that is assumed of a v1 database.
`Fails` collects every error path: a missing table, an unknown status, a time
that cannot be read, a column that comes twice, a key of the schema that would be
broken. `Converted` is the database it commits. `Summary` has the counts of the
code's; `OnlyTagsUncounted` says which of them make up each table of v1 (`Rows`,
`AccountsFor`). Tags are the exception: rows of retros that are gone
(`TagsOfGoneRetros`) are skipped and in no count.

`Server` runs it: `pc` is where `Run` is. Transactions are one step; `VACUUM
INTO` is two, as a crash leaves part of a copy (`copies`). `outcome` is
`Converted(old)`, worked out once, since it depends on `old` alone. Of a
connection there is what shutdown looks at: whether net/http tracks it
(`"request"`), whether it was hijacked, whether the wait group counts it, and
whether an AI request of it is under way. `Crash` and `Fail` end the process,
`Tick` moves the clock that names the copy.

### Ids

`newID` under its lock is one step: the clock is past the last id, or it is not
and the counter goes on, or the counter runs out and a millisecond is borrowed.
The clock is any number at every call. The module has no instance for TLC: the
counter has 4096 values and the clock as many as there are numbers. Its two
properties are proved in `ActionsProofs`.

## The runs

| run | module, config | shows | distinct states |
|---|---|---|---|
| board | `MCRetroBoard`, `MCRetroBoard.cfg` | the store: types, `Healthy`, votes follow the last note, notes stay put, refinement of Ballot; the projection: nothing shows through, boards add up | 85 141 |
| board_limit | `MCRetroBoard`, `MCRetroBoardLimit.cfg` | violated: the vote limit of `Store.Check` | |
| facilitation | `Facilitation`, `Facilitation.cfg` | the timer and ready marks | 332 800 |
| facilitation_addtime | `Facilitation`, `FacilitationAddTime.cfg` | violated: adding time never shortens | |
| room | `MCRoom`, `MCRoom.cfg` | safety of the room, refinement of Feed | 2 155 330 |
| room_live | `Room`, `RoomLive.cfg` | liveness of the room | about 0.5 million |
| room_screens | `MCRoom`, `RoomScreens.cfg` | violated: everyone is sent every change | |
| actions | `MCActions`, `MCActions.cfg` | an action and its copies are one open item that moves forward | 414 034 |
| presence | `Presence`, `Presence.cfg` | violated: everyone is shown as present | |
| lifecycle | `MCServer`, `MCServer.cfg` | copy, conversion and migrations survive interruptions, nothing of a v1 database is mixed up, or left out without being counted but for the tags of retros that are gone, shutting down ends and cuts nothing off | 243 000 |
| sessions | `MCSessions`, `MCSessions.cfg` | a browser is who signed in at it, an identity has one user and a user one identity, flows are used once | 1 041 000 |
| suggestions | `MCSuggestions`, `MCSuggestions.cfg` | no item is lost, taken twice or mistaken for another, whatever happens meanwhile | 482 000 |

Bounds, and why they are enough:

- *board*: two retros with two columns, two notes and three groups: every
  reference can point across retros, two groups merge and split, and a move has
  a spare id to create a group with. Two people with up to two votes each let
  votes stack and be merged onto a group that has some and one that has none;
  both limits (1 and 2) occur, so the limit is raised and lowered. Two texts of
  one rough size show an edit that must stay hidden. `CONSTRAINT Small` leaves
  out states in which several people are in several retros at once, and more
  than one reaction at a time: each retro's votes and texts are its own, and what
  crosses retros is references. A merge involves two groups, so two notes are
  enough; a third would be one more of the same, and every property of this run
  is proved for any number.
- *facilitation*: timers of two to four seconds over twelve seconds: one can be
  started, extended past `MaxTimer`, paused, resumed and run out.
- *actions*: three retros, so that a copy is copied again while its original is
  ticked, unticked or deleted; two seconds, so that some share one and some
  come in the order of time but not of ids; three actions, a line of three or
  two lines; one team, which retros join, leave and join again.
- *room*: two browsers and two connections, so that either both are in the room
  or one comes back (to the same room or a new one); two commands, so that one
  change comes between a snapshot and the next; a buffer of two, so that a
  snapshot and a presence frame already fill it, as 32 do in the code, and
  clients are dropped. With `MaxConns` 2 a browser returns at most once.
- *lifecycle*: v1 databases of two retros and up to three notes, in every way of
  sharing groups, columns and authors that are there or gone, with ids of groups
  that are ids of notes as well; every subset of votes; and databases with one
  thing broken. New files and every older version of v2. Three seconds and a
  fault, so that a start is interrupted once anywhere and the next one comes in
  the same second or a later one; one connection with an AI request, since the
  wait group only adds connections up. Four migrations, as there are.
- *sessions*: two browsers with different people, one with a cookie of v1 whose
  user is there or gone; two requests under way and four in all, so that each of
  two sign-ins is overtaken by another request; two tokens and two states; at
  most one flow in progress, so that the limit is met.
- *suggestions*: three notes and three groups in one column, so that one group
  of three and two groups that both want a note can be suggested; two requests
  for a kind, so that one arrives while an item of the other is taken. One kind
  in a behaviour (`MaxKinds`), as each has its own row and mark, and all four
  are tried. One person, as nothing about a suggestion depends on who applies it.
- *room_live*: the same as *room* with one command, without symmetry, which is
  not sound for liveness.

Symmetry is used where ids are interchangeable: all ids of the board and of
suggestions, tokens, states, new users and requests of sessions, browsers in the
room, actions and teams in the actions run (retros have an order there). Runs
with liveness properties use none. Deadlock is checked in the board,
facilitation, actions, lifecycle and suggestions runs. In the room and presence
runs connections are used once, in the sessions run requests are bounded, and the
system stops when they are used up: `CHECK_DEADLOCK FALSE`. That nothing hangs in
a room before that is what its liveness properties say.

Fairness (`FairSpec` of Room): each handler is a goroutine, as is each write
loop, and Go's scheduler runs a goroutine that can run; mutexes are starvation
free. Weak fairness of `Handler(c)` and of `Write(c) \/ WriterStops(c)` says no
more; in particular `select` may always prefer one ready channel over another.
The write to the socket itself ends: it has a timeout (`writeWait`), which is
`Hangup`. Nobody is obliged to connect, send or stay.
`EveryoneCatchesUp` and `ClosedConnectionsEnd` say *eventually always*, since
commands and connections are finite in an instance: once people stop.

Fairness of Server: `Run` is one goroutine that goes on from step to step
(`StartUp`), so are the end of `Run`, the function given to
`RegisterOnShutdown` and the timer of the shutdown context (`ShutDown`); time
goes on (`Tick`); and whoever runs the server starts it again, as `README.md:57`
and `docs/upgrading.md:3` tell them to. Once `closing` is closed a socket's
context has ended and with it what its handler and its AI requests wait for. No
request, signal or answer has to come, and a request may last for ever: `Stops`
then rests on the deadline. `Upgrades` is about v1 databases whose only faults
are rows that point at what is gone (`Sane`), with faults that end: there are at
most `MaxFaults`, and none in the last second there is, since a copy's name is
free again only with time.

## The proofs

`tlapm` proves, for any sets of ids, any limits and any number of steps:

| theorem | property | needs |
|---|---|---|
| `RetroBoardProofs!TypeCorrect` | `TypeOK` | inductive by itself |
| `RetroBoardProofs!AlwaysHealthy` | `Healthy` | `TypeOK /\ Healthy` |
| `RetroBoardProofs!HealthyOnwards` | (`TypeOK /\ Healthy`, from any state in which it holds) | the same |
| `RetroBoardProofs!NotesDoStayPut` | `NotesStayPut` | the same invariant |
| `RetroBoardProofs!VotesDoFollow` | `VotesFollowTheLastNote` | the same invariant |
| `RetroBoardProofs!StoreImplementsBallot` | `ImplementsBallot` | the same, and `Counted` |
| `RetroBoardProofs!VotesWithinCap` | `WithinCap` of Ballot, of the store | the same, and `Counted` |
| `RetroBoardProofs!BoardsAddUp` | `BoardAddsUp` of Projection | `TypeOK /\ Healthy` |
| `RetroBoardProofs!NothingDoesShowThrough` | `NothingShowsThrough` of Projection | the same invariant |
| `FacilitationProofs!TimerIsOneOfThree` | `TypeOK` | inductive by itself |
| `FacilitationProofs!PausingKeeps` | `PausingKeepsTime` | `TypeOK` |
| `FacilitationProofs!RunningLengthens` | `RunningOnlyLengthens` | `TypeOK` |
| `FacilitationProofs!ReadyIsKept` | `ReadyKeptPerStage` | nothing |
| `ActionsProofs!RowsHaveTypes` | `TypeOK` | `Inv` of ActionsProofs |
| `ActionsProofs!NeverOpenTwice` | `OpenOnce` | the same |
| `ActionsProofs!NeverReturns` | `NoReturn` | the same |
| `ActionsProofs!LinksLeadBack` | `CarriedForward` | the same |
| `ActionsProofs!HistoryIsKept` | `HistoryStays` | the same |
| `RoomProofs!RoomTypeCorrect` | `TypeOK` | `Inductive` of RoomProofs |
| `RoomProofs!RoomIsShared` | `OneRoom` | the same |
| `RoomProofs!FramesStayInOrder` | `FramesInOrder` | the same |
| `RoomProofs!AcksComeAfter` | `AckAfterBoard` | the same |
| `RoomProofs!RoomImplementsFeed` | `ImplementsFeed` | the same |
| `SuggestionsProofs!RequestsOneAtATime` | `OneAtATime` | `Requested` |
| `SuggestionsProofs!AnswersAreCleaned` | (what `Clean` keeps of any answer: only notes and groups it was given, none twice, groups of two or more, at most three texts) | `CountingUp` of Induction |
| `SuggestionsProofs!ClicksTakeWhatTheyShow` | `ClickTakesWhatItShows` | `Taking`, `AnswersAreLists` |
| `SuggestionsProofs!ItemsAreTakenOnce` | `EveryItemOnce` | the same |
| `SuggestionsProofs!SuggestionTypes` | `TypeOK` | `Requested`, `Taking`, `AnswersAreLists` |
| `SuggestionsProofs!SuggestionsGroup` | `GroupedAsSuggested` | `Grouping`, `Taking`, `BoardStaysHealthy` |
| `SuggestionsProofs!ApplyingIsCommands` | `Store!Spec` | `TypeOK` of the store, and `Reaches` |
| `SuggestionsProofs!BoardStaysHealthy` | `Store!Healthy` | `ApplyingIsCommands`, `RetroBoardProofs!AlwaysHealthy` |
| `SessionsProofs!SessionsTypeCorrect` | `TypeOK` | `Inductive` of SessionsProofs |
| `SessionsProofs!BrowsersActAsThemselves` | `ActsAsItself` | the same |
| `SessionsProofs!IdentitiesKeepTheirUser` | `OneUserPerIdentity` | the same |
| `SessionsProofs!FlowsSignInOnce` | `FlowsFinishOnce` | the same |
| `ServerProofs!WaitGroupCounts` | `TypeOK` | `Inductive` of ServerProofs |
| `ServerProofs!CopiedFirst` | `CopyFirst` | the same |
| `ServerProofs!MigrationsInOrder` | `SchemaInOrder` | the same |
| `ServerProofs!ClosesAfterWork` | `WorkEndsFirst` | the same |
| `ServerProofs!ConvertedAsAWhole` | (the database is `Converted(old)`) | the same |
| `ServerProofs!ImportsHealthy` | `ImportedHealthy` | `ConvertedAsAWhole`, and `InOrder` of the loop |
| `ServerProofs!ImportsAddUp` | `ImportAddsUp` | the same |
| `ActionsProofs!IdsFit` | `Fits` of Ids | inductive by itself |
| `ActionsProofs!IdsIncrease` | `Increasing` of Ids | `Fits` |

The assumptions are those the modules name: limits and bounds are numbers in the
right order; retros and seconds are numbers, where the code compares them; a
text has one of three rough sizes; `None` (and `Keep`, of Sessions) is nothing
that it stands in for the lack of: no id, row, time, token, state, browser or v1
database. `SuggestionsAssumption` includes the assumptions of the store, whose
constants are its own, and that there is somebody to ask. No set has to be
finite: what is counted is shown to be finite in reachable states.

A v1 database is any that v1's schema allowed (`IsOldDatabase`): notes and tasks
have ids of their own, votes and reactions are sets, and there are finitely many
of each. A model's answer is any list of the kind that was asked for.

### Induction over data

Three parts of the code are loops whose result matters and whose length is not
bounded: `importNotes` over the notes of v1, `cleanGroups` over an answer, and the
loop within it over the notes of a group. The library's induction theorems are
about a formula that is a parameter, which the provers cannot be given.
`Induction` says the same about sets: `CountingUp`, that a set with 0 in it, and
with `i + 1` if `i` is, has every number up to `N`. It follows from `WFMin`, that
of a set of numbers one is the least. The formula is then the set of the numbers
for which it holds. `LoopExists` is that a loop has a course: that there is a
function whose value at 0 is the start and at `i` what body `i` makes of its value
at `i - 1`. It is what lets a recursive function be unfolded (a `CHOOSE` of which
nothing is known before), by taking as the set in `CountingUp` the numbers of
rounds that a course exists for.

### The board

The inductive invariant of the board is `TypeOK /\ Healthy`. Most parts of
`Healthy` are inductive once the types are known. `VotesOnGroups` is not: that
merged votes are on a group of their own retro needs `NotesInGroups` for the
note that was moved, whose group is there and is not the new one. That is also
why the lookup by `retro_id` in `MoveNote` matters, which a mutant leaves out.
A step that changes groups is proved part by part, with lemmas for `Rehome` and
`DeleteGroups`, which several operations share.

`NotesStayPut` is an action property: given the invariant, each operation
either is guarded by a stage in which nothing is fixed, concerns another
retro's rows, or leaves notes and the groups of notes alone. `DeleteColumn` is
the case that needs `GroupsHaveNotes`: a column with no notes has no groups
left.

The refinement of Ballot is about a number, `Used`, which is the size of a set of
pairs, `Dots`: a group, and a number up to its count. Its lemmas are about such
sets in general (`Stacks`): one vote more on one group is one dot more; votes
that shrink leave a subset; and stacking one group's votes onto another's is a
bijection, so a merge leaves the number as it was. `Held` brings each operation
to one of the three. `Counted`, that dots are finite and within `MaxVotesCap`,
comes along, as the size of an infinite set says nothing.

`BoardAddsUp` follows from `TypeOK /\ Healthy` of the state alone: a note shown
twice, or votes left out, would need a group of another retro or one without
notes. `NothingShowsThrough` is proved by showing that every part of the
projection depends on tables only through what its viewer may know
(`TextsKnown`, `VotesKnown`, `ReactionsKnown`): two states that agree on that agree on the board.

### Actions

`OpenOnce` is not inductive: an action that was ticked, so not open, can be
unticked, and a copy of it could be open by then. The invariant of Actions says
why there is none: of a line of copies only the action in the last retro may
still be neither carried nor dropped (`LastIsUnsettled`), ticked or not. Only
that one can be carried, to a retro later still, so the copy is the new last.
`Earlier` is a strict total order on retros (`EarlierOrders`), whatever seconds
and ids there are, which is what makes "last" well defined. With it comes
`LinesAreSpent`: a new action is not in any line that exists.

`IdsIncrease` is what the order of retros within one second rests on
(`Earlier`, in Actions, takes ids as given): for a clock that stands still, jumps
or is set back, and however many ids are asked for.

### The room

`Inductive` of RoomProofs is about any number of connections, and what it adds to
the properties is where everything under way has got to:

- `Tally`: each command that was sent has changed the board, is lost, or is in one
  inbox. So the board counts no more changes than commands were sent, and each
  handler that reads a command has one to make a change of.
- `Rooms`: `refs` is the number of handlers that hold the room (in `OneRoom`),
  these share one hub, and `members` are the ones between `Join` and `Leave`.
- `Sockets`: a browser is at the end of one open connection at most, and forgets
  versions and acks with the last.
- `Behind`: versions, queued boards and what is shown never run ahead of the hub
  and the retro. A frame that `Update` adds is therefore at least as new as what
  waits already, which makes `FramesInOrder` inductive.
- `AcksFollow`: an ack under way comes after a board, queued or shown, that
  includes its change, unless the client was dropped or the connection is ending.
  `AckAfterBoard` alone says nothing of queues, so it does not survive a
  `Receive`; and a full buffer is the case in which the board is missing, which
  is why `gone` has to be part of it.

`ImplementsFeed` then needs only that a frame that is shown has a later version
than the last one and no later board than there is.

### Suggestions

`Requested`: the requests under way are of different kinds, and `aiBusy` is the
set of these kinds.

`Taking` is what the click of somebody who looked at an older suggestion rests on.
Until a command has taken anything, a row with the id it was sent for still has
the items its sender saw (`Aims`); once it has read the row to take one item, the
row under another id has none of the items it read (`Removes`), though another
request may have saved in between without its lock. Both are kept by saving,
since a row's id is unlike every id that rows, items and the command hold
(`NewIdIsNew`), and by taking, which changes the id along with the items.

`ApplyingIsCommands` is a refinement: to the tables of the board, the whole
machinery of asking, taking and applying step by step is a run of
`RetroBoard!Spec`, whatever the model answers. It needs `Reaches`: the groups
that a command remembers are groups. `BoardStaysHealthy` instantiates
`RetroBoardProofs` and carries its theorem over.

`Grouping` is what `GroupedAsSuggested` takes. No note is in two places of the
items there are (`GroupsApart`), which `cleanGroups` sees to with `known`,
`used` and `slices.Contains`: its two loops are proved to (`CleanGroupsApart`). While a command applies them, its `groupOf` is the board
(`BoardAsRead`), since it alone changes notes then; and the notes whose steps
are through are where the first of their item is (`JoinedSoFar`). A move adds to
these one note of one item, so it takes none away from another: without
`GroupsApart` it could, which is the mutant of that property. A step that is
left out (`SkipStep`) is for a note that has gone or is there already, since the
group of a note that is there is there too: that is a part of `Healthy`, and so
the proof rests on `BoardStaysHealthy`.

### Sessions

`CookiesAreTheirs`: the cookies in a browser's jar, in its requests and in the
responses on their way to it are of users who signed in at it, and of flows that
it started, whatever was expired or signed out meanwhile. `IdentityLasts`: a user
who signed in under an identity is that identity's user still, no other identity
has that user, and every identity in the table was signed in under. `FinishedIsOver`: the
state of a flow that signed somebody in is used and belongs to no flow. That
there are never more flows than `MaxFlows` needs that those in progress are
finite (`Types`).

### Start-up and shutdown

`Schema`: the database has a prefix of the migrations, and all of them from the
moment `Run` has applied them; it is v1's, with none, before the conversion. And
if it was v1's it is exactly `Converted(old)`, which did not fail. So
`ImportedHealthy` and `ImportAddsUp` are statements about the operator
`Converted` alone: no crash, retry or later start can come between. They rest on
an invariant of the loop of `importNotes`, `InOrder`: after `i` notes those
among them whose retro is there have a row, in the group that their v1 group has
become; no two v1 groups have become one; every group has a note, whose retro
and column it has; and the rows and the notes left out are `i`. `PlacedInOrder`
is the round that places a note: in the group that is known, or in a new one,
whose id no group had or the schema's key would have failed the transaction.
Votes, tasks, reactions and the counts are then facts about finite sets. The
converted tables have the types of `RetroBoard`'s, so where each v1 note was in
a column of its own retro they are a state from which `HealthyOnwards` holds: an
imported board stays in order as one does that began empty.

`Copying`: the copy that a start goes on from is whole. `WorkEndsFirst` needs
that the wait group counts what there is (`TypeOK`), which a crash resets
together.

### Only model-checked

Every invariant and every action property that a passing run checks, and both
refinements, are proved. What is left to TLC:

- Liveness, as fairness and `ENABLED` are out of the prover's reach:
  `EveryoneCatchesUp`, `ClosedConnectionsEnd`, `Stops`, `Upgrades`.

## What the checks found

Each is a run that is expected to fail, with one property that states what the
repository says of the program.

1. *Vote limit* (`board_limit`). `Store.Check` lists "anyone holding more votes
   than the retro allows" among what should never be true, but `UpdateRetro`
   lowers the limit under votes already cast. Two steps after a vote the check
   fails. What does hold is that nobody passes `MaxVotesCap`
   (`Ballot!WithinCap`, proved of the store as `RetroBoardProofs!VotesWithinCap`).
2. *AddTime* (`facilitation_addtime`). "AddTime lengthens a running or paused
   timer", but a timer extended past an hour and then paused is cut to an hour
   by adding to it.
3. *A change nobody sees* (`room_screens`). A command that commits and whose
   board cannot be loaded any more is answered with an error and broadcast to
   nobody; all screens keep the board from before until the next change.
4. *Presence* (`presence`). Two people who join, or leave, at once can leave
   everybody with the older of two lists, until somebody else comes or goes.
   `live.go:31-33` says of the hub "Its lock serialises every change to the retro,
   so each change and the frames it produces go out in the order they happened",
   and `soak_test.go:111` waits for "both observers to show in presence".

Other things the code does that a reader of its documents might not expect, with
no run of their own:

- `internal/ai/features.go:12` says the model is given "never anything from a
  retro that's still reflecting" and `docs/ai.md:20` says the same. `suggest`
  checks the stage on a board whose tables are read one after the other; if the
  retro goes back to reflecting in between, notes written since are in the prompt.
- `docs/ai.md:27` says a suggestion "can't refer to a note or group that doesn't
  exist". It is checked against the board that was read before the model was
  asked, so it can once the answer is saved; applying it skips such steps
  (`SkipStep`).
- A response that swaps a v1 cookie and arrives after signing out signs the
  browser in again, as the same person; and one that clears a bad session cookie
  may clear the one of a sign-in that was quicker.
- An action that was carried or dropped can still be ticked in its own retro. It
  is then done and closed, where `migrations/0004` has "closed without being
  done".
- A v1 note whose column belongs to another retro keeps it: `importNotes` asks
  only whether there is such a column. Its group is then in one retro and in a
  column of another, which `Store.Check` does not look for. `GroupsInColumns` is
  therefore claimed, and proved, only of v1 databases without such notes
  (`OwnColumns`).
- `docs/upgrading.md:40-42` says of rows that point at something deleted "Those
  are left out and counted in the log line", and `import.go:31-32` that "Dropped
  counts rows v1 had kept after what they pointed at was gone". `importTags`
  (`import.go:491-494`) skips the tags of a retro that is gone without counting
  them. `ImportAddsUp` states the counts as they are, with exactly those rows in
  none.
- A socket that was accepted but is not counted yet when the server has waited
  for those that are meets a closed database.

## The plan

In this order; each module is written to be proved about.

1. Done: `Ballot`, `RetroBoard`, `Facilitation`, `Feed`, `Room`, `Presence`,
   `Actions`, `Projection`, `Suggestions`, `Sessions`, `Import`, `Server`, `Ids`
   and their runs.
2. Done: the proofs above, which are of every invariant and action property and
   both refinements that passing runs check.
3. Rooms of two retros, of which one closes an action of the other and does not
   tell its room.

## What is not modelled

- Rendering, HTTP parsing, exports, keyboard layers and dialogs: they hold no
  shared state.
- The exchange with LDAP, OIDC, AI and GIF services: input and output. To the
  rest they are sources of arbitrary answers, or none.
- Configuration, logging and the embedded UI.
- SQLite itself: a transaction is atomic and the connection is single, as
  `db.Open` sets it up. Backups of a database other than a crash in `VACUUM
  INTO`.
- Titles and descriptions of columns, images, due dates, names of teams: data no
  property tells apart.
