---------------------------- MODULE Suggestions ----------------------------
(***************************************************************************)
(* The AI's suggestions for one retro: asking the model, keeping what it   *)
(* answered, and applying or dismissing that as a whole or item by item    *)
(* (internal/server/ai.go, internal/store/suggestions.go, and the checks   *)
(* on an answer in internal/ai/features.go), over the tables of RetroBoard.*)
(*                                                                         *)
(* Two kinds of process meet here.  A request for a suggestion goes on     *)
(* beside everything else: it reads the board in several queries, waits    *)
(* for the model while people carry on, and takes the lock of its room     *)
(* only to save.  By then the room may have been forgotten and opened      *)
(* again, so that its lock is no longer the one that commands take.        *)
(* A command holds the lock of the room, but commits each of its steps by  *)
(* itself, and may be given up between any two (commandWait, or the        *)
(* connection closes).                                                     *)
(***************************************************************************)
EXTENDS Integers, FiniteSets, SequencesExt

CONSTANTS
  Users, Retros, Columns, Groups, Notes, Texts, Titles, Untitled, Emojis,
  None, MinColumns, MaxColumns, MaxVotesCap, DefaultVotes,
  Here,           \* the retro the suggestions are for
  Suggested,      \* the title the model gives a group
  Requests,       \* requests for a suggestion that can be under way
  RawGroups, RawNames, RawActions,  \* answers the model may give
  MaxAsked,       \* bound on the requests there are for each kind
  MaxKinds        \* bound on the kinds that are ever asked for

VARIABLES
  stage, maxVotes, spotlight, column, group, note, vote, reaction,
  saved,      \* saved[k], the row of ai_suggestions of kind k, or None
  recap,      \* whether the retro has a recap
  busy,       \* aiBusy: the kinds somebody has asked for
  request,    \* request[q], what request q has read
  command,    \* the command that holds the lock of the room
  asked,      \* asked[k], how many requests for kind k there have been
  shown,      \* shown[k], what people have seen under the id that k's row has
  left        \* left[k], the items of the last suggestion of kind k not yet taken

board   == <<stage, maxVotes, spotlight, column, group, note, vote, reaction>>
tables  == <<saved, recap>>
history == <<asked, shown, left>>
vars    == <<board, tables, busy, request, command, history>>

Store == INSTANCE RetroBoard

Kinds  == {"groups", "names", "actions"}
Recap  == "recap"
Whole  == 0

aiStage == [groups |-> Store!Group, names |-> Store!Group,
            actions |-> Store!Discuss, recap |-> Store!Discuss]

\* An item of a suggestion, a row of ai_suggestions, and what a request for one
\* has read.
Item    == [from : Nat, nth : Nat \ {0}, what : Groups \cup Texts \cup Seq(Notes)]
Row     == [id : Nat \ {0}, items : Seq(Item) \ {<<>>}]
Request == [kind : DOMAIN aiStage, room : BOOLEAN, read : BOOLEAN,
            about : (SUBSET Groups) \cup (SUBSET Notes)]

ASSUME SuggestionsAssumption ==
  /\ Here \in Retros /\ Suggested \in Titles /\ MaxAsked \in Nat /\ MaxKinds \in Nat
  /\ Users # {}                              \* somebody asks
  /\ None \notin Row /\ None \notin Request
  \* The model answers with lists, as it is asked to.  What it makes up is as
  \* little known as what is gone.
  /\ RawGroups \subseteq Seq(Seq(Notes)) /\ RawNames \subseteq Seq(Groups)
  /\ RawActions \subseteq Seq(Texts)
  /\ Store!LimitsAssumption /\ Store!RowsAssumption

---------------------------------------------------------------------------
(* What the model is asked about, and what is kept of its answer *)

\* The groups that questions of kind k may be about: to be named are those
\* without a title.  Suggesting groups, and the recap, keep none.
Titled(k) ==
  {g \in Groups : /\ Store!GroupIn(Here, g)
                  /\ \/ k = "actions"
                     \/ k = "names" /\ group[g].title = Untitled}

HasVotes(g) == \E u \in Users : vote[g][u] # None

\* notesFor, groupsFor and topGroups, of the groups read before.
About(k, groups) ==
  CASE k = "groups" -> {n \in Notes : Store!NoteIn(Here, n)}
    [] k = "names"  -> {g \in groups : Cardinality(Store!NotesIn(note, g)) > 1}
    [] OTHER        -> {g \in groups : Store!NotesIn(note, g) # {} /\ HasVotes(g)}

\* One more of what was named, if it is known and was not kept before.
KeepNext(kept, x, known) ==
  IF x \in known /\ x \notin ToSet(kept) THEN Append(kept, x) ELSE kept

\* What is known of the list s, each once, in its order.
Kept(s, known) ==
  LET kept[i \in 0 .. Len(s)] ==
        IF i = 0 THEN <<>> ELSE KeepNext(kept[i - 1], s[i], known)
  IN kept[Len(s)]

\* Mutant: a note that one group has claimed may be claimed by another.
BadUsed(groups) == {}

\* The notes that the groups have claimed.
Used(groups) == UNION {ToSet(groups[i]) : i \in DOMAIN groups}

\* One more group, of its notes that are left, if that is at least two.
CleanNext(groups, g, known) ==
  LET ns == Kept(g, known \ Used(groups))
  IN IF Len(ns) < 2 THEN groups ELSE Append(groups, ns)

\* Groups of at least two notes that exist, each note in the first group that
\* claims it.
CleanGroups(raw, known) ==
  LET groups[i \in 0 .. Len(raw)] ==
        IF i = 0 THEN <<>> ELSE CleanNext(groups[i - 1], raw[i], known)
  IN groups[Len(raw)]

\* Three actions at most, to a question about at least one group.
DraftActions(raw, known) ==
  IF known = {} THEN <<>> ELSE SubSeq(raw, 1, IF Len(raw) < 3 THEN Len(raw) ELSE 3)

Raw(k) == CASE k = "groups" -> RawGroups [] k = "names" -> RawNames
            [] k = "actions" -> RawActions [] OTHER -> {<<>>}

Clean(k, raw, known) ==
  CASE k = "groups" -> CleanGroups(raw, known)
    [] k = "names"  -> Kept(raw, known)
    [] OTHER        -> DraftActions(raw, known)

\* An item, told from every other by where it stood when it was saved.
ItemsOf(id, payload) ==
  [i \in DOMAIN payload |-> [from |-> id, nth |-> i, what |-> payload[i]]]

\* newID repeats no id.  The model takes any that nothing has now: people may
\* still send one from before, which finds nothing either way.
newID ==
  LET items == (UNION {ToSet(saved[k].items) : k \in {j \in Kinds : saved[j] # None}})
                 \cup (IF command = None THEN {} ELSE ToSet(command.items))
      inUse == {saved[k].id : k \in {j \in Kinds : saved[j] # None}}
                 \cup {x.from : x \in items}
                 \cup (IF command = None THEN {} ELSE {command.id})
  IN CHOOSE i \in 1 .. Cardinality(inUse) + 1 : i \notin inUse

---------------------------------------------------------------------------
(* A request for a suggestion: ai.go's suggest *)

Init ==
  /\ Store!Init
  /\ saved = [k \in Kinds |-> None]
  /\ recap = FALSE
  /\ busy = {}
  /\ request = [q \in Requests |-> None]
  /\ command = None
  /\ asked = [k \in DOMAIN aiStage |-> 0]
  /\ shown = [k \in Kinds |-> {}]
  /\ left = [k \in Kinds |-> {}]

WithinBounds(k) ==
  /\ asked[k] < MaxAsked
  /\ Cardinality({j \in DOMAIN aiStage : asked[j] > 0} \cup {k}) <= MaxKinds

\* Mutant: whether somebody is waiting for that kind already is not looked at.
BadAsk(q, k) ==
  /\ request[q] = None /\ WithinBounds(k)
  /\ stage[Here] = aiStage[k]
  /\ busy' = busy \cup {k}
  /\ asked' = [asked EXCEPT ![k] = @ + 1]
  /\ request' = [request EXCEPT ![q] =
       [kind |-> k, room |-> TRUE, read |-> FALSE, about |-> Titled(k)]]
  /\ UNCHANGED <<board, tables, command, shown, left>>

\* LoadOrStore, and Board as far as the stage and the groups.
Ask(q, k) ==
  /\ request[q] = None /\ WithinBounds(k)
  /\ k \notin busy
  /\ stage[Here] = aiStage[k]
  /\ busy' = busy \cup {k}
  /\ asked' = [asked EXCEPT ![k] = @ + 1]
  /\ request' = [request EXCEPT ![q] =
       [kind |-> k, room |-> TRUE, read |-> FALSE, about |-> Titled(k)]]
  /\ UNCHANGED <<board, tables, command, shown, left>>

\* The rest of Board, the notes and votes: outside the lock, so of later.
Read(q) ==
  /\ request[q] # None /\ ~request[q].read
  /\ request' = [request EXCEPT ![q].read = TRUE,
                                ![q].about = About(request[q].kind, @)]
  /\ UNCHANGED <<board, tables, busy, command, history>>

\* The request is over; its mark is taken away whatever came of it.
Over(q) ==
  /\ busy' = busy \ {request[q].kind}
  /\ request' = [request EXCEPT ![q] = None]

\* The lock of q's room: nobody else's once that room was forgotten.
LockFree(q) == ~request[q].room \/ command = None

SaveSuggestion(k, payload) ==
  LET items == ItemsOf(newID, payload)
  IN /\ saved' = [saved EXCEPT ![k] = [id |-> newID, items |-> items]]
     /\ shown' = [shown EXCEPT ![k] = {items}]
     /\ left' = [left EXCEPT ![k] = ToSet(items)]

\* The model answers, and what is left of the answer is saved.
Answer(q, raw) ==
  LET payload == Clean(request[q].kind, raw, request[q].about)
  IN /\ request[q] # None /\ request[q].read /\ request[q].kind # Recap
     /\ payload # <<>>
     /\ LockFree(q)
     /\ SaveSuggestion(request[q].kind, payload)
     /\ Over(q)
     /\ UNCHANGED <<board, recap, command, asked>>

AnswerRecap(q) ==
  /\ request[q] # None /\ request[q].read /\ request[q].kind = Recap
  /\ LockFree(q)
  /\ recap' = TRUE
  /\ Over(q)
  /\ UNCHANGED <<board, saved, command, history>>

\* Mutant: the mark is taken away at the end of suggest, not deferred.
BadFail(q) ==
  /\ request[q] # None
  /\ request' = [request EXCEPT ![q] = None]
  /\ UNCHANGED <<board, tables, busy, command, history>>

\* An error of the model or the store, two minutes without an answer, an
\* answer with nothing in it, or the connection of whoever asked is over.
Fail(q) ==
  /\ request[q] # None
  /\ Over(q)
  /\ UNCHANGED <<board, tables, command, history>>

\* Everyone leaves and the room is forgotten: those who come next have another.
RoomForgotten ==
  /\ command = None
  /\ \E q \in Requests : request[q] # None /\ request[q].room
  /\ request' = [q \in Requests |-> IF request[q] = None THEN None
                                    ELSE [request[q] EXCEPT !.room = FALSE]]
  /\ UNCHANGED <<board, tables, busy, command, history>>

---------------------------------------------------------------------------
(* ai.apply and ai.dismiss, under the lock of the room *)

RowOf(id) == {k \in Kinds : saved[k] # None /\ saved[k].id = id}

\* What the steps of an item are: the notes after the first join its group,
\* which then gets the title.
Steps(k, item) ==
  CASE k = "groups" ->
         [i \in 1 .. Len(item.what) |->
            IF i < Len(item.what)
            THEN [do |-> "move", note |-> item.what[i + 1], with |-> item.what[1]]
            ELSE [do |-> "title", with |-> item.what[1]]]
    [] k = "names" -> <<[do |-> "name", group |-> item.what]>>
    [] OTHER       -> <<[do |-> "add"]>>

\* groupOf of the board that applySuggestion has read.
GroupOf == [n \in {m \in Notes : Store!NoteIn(Here, m)} |-> note[n].group]

\* Somebody applies or dismisses item i, or all, of what they see under the id
\* of k's row; any other id finds nothing.
\* The board is read, for the row and, to apply it, the stage and the groups.
Click(k, saw, i, apply) ==
  /\ command = None
  /\ saved[k] # None
  /\ apply => stage[Here] = aiStage[k]
  /\ command' = [at |-> "take", id |-> saved[k].id, saw |-> saw, nth |-> i, kind |-> k,
                 apply |-> apply, items |-> <<>>, item |-> 1, step |-> 1,
                 groupOf |-> IF apply /\ k = "groups" THEN GroupOf ELSE <<>>]
  /\ UNCHANGED <<board, tables, busy, request, history>>

\* The command goes on with the items it took.
Take(items) ==
  /\ left' = [left EXCEPT ![command.kind] = @ \ ToSet(items)]
  /\ command' = [command EXCEPT !.at = "apply", !.items = items]

\* Mutant: a row with nothing left in it stays.
BadPutBack(k, rest) ==
  /\ saved' = [saved EXCEPT ![k] = [id |-> newID, items |-> rest]]
  /\ shown' = [shown EXCEPT ![k] = {rest}]

\* The row of kind k becomes what is left, under a new id.
PutBack(k, rest) ==
  IF rest = <<>>
  THEN /\ saved' = [saved EXCEPT ![k] = None]
       /\ shown' = [shown EXCEPT ![k] = {}]
  ELSE /\ saved' = [saved EXCEPT ![k] = [id |-> newID, items |-> rest]]
       /\ shown' = [shown EXCEPT ![k] = {rest}]

\* DELETE ... RETURNING, of a row that may have been replaced meanwhile.
TakeSuggestion ==
  /\ command # None /\ command.at = "take" /\ command.nth = Whole
  /\ \E k \in RowOf(command.id) :
       /\ Take(saved[k].items)
       /\ PutBack(k, <<>>)
  /\ UNCHANGED <<board, recap, busy, request, asked>>

\* TakeSuggestionItem's SELECT.
FindItem ==
  /\ command # None /\ command.at = "take" /\ command.nth # Whole
  /\ \E k \in RowOf(command.id) :
       /\ command.nth \in DOMAIN saved[k].items
       /\ command' = [command EXCEPT !.at = "remove", !.items = saved[k].items]
  /\ UNCHANGED <<board, tables, busy, request, history>>

\* Mutant: what is left keeps the id.
BadLeave(rest) ==
  LET k == command.kind
  IN IF rest = <<>> \/ RowOf(command.id) = {} THEN PutBack(k, rest)
     ELSE /\ saved' = [saved EXCEPT ![k].items = rest]
          /\ shown' = [shown EXCEPT ![k] = @ \cup {rest}]

\* Mutant: what is left is written to the row of that retro and kind.
BadLeaveByKind(rest) == PutBack(command.kind, rest)

\* TakeSuggestionItem's DELETE, or its UPDATE to a new id, of the row with the
\* id it read: of none if that was replaced.
Leave(rest) ==
  IF RowOf(command.id) = {} THEN UNCHANGED <<saved, shown>>
                            ELSE PutBack(command.kind, rest)

TakeItem ==
  /\ command # None /\ command.at = "remove"
  /\ Take(<<command.items[command.nth]>>)
  /\ Leave(RemoveAt(command.items, command.nth))
  /\ UNCHANGED <<board, recap, busy, request, asked>>

\* There is no such row, or no such item in it any more.
NothingToTake ==
  /\ command # None /\ command.at = "take"
  /\ \A k \in RowOf(command.id) :
       command.nth # Whole /\ command.nth \notin DOMAIN saved[k].items
  /\ command' = None
  /\ UNCHANGED <<board, tables, busy, request, history>>

\* There is a step to take: of the first item, then of the next, to the last.
Applying ==
  /\ command # None /\ command.at = "apply" /\ command.apply
  /\ command.item <= Len(command.items)

StepsNow == Steps(command.kind, command.items[command.item])

Step == StepsNow[command.step]

\* The command, a step further.
OneFurther ==
  IF command.step < Len(StepsNow) THEN [command EXCEPT !.step = @ + 1]
  ELSE [command EXCEPT !.item = @ + 1, !.step = 1]

StepDone == command' = OneFurther

\* MoveNote's conditions, and that there is anything to do.
CanMove(n, g) ==
  Store!NoteIn(Here, n) /\ stage[Here] = Store!Group /\ Store!GroupIn(Here, g)
    /\ g # note[n].group

\* Both notes were on the board that was read.
InReach(s) == {s.note, s.with} \subseteq DOMAIN command.groupOf

ApplyMove ==
  LET to == command.groupOf[Step.with]
  IN /\ Applying /\ Step.do = "move"
     /\ InReach(Step) /\ CanMove(Step.note, to)
     /\ Store!MoveIntoGroup(Here, Step.note, to)
     /\ command' = [OneFurther EXCEPT !.groupOf[Step.note] = to]
     /\ UNCHANGED <<tables, busy, request, history>>

ApplyTitle ==
  /\ Applying /\ Step.do = "title"
  /\ Step.with \in DOMAIN command.groupOf
  /\ Store!NameGroup(Here, command.groupOf[Step.with], Suggested)
  /\ StepDone
  /\ UNCHANGED <<tables, busy, request, history>>

ApplyName ==
  /\ Applying /\ Step.do = "name"
  /\ Store!NameGroup(Here, Step.group, Suggested)
  /\ StepDone
  /\ UNCHANGED <<tables, busy, request, history>>

\* AddAction: a new row in the table of module Actions, which nothing here reads.
ApplyAction ==
  /\ Applying /\ Step.do = "add"
  /\ StepDone
  /\ UNCHANGED <<board, tables, busy, request, history>>

\* A step that the board has outgrown is left out, and so is one that finds
\* everything as it should be.
Outgrown ==
  CASE Step.do = "move"  -> InReach(Step) => ~CanMove(Step.note, command.groupOf[Step.with])
    [] Step.do = "title" -> Step.with \in DOMAIN command.groupOf =>
                              ~Store!GroupIn(Here, command.groupOf[Step.with])
    [] Step.do = "name"  -> ~Store!GroupIn(Here, Step.group)
    [] OTHER             -> FALSE

SkipStep ==
  /\ Applying
  /\ Outgrown
  /\ StepDone
  /\ UNCHANGED <<board, tables, busy, request, history>>

\* The command is over: done, or given up where it stands.
End ==
  /\ command # None
  /\ command' = None
  /\ UNCHANGED <<board, tables, busy, request, history>>

\* Any other command, which is one step of the store: those that change what a
\* suggestion is about or what applying it changes.
Otherwise ==
  /\ command = None
  /\ \/ \E cs \in SUBSET Columns : Store!CreateRetro(Here, cs)
     \/ \E to \in Store!Stages : Store!SetStage(Here, to)
     \/ \E u \in Users, g \in Groups : Store!VoteOn(Here, u, g) \/ Store!TakeBackVote(Here, u, g)
     \/ \E u \in Users, n \in Notes : Store!DeleteNote(Here, u, n)
     \/ \E u \in Users, c \in Columns, text \in Texts, g \in Groups, n \in Notes :
          Store!AddNote(Here, u, c, text, g, n)
     \/ \E n \in Notes, g \in Groups : Store!MoveIntoGroup(Here, n, g)
     \/ \E u \in Users, n \in Notes, c \in Columns, g \in Groups :
          Store!MoveToColumn(Here, u, n, c, g)
     \/ \E g \in Groups, title \in Titles : Store!NameGroup(Here, g, title)
  /\ UNCHANGED <<tables, busy, request, command, history>>

---------------------------------------------------------------------------
RequestNext(q) ==
  \/ \E k \in DOMAIN aiStage : Ask(q, k)
  \/ Read(q)
  \/ request[q] # None /\ \E raw \in Raw(request[q].kind) : Answer(q, raw)
  \/ AnswerRecap(q)
  \/ Fail(q)

CommandNext ==
  \/ \E k \in Kinds : \E saw \in shown[k] : \E i \in {Whole} \cup DOMAIN saw, apply \in BOOLEAN :
       Click(k, saw, i, apply)
  \/ TakeSuggestion \/ FindItem \/ TakeItem \/ NothingToTake
  \/ ApplyMove \/ ApplyTitle \/ ApplyName \/ ApplyAction \/ SkipStep
  \/ End

Next == (\E q \in Requests : RequestNext(q)) \/ RoomForgotten \/ CommandNext \/ Otherwise

Spec == Init /\ [][Next]_vars

---------------------------------------------------------------------------
\* Every row, request and command has its type.
TypeOK ==
  /\ Store!TypeOK
  /\ saved \in [Kinds -> Row \cup {None}]
  /\ recap \in BOOLEAN
  /\ busy \subseteq DOMAIN aiStage
  /\ request \in [Requests -> Request \cup {None}]
  /\ command # None => /\ command.at \in {"take", "remove", "apply"}
                       /\ command.kind \in Kinds
                       /\ {command.items, command.saw} \subseteq Seq(Item)
  /\ left \in [Kinds -> SUBSET Item]

\* "Already working on that suggestion": a kind is marked as asked for exactly
\* while one request for it is under way, however requests end, so none is
\* ever asked for twice at once and none is refused for ever.
OneAtATime ==
  \A k \in DOMAIN aiStage :
    Cardinality({q \in Requests : request[q] # None /\ request[q].kind = k})
      = IF k \in busy THEN 1 ELSE 0

\* "a second click on the same stale index finds nothing rather than taking a
\* neighbour": whatever other people took from a suggestion in the meantime,
\* what a command takes is what its sender saw under that id.
ClickTakesWhatItShows ==
  (command # None /\ command.at = "apply") =>
    command.items = IF command.nth = Whole THEN command.saw
                    ELSE <<command.saw[command.nth]>>

\* Every item of the last suggestion of a kind is either still there to be
\* taken or was taken, never both: nothing is applied twice, taking one item
\* loses no other, and a suggestion that arrives while an item of the one it
\* replaces is being taken is neither lost nor overwritten by what was left.
EveryItemOnce ==
  \A k \in Kinds :
    left[k] = IF saved[k] = None THEN {} ELSE ToSet(saved[k].items)

\* A suggested grouping, once all its steps are through, has put those of its
\* notes that are still there into one group with the first of them, however
\* the board changed since it was suggested.
GroupedAsSuggested ==
  (command # None /\ command.at = "apply" /\ command.apply
     /\ command.kind = "groups" /\ ~Applying) =>
    \A item \in ToSet(command.items) :
      LET first == item.what[1]
      IN Store!NoteIn(Here, first) =>
           \A n \in ToSet(item.what) :
             Store!NoteIn(Here, n) => note[n].group = note[first].group
=============================================================================
