---------------------------- MODULE RetroBoard ----------------------------
(***************************************************************************)
(* The board of a retro as internal/store keeps it: columns, groups, notes,*)
(* votes, reactions, the spotlight and the stage, with one action for each *)
(* operation of the store that changes them.                               *)
(*                                                                         *)
(* Every operation runs in one SQLite transaction over a single connection,*)
(* so an operation is one step; one that reports a Problem or ErrNotFound  *)
(* rolls back and is no step at all.  A table is a function from every id  *)
(* to the row with that id, or None where there is no such row; ON DELETE  *)
(* clauses of the schema are carried out by the action that deletes.       *)
(* newID never repeats an id.  With finitely many ids a model has to, and  *)
(* takes any id that no row has: Healthy says no row still refers to it.   *)
(***************************************************************************)
EXTENDS Integers, FiniteSets

CONSTANTS
  Users, Retros, Columns, Groups, Notes,  \* the ids there are
  Texts,          \* what a note may say
  Titles,         \* what a group may be called, Untitled among them
  Untitled,       \* the empty title a new group has
  Emojis,         \* the reactions there are
  None,           \* no row, and no group in the spotlight
  MinColumns, MaxColumns, MaxVotesCap, DefaultVotes

VARIABLES
  stage,      \* stage[r], None until retro r is created
  maxVotes,   \* maxVotes[r], the limit on one person's votes in r
  spotlight,  \* spotlight[r], the group everyone looks at, or None
  column,     \* column[c] is the retro that column c belongs to
  group,      \* group[g] is the retro, column and title of group g
  note,       \* note[n] is the retro, group, author and text of note n
  vote,       \* vote[g][u] is u's row of votes on group g
  reaction    \* the rows <<note, user, emoji>>

vars == <<stage, maxVotes, spotlight, column, group, note, vote, reaction>>

Reflect == 0
Group   == 1
Vote    == 2
Discuss == 3
Stages  == Reflect .. Discuss

GroupRow == [retro : Retros, column : Columns, title : Titles]
NoteRow  == [retro : Retros, group : Groups, author : Users, text : Texts]
VoteRow  == [retro : Retros, count : Nat \ {0}]

ASSUME LimitsAssumption ==
  /\ MinColumns \in Nat /\ MaxColumns \in Nat
  /\ MaxVotesCap \in Nat
  /\ DefaultVotes \in 1 .. MaxVotesCap

ASSUME RowsAssumption ==
  /\ Untitled \in Titles
  /\ None \notin Stages /\ None \notin Retros /\ None \notin Groups
  /\ None \notin GroupRow /\ None \notin NoteRow /\ None \notin VoteRow

---------------------------------------------------------------------------
(* Reading the tables *)

ColumnsOf(r) == {c \in Columns : column[c] = r}

NotesIn(rows, g) == {n \in Notes : rows[n] # None /\ rows[n].group = g}

\* retroIn and noteIn: the note exists and is this retro's.
NoteIn(r, n) == note[n] # None /\ note[n].retro = r

\* SELECT EXISTS (... FROM groups WHERE id = ? AND retro_id = ?)
GroupIn(r, g) == group[g] # None /\ group[g].retro = r

CountOf(row) == IF row = None THEN 0 ELSE row.count

\* Votes stack "like dot stickers": the i-th dot of u on g is <<g, i>>.
Dots(u, r) ==
  UNION {{g} \X (1 .. CountOf(vote[g][u])) :
           g \in {h \in Groups : vote[h][u] # None /\ vote[h][u].retro = r}}

\* SELECT SUM(count) FROM votes WHERE retro_id = ? AND user_id = ?
Used(u, r) == Cardinality(Dots(u, r))

NoVotes == [u \in Users |-> None]

---------------------------------------------------------------------------
(* Pieces of the operations *)

NewGroup(r, c) == [retro |-> r, column |-> c, title |-> Untitled]

\* A row of votes with one more and, when it is not the last, one fewer.
OneMore(r, row) ==
  IF row = None THEN [retro |-> r, count |-> 1] ELSE [row EXCEPT !.count = @ + 1]

OneFewer(row) ==
  IF row.count = 1 THEN None ELSE [row EXCEPT !.count = @ - 1]

\* Mutant: ON CONFLICT DO NOTHING, so votes on both groups are not added up.
BadMerge(to, from) ==
  [u \in Users |-> IF to[u] = None THEN from[u] ELSE to[u]]

\* INSERT INTO votes ... SELECT ... ON CONFLICT DO UPDATE SET
\* count = count + excluded.count: the votes in `from` added to those in `to`.
Merge(to, from) ==
  [u \in Users |->
     IF from[u] = None THEN to[u]
     ELSE IF to[u] = None THEN from[u]
     ELSE [to[u] EXCEPT !.count = @ + from[u].count]]

\* What deleting the groups in S does: groups is the table they are deleted
\* from, votes the votes at that moment.  Their votes go with them, and a
\* spotlight on one of them goes out.
DeleteGroups(S, groups, votes) ==
  /\ group' = [g \in Groups |-> IF g \in S THEN None ELSE groups[g]]
  /\ vote' = [g \in Groups |-> IF g \in S THEN NoVotes ELSE votes[g]]
  /\ spotlight' = [r \in Retros |->
                     IF spotlight[r] \in S THEN None ELSE spotlight[r]]

\* Mutant: a group stays when its last note is gone.
BadDroppedIfEmpty(rows, g) == {}

\* {g} when the notes in rows leave g empty.
DroppedIfEmpty(rows, g) == IF NotesIn(rows, g) = {} THEN {g} ELSE {}

---------------------------------------------------------------------------
Init ==
  /\ stage = [r \in Retros |-> None]
  /\ maxVotes = [r \in Retros |-> DefaultVotes]
  /\ spotlight = [r \in Retros |-> None]
  /\ column = [c \in Columns |-> None]
  /\ group = [g \in Groups |-> None]
  /\ note = [n \in Notes |-> None]
  /\ vote = [g \in Groups |-> NoVotes]
  /\ reaction = {}

---------------------------------------------------------------------------
(* internal/store/retros.go *)

CreateRetro(r, cs) ==
  /\ stage[r] = None
  /\ \A c \in cs : column[c] = None
  /\ Cardinality(cs) \in MinColumns .. MaxColumns
  /\ stage' = [stage EXCEPT ![r] = Reflect]
  /\ maxVotes' = [maxVotes EXCEPT ![r] = DefaultVotes]
  /\ column' = [c \in Columns |-> IF c \in cs THEN r ELSE column[c]]
  /\ UNCHANGED <<spotlight, group, note, vote, reaction>>

UpdateRetro(r, limit) ==
  /\ stage[r] # None
  /\ limit \in 1 .. MaxVotesCap
  /\ maxVotes' = [maxVotes EXCEPT ![r] = limit]
  /\ UNCHANGED <<stage, spotlight, column, group, note, vote, reaction>>

SetStage(r, to) ==
  /\ stage[r] # None
  /\ to - stage[r] \in {1, -1}
  /\ stage' = [stage EXCEPT ![r] = to]
  /\ UNCHANGED <<maxVotes, spotlight, column, group, note, vote, reaction>>

AddColumn(r, c) ==
  /\ stage[r] # None
  /\ column[c] = None
  /\ Cardinality(ColumnsOf(r)) < MaxColumns
  /\ column' = [column EXCEPT ![c] = r]
  /\ UNCHANGED <<stage, maxVotes, spotlight, group, note, vote, reaction>>

DeleteColumn(r, c) ==
  LET inColumn == {g \in Groups : group[g] # None /\ group[g].column = c}
  IN /\ stage[r] # None
     /\ column[c] = r
     /\ Cardinality(ColumnsOf(r)) > MinColumns
     /\ \A g \in inColumn : NotesIn(note, g) = {}
     /\ column' = [column EXCEPT ![c] = None]
     /\ DeleteGroups(inColumn, group, vote)
     /\ UNCHANGED <<stage, maxVotes, note, reaction>>

---------------------------------------------------------------------------
(* internal/store/board.go *)

AddNote(r, u, c, text, g, n) ==
  /\ stage[r] \in {Reflect, Group}
  /\ column[c] = r
  /\ group[g] = None /\ note[n] = None
  /\ group' = [group EXCEPT ![g] = NewGroup(r, c)]
  /\ note' = [note EXCEPT ![n] =
                [retro |-> r, group |-> g, author |-> u, text |-> text]]
  /\ UNCHANGED <<stage, maxVotes, spotlight, column, vote, reaction>>

EditNote(r, u, n, text) ==
  /\ NoteIn(r, n)
  /\ note[n].author = u
  /\ stage[r] \in {Reflect, Group}
  /\ note' = [note EXCEPT ![n].text = text]
  /\ UNCHANGED <<stage, maxVotes, spotlight, column, group, vote, reaction>>

DeleteNote(r, u, n) ==
  /\ NoteIn(r, n)
  /\ note[n].author = u
  /\ stage[r] \in {Reflect, Group}
  /\ note' = [note EXCEPT ![n] = None]
  /\ reaction' = {x \in reaction : x[1] # n}
  /\ DeleteGroups(DroppedIfEmpty(note', note[n].group), group, vote)
  /\ UNCHANGED <<stage, maxVotes, column>>

\* Mutant: no leaveGroup, dropIfEmpty alone; the votes cascade away.
BadRehome(n, to, groups) ==
  /\ note' = [note EXCEPT ![n].group = to]
  /\ DeleteGroups(DroppedIfEmpty(note', note[n].group), groups, vote)
  /\ UNCHANGED <<stage, maxVotes, column, reaction>>

\* MoveNote's last two statements: n goes to group `to` of the table groups,
\* and leaveGroup drops the group it leaves once that is empty, its votes
\* going along.
Rehome(n, to, groups) ==
  LET from == note[n].group
  IN /\ note' = [note EXCEPT ![n].group = to]
     /\ DeleteGroups(DroppedIfEmpty(note', from), groups,
                     IF NotesIn(note', from) = {}
                     THEN [vote EXCEPT ![to] = Merge(vote[to], vote[from])]
                     ELSE vote)
     /\ UNCHANGED <<stage, maxVotes, column, reaction>>

\* Mutant: the group is looked up without AND retro_id = ?.
BadMoveIntoGroup(r, n, g) ==
  /\ NoteIn(r, n)
  /\ stage[r] = Group
  /\ group[g] # None
  /\ g # note[n].group
  /\ Rehome(n, g, group)

MoveIntoGroup(r, n, g) ==
  /\ NoteIn(r, n)
  /\ stage[r] = Group
  /\ GroupIn(r, g)
  /\ g # note[n].group
  /\ Rehome(n, g, group)

\* Mutant: authors may move their own notes whatever the stage.
BadMoveToColumn(r, u, n, c, g) ==
  /\ NoteIn(r, n)
  /\ stage[r] = Group \/ note[n].author = u
  /\ column[c] = r
  /\ group[g] = None
  /\ Rehome(n, g, [group EXCEPT ![g] = NewGroup(r, c)])

MoveToColumn(r, u, n, c, g) ==
  /\ NoteIn(r, n)
  /\ stage[r] = Group \/ (stage[r] = Reflect /\ note[n].author = u)
  /\ column[c] = r
  /\ group[g] = None
  /\ Rehome(n, g, [group EXCEPT ![g] = NewGroup(r, c)])

NameGroup(r, g, title) ==
  /\ stage[r] # None /\ stage[r] # Reflect
  /\ GroupIn(r, g)
  /\ group' = [group EXCEPT ![g].title = title]
  /\ UNCHANGED <<stage, maxVotes, spotlight, column, note, vote, reaction>>

VoteOn(r, u, g) ==
  /\ stage[r] = Vote
  /\ GroupIn(r, g)
  /\ Used(u, r) < maxVotes[r]
  /\ vote' = [vote EXCEPT ![g][u] = OneMore(r, @)]
  /\ UNCHANGED <<stage, maxVotes, spotlight, column, group, note, reaction>>

\* Mutant: the row stays when its last vote is taken back.
BadTakeBackVote(r, u, g) ==
  /\ stage[r] = Vote
  /\ GroupIn(r, g)
  /\ vote[g][u] # None /\ vote[g][u].retro = r
  /\ vote' = [vote EXCEPT ![g][u].count = @ - 1]
  /\ UNCHANGED <<stage, maxVotes, spotlight, column, group, note, reaction>>

TakeBackVote(r, u, g) ==
  /\ stage[r] = Vote
  /\ GroupIn(r, g)
  /\ vote[g][u] # None /\ vote[g][u].retro = r
  /\ vote' = [vote EXCEPT ![g][u] = OneFewer(@)]
  /\ UNCHANGED <<stage, maxVotes, spotlight, column, group, note, reaction>>

React(r, u, n, emoji, on) ==
  /\ NoteIn(r, n)
  /\ stage[r] = Discuss
  /\ reaction' = IF on THEN reaction \cup {<<n, u, emoji>>}
                       ELSE reaction \ {<<n, u, emoji>>}
  /\ UNCHANGED <<stage, maxVotes, spotlight, column, group, note, vote>>

---------------------------------------------------------------------------
(* internal/store/facilitation.go *)

Spotlight(r, g) ==
  /\ stage[r] # None /\ stage[r] # Reflect
  /\ g \in {h \in Groups : GroupIn(r, h)} \cup {None}
  /\ spotlight' = [spotlight EXCEPT ![r] = g]
  /\ UNCHANGED <<stage, maxVotes, column, group, note, vote, reaction>>

---------------------------------------------------------------------------
\* The commands that change a retro's settings, and those on its notes,
\* groups and votes.
RetroNext(r) ==
  \/ \E cs \in SUBSET Columns : CreateRetro(r, cs)
  \/ \E limit \in 1 .. MaxVotesCap : UpdateRetro(r, limit)
  \/ \E to \in Stages : SetStage(r, to)
  \/ \E c \in Columns : AddColumn(r, c)
  \/ \E c \in Columns : DeleteColumn(r, c)
  \/ \E g \in Groups \cup {None} : Spotlight(r, g)

NoteNext(r, u) ==
  \/ \E c \in Columns, text \in Texts, g \in Groups, n \in Notes :
       AddNote(r, u, c, text, g, n)
  \/ \E n \in Notes, text \in Texts : EditNote(r, u, n, text)
  \/ \E n \in Notes : DeleteNote(r, u, n)
  \/ \E n \in Notes, g \in Groups : MoveIntoGroup(r, n, g)
  \/ \E n \in Notes, c \in Columns, g \in Groups : MoveToColumn(r, u, n, c, g)
  \/ \E g \in Groups, title \in Titles : NameGroup(r, g, title)
  \/ \E g \in Groups : VoteOn(r, u, g)
  \/ \E g \in Groups : TakeBackVote(r, u, g)
  \/ \E n \in Notes, emoji \in Emojis, on \in BOOLEAN : React(r, u, n, emoji, on)

Next == \E r \in Retros : RetroNext(r) \/ \E u \in Users : NoteNext(r, u)

Spec == Init /\ [][Next]_vars

---------------------------------------------------------------------------
\* Every table holds rows of its type.
TypeOK ==
  /\ stage \in [Retros -> Stages \cup {None}]
  /\ maxVotes \in [Retros -> 1 .. MaxVotesCap]
  /\ spotlight \in [Retros -> Groups \cup {None}]
  /\ column \in [Columns -> Retros \cup {None}]
  /\ group \in [Groups -> GroupRow \cup {None}]
  /\ note \in [Notes -> NoteRow \cup {None}]
  /\ vote \in [Groups -> [Users -> VoteRow \cup {None}]]
  /\ reaction \subseteq Notes \X Users \X Emojis

\* Store.Check: "groups with no notes".
GroupsHaveNotes == \A g \in Groups : group[g] # None => NotesIn(note, g) # {}

\* The schema's references, and that a group is in a column of its retro.
GroupsInColumns ==
  \A g \in Groups : group[g] # None => column[group[g].column] = group[g].retro

\* Store.Check: "notes in a group from another retro", and the reference.
NotesInGroups ==
  \A n \in Notes : note[n] # None => GroupIn(note[n].retro, note[n].group)

\* Store.Check: "votes on a group from another retro", and the reference.
VotesOnGroups ==
  \A g \in Groups, u \in Users : vote[g][u] # None => GroupIn(vote[g][u].retro, g)

SpotlightOnGroup ==
  \A r \in Retros : spotlight[r] # None => GroupIn(r, spotlight[r])

ReactionsOnNotes == \A x \in reaction : note[x[1]] # None

\* What Store.Check looks for in a healthy database, but for the vote limit:
\* whatever is created, moved, merged and deleted, in whatever order and in
\* several retros, no group is left without notes and no row refers to a row
\* that is gone or is another retro's.
Healthy ==
  /\ GroupsHaveNotes
  /\ GroupsInColumns
  /\ NotesInGroups
  /\ VotesOnGroups
  /\ SpotlightOnGroup
  /\ ReactionsOnNotes

\* Store.Check: "people over their vote limit", anyone holding more votes
\* than the retro allows.
VotesWithinLimit == \A r \in Retros, u \in Users : Used(u, r) <= maxVotes[r]

\* leaveGroup: a group its last note has just left for another is gone, and
\* its votes are on the group the note went to, added to what was there.
\* Otherwise moving a note leaves the votes of both groups alone.
VotesFollowTheLastNote ==
  [][\A n \in Notes, u \in Users :
       (note[n] # None /\ note'[n] # None /\ note'[n].group # note[n].group) =>
         LET from == note[n].group  to == note'[n].group
         IN IF group'[from] = None
            THEN CountOf(vote'[to][u]) = CountOf(vote[from][u]) + CountOf(vote[to][u])
            ELSE vote'[from] = vote[from] /\ vote'[to] = vote[to]]_vars

\* "Notes stay put once voting starts": from then on a note keeps its text,
\* and its group, column and company, until grouping is reopened.
NotesStayPut ==
  [][\A n \in Notes :
       (note[n] # None /\ stage[note[n].retro] \in {Vote, Discuss}) =>
         /\ note'[n] = note[n]
         /\ group'[note[n].group] # None
         /\ group'[note[n].group].column = group[note[n].group].column
         /\ NotesIn(note', note[n].group) = NotesIn(note, note[n].group)]_vars

---------------------------------------------------------------------------
\* The board seen as a ballot alone: the groups only matter for how many
\* votes they hold between them.
PhaseOf(s) ==
  CASE s = None -> "none"
    [] s = Vote -> "voting"
    [] s = Discuss -> "discussing"
    [] OTHER -> "arranging"

B == INSTANCE Ballot WITH
       phase <- [r \in Retros |-> PhaseOf(stage[r])],
       limit <- maxVotes,
       used  <- [r \in Retros |-> [u \in Users |-> Used(u, r)]],
       notes <- [r \in Retros |-> {n \in Notes : NoteIn(r, n)}]

\* The store implements Ballot: only CastVote adds votes, only CastVote and
\* DeleteNote take any away, and no merging, splitting or moving of groups in
\* a reopened retro makes a vote appear or vanish.
ImplementsBallot == B!Spec
=============================================================================
