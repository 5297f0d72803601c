------------------------- MODULE RetroBoardProofs -------------------------
(***************************************************************************)
(* Proofs about RetroBoard for any number of people, retros, columns,      *)
(* groups and notes and any limits: every table keeps its type, what       *)
(* Store.Check looks for in a healthy database always holds, notes stay    *)
(* put and votes follow them, and the store implements Ballot.  At the end *)
(* comes what Projection makes of the store: boards add up, and nothing    *)
(* that is hidden shows through.                                           *)
(***************************************************************************)
EXTENDS Projection, FiniteSetTheorems, TLAPS

GroupTable == [Groups -> GroupRow \cup {None}]
VotesOfGroup == [Users -> VoteRow \cup {None}]
VoteTable == [Groups -> VotesOfGroup]

---------------------------------------------------------------------------
(* Types of the pieces *)

\* A group without votes has a row of no votes, and a new one a group's row.
LEMMA NewRowsType ==
  /\ NoVotes \in VotesOfGroup
  /\ \A r \in Retros, c \in Columns : NewGroup(r, c) \in GroupRow
BY RowsAssumption DEF NoVotes, VotesOfGroup, NewGroup, GroupRow

\* Casting a vote leaves a row of votes.
LEMMA OneMoreType ==
  ASSUME NEW r \in Retros, NEW row \in VoteRow \cup {None}
  PROVE  OneMore(r, row) \in VoteRow
BY DEF OneMore, VoteRow

\* Taking one back leaves a row of votes or, after the last one, none.
LEMMA OneFewerType ==
  ASSUME NEW row \in VoteRow
  PROVE  OneFewer(row) \in VoteRow \cup {None}
BY DEF OneFewer, VoteRow

\* Adding up the votes on two groups gives votes on one.
LEMMA MergeType ==
  ASSUME NEW to \in VotesOfGroup, NEW from \in VotesOfGroup
  PROVE  Merge(to, from) \in VotesOfGroup
<1>1. ASSUME NEW u \in Users, from[u] # None, to[u] # None
      PROVE  [to[u] EXCEPT !.count = @ + from[u].count] \in VoteRow
  <2>1. to[u] \in VoteRow /\ from[u] \in VoteRow
    BY <1>1 DEF VotesOfGroup
  <2>2. to[u].count + from[u].count \in Nat \ {0}
    BY <2>1 DEF VoteRow
  <2> QED
    BY <2>1, <2>2 DEF VoteRow
<1> QED
  BY <1>1 DEF Merge, VotesOfGroup

\* Whatever is deleted, what is left of the three tables has its type.
LEMMA DeleteGroupsType ==
  ASSUME TypeOK, NEW S, NEW groups \in GroupTable, NEW votes \in VoteTable,
         DeleteGroups(S, groups, votes)
  PROVE  /\ group' \in GroupTable
         /\ vote' \in VoteTable
         /\ spotlight' \in [Retros -> Groups \cup {None}]
BY NewRowsType DEF TypeOK, DeleteGroups, GroupTable, VoteTable

\* MoveNote keeps the types, whichever group it moves the note to.
LEMMA RehomeType ==
  ASSUME TypeOK, NEW n \in Notes, note[n] # None, NEW to \in Groups,
         NEW groups \in GroupTable, Rehome(n, to, groups)
  PROVE  TypeOK'
<1> DEFINE from == note[n].group
           moved == IF NotesIn(note', from) = {}
                    THEN [vote EXCEPT ![to] = Merge(vote[to], vote[from])]
                    ELSE vote
<1>1. note[n] \in NoteRow /\ from \in Groups
  BY DEF TypeOK, NoteRow
<1>2. note' \in [Notes -> NoteRow \cup {None}]
  BY <1>1 DEF TypeOK, Rehome, NoteRow
<1>3. moved \in VoteTable
  <2>1. vote \in VoteTable
    BY DEF TypeOK, VoteTable, VotesOfGroup
  <2>2. Merge(vote[to], vote[from]) \in VotesOfGroup
    BY <1>1, <2>1, MergeType DEF VoteTable
  <2> QED
    BY <2>1, <2>2 DEF VoteTable
<1>4. DeleteGroups(DroppedIfEmpty(note', from), groups, moved)
  BY DEF Rehome
<1>5. /\ group' \in GroupTable /\ vote' \in VoteTable
      /\ spotlight' \in [Retros -> Groups \cup {None}]
  BY <1>3, <1>4, DeleteGroupsType
<1> QED
  BY <1>2, <1>5 DEF TypeOK, Rehome, GroupTable, VoteTable, VotesOfGroup

---------------------------------------------------------------------------
(* Every table keeps its type *)

\* TypeOK holds of the empty database.
LEMMA InitTypeOK == Init => TypeOK
BY LimitsAssumption, RowsAssumption, NewRowsType
   DEF Init, TypeOK, VotesOfGroup

\* No operation on a retro breaks it.
LEMMA RetroNextTypeOK ==
  ASSUME TypeOK, NEW r \in Retros, RetroNext(r)
  PROVE  TypeOK'
<1>1. CASE \E cs \in SUBSET Columns : CreateRetro(r, cs)
  BY <1>1, LimitsAssumption DEF TypeOK, CreateRetro, Stages, Reflect, Discuss
<1>2. CASE \E limit \in 1 .. MaxVotesCap : UpdateRetro(r, limit)
  BY <1>2 DEF TypeOK, UpdateRetro
<1>3. CASE \E to \in Stages : SetStage(r, to)
  BY <1>3 DEF TypeOK, SetStage
<1>4. CASE \E c \in Columns : AddColumn(r, c)
  BY <1>4 DEF TypeOK, AddColumn
<1>5. ASSUME NEW c \in Columns, DeleteColumn(r, c)
      PROVE  TypeOK'
  <2> DEFINE inColumn == {g \in Groups : group[g] # None /\ group[g].column = c}
  <2>1. DeleteGroups(inColumn, group, vote)
    BY <1>5 DEF DeleteColumn
  <2>2. group \in GroupTable /\ vote \in VoteTable
    BY DEF TypeOK, GroupTable, VoteTable, VotesOfGroup
  <2>3. /\ group' \in GroupTable /\ vote' \in VoteTable
        /\ spotlight' \in [Retros -> Groups \cup {None}]
    BY <2>1, <2>2, DeleteGroupsType
  <2> QED
    BY <1>5, <2>3 DEF TypeOK, DeleteColumn, GroupTable, VoteTable, VotesOfGroup
<1>6. CASE \E g \in Groups \cup {None} : Spotlight(r, g)
  BY <1>6 DEF TypeOK, Spotlight
<1> QED
  BY <1>1, <1>2, <1>3, <1>4, <1>5, <1>6 DEF RetroNext

\* Nor does any operation on its notes, groups and votes.
LEMMA NoteNextTypeOK ==
  ASSUME TypeOK, NEW r \in Retros, NEW u \in Users, NoteNext(r, u)
  PROVE  TypeOK'
<1> USE DEF TypeOK
<1>1. ASSUME NEW c \in Columns, NEW text \in Texts, NEW g \in Groups, NEW n \in Notes,
             AddNote(r, u, c, text, g, n)
      PROVE  TypeOK'
  <2>1. [retro |-> r, group |-> g, author |-> u, text |-> text] \in NoteRow
    BY DEF NoteRow
  <2> QED
    BY <1>1, <2>1, NewRowsType DEF AddNote
<1>2. ASSUME NEW n \in Notes, NEW text \in Texts, EditNote(r, u, n, text)
      PROVE  TypeOK'
  <2>1. note[n] \in NoteRow
    BY <1>2 DEF EditNote, NoteIn
  <2>2. [note[n] EXCEPT !.text = text] \in NoteRow
    BY <2>1 DEF NoteRow
  <2> QED
    BY <1>2, <2>2 DEF EditNote
<1>3. ASSUME NEW n \in Notes, DeleteNote(r, u, n)
      PROVE  TypeOK'
  <2>1. group \in GroupTable /\ vote \in VoteTable
    BY DEF GroupTable, VoteTable, VotesOfGroup
  <2>2. /\ group' \in GroupTable /\ vote' \in VoteTable
        /\ spotlight' \in [Retros -> Groups \cup {None}]
    BY <1>3, <2>1, DeleteGroupsType DEF DeleteNote
  <2> QED
    BY <1>3, <2>2 DEF DeleteNote, GroupTable, VoteTable, VotesOfGroup
<1>4. ASSUME NEW n \in Notes, NEW g \in Groups, MoveIntoGroup(r, n, g)
      PROVE  TypeOK'
  <2>1. group \in GroupTable
    BY DEF GroupTable
  <2> QED
    BY <1>4, <2>1, RehomeType DEF MoveIntoGroup, NoteIn
<1>5. ASSUME NEW n \in Notes, NEW c \in Columns, NEW g \in Groups,
             MoveToColumn(r, u, n, c, g)
      PROVE  TypeOK'
  <2>1. [group EXCEPT ![g] = NewGroup(r, c)] \in GroupTable
    BY NewRowsType DEF GroupTable
  <2> QED
    BY <1>5, <2>1, RehomeType DEF MoveToColumn, NoteIn
<1>6. ASSUME NEW g \in Groups, NEW title \in Titles, NameGroup(r, g, title)
      PROVE  TypeOK'
  <2>1. group[g] \in GroupRow
    BY <1>6 DEF NameGroup, GroupIn
  <2>2. [group[g] EXCEPT !.title = title] \in GroupRow
    BY <2>1 DEF GroupRow
  <2> QED
    BY <1>6, <2>2 DEF NameGroup
<1>7. ASSUME NEW g \in Groups, VoteOn(r, u, g)
      PROVE  TypeOK'
  <2>1. OneMore(r, vote[g][u]) \in VoteRow
    BY OneMoreType
  <2> QED
    BY <1>7, <2>1 DEF VoteOn
<1>8. ASSUME NEW g \in Groups, TakeBackVote(r, u, g)
      PROVE  TypeOK'
  <2>1. vote[g][u] \in VoteRow
    BY <1>8 DEF TakeBackVote
  <2>2. OneFewer(vote[g][u]) \in VoteRow \cup {None}
    BY <2>1, OneFewerType
  <2> QED
    BY <1>8, <2>2 DEF TakeBackVote
<1>9. CASE \E n \in Notes, emoji \in Emojis, on \in BOOLEAN : React(r, u, n, emoji, on)
  BY <1>9 DEF React
<1> QED
  BY <1>1, <1>2, <1>3, <1>4, <1>5, <1>6, <1>7, <1>8, <1>9 DEF NoteNext

\* Every step of the store keeps the types.
LEMMA NextTypeOK == TypeOK /\ [Next]_vars => TypeOK'
<1> SUFFICES ASSUME TypeOK, [Next]_vars
             PROVE  TypeOK'
  OBVIOUS
<1>1. CASE UNCHANGED vars
  BY <1>1 DEF TypeOK, vars
<1>2. CASE Next
  BY <1>2, RetroNextTypeOK, NoteNextTypeOK DEF Next
<1> QED
  BY <1>1, <1>2

\* The tables always hold rows of their types; in particular nobody's row of
\* votes on a group ever says zero or less, however votes are cast, merged
\* and taken back.
THEOREM TypeCorrect == Spec => []TypeOK
<1>1. Init => TypeOK
  BY InitTypeOK
<1>2. TypeOK /\ [Next]_vars => TypeOK'
  BY NextTypeOK
<1> QED
  BY <1>1, <1>2, PTL DEF Spec

---------------------------------------------------------------------------
(* No row refers to a row that is gone or is another retro's *)

\* MoveNote keeps the database healthy: `to` is a group of the note's retro,
\* old or just made, and the group the note leaves goes when it is empty.
LEMMA RehomeHealthy ==
  ASSUME TypeOK, Healthy,
         NEW n \in Notes, note[n] # None,
         NEW to \in Groups, to # note[n].group,
         NEW groups \in GroupTable,
         groups[to] # None,
         groups[to].retro = note[n].retro,
         column[groups[to].column] = groups[to].retro,
         \A h \in Groups \ {to} : groups[h] = group[h],
         group[to] = None \/ groups[to] = group[to],
         Rehome(n, to, groups)
  PROVE  Healthy'
<1> DEFINE from == note[n].group
           empty == NotesIn(note', from) = {}
<1>1. /\ note[n] \in NoteRow /\ from \in Groups
      /\ group[from] # None /\ group[from].retro = note[n].retro
  BY DEF TypeOK, NoteRow, Healthy, NotesInGroups, GroupIn
<1>2. /\ \A m \in Notes \ {n} : note'[m] = note[m]
      /\ note'[n] # None /\ note'[n].group = to /\ note'[n].retro = note[n].retro
  <2>1. note'[n] = [note[n] EXCEPT !.group = to] /\ \A m \in Notes \ {n} : note'[m] = note[m]
    BY DEF Rehome, TypeOK
  <2>2. [note[n] EXCEPT !.group = to] \in NoteRow
    BY <1>1 DEF NoteRow
  <2> QED
    BY <1>1, <2>1, <2>2, RowsAssumption DEF NoteRow
<1>3. \A g \in Groups : group'[g] = IF empty /\ g = from THEN None ELSE groups[g]
  BY <1>1 DEF Rehome, DeleteGroups, DroppedIfEmpty
<1>4. \A r \in Retros :
        spotlight'[r] = IF empty /\ spotlight[r] = from THEN None ELSE spotlight[r]
  BY <1>1 DEF Rehome, DeleteGroups, DroppedIfEmpty
<1>5. \A g \in Groups :
        vote'[g] = IF empty /\ g = from THEN NoVotes
                   ELSE IF empty /\ g = to THEN Merge(vote[to], vote[from])
                   ELSE vote[g]
  BY <1>1 DEF Rehome, DeleteGroups, DroppedIfEmpty, TypeOK
<1>6. GroupsHaveNotes'
  BY <1>1, <1>2, <1>3 DEF Healthy, GroupsHaveNotes, NotesIn
<1>7. GroupsInColumns'
  BY <1>1, <1>3 DEF Healthy, GroupsInColumns, Rehome
<1>8. NotesInGroups'
  <2> SUFFICES ASSUME NEW m \in Notes, note'[m] # None
               PROVE  group'[note'[m].group] # None /\ group'[note'[m].group].retro = note'[m].retro
    BY DEF NotesInGroups, GroupIn
  <2>1. CASE m = n
    BY <1>1, <1>2, <1>3, <2>1
  <2>2. CASE m # n
    <3>1. /\ note[m].group \in Groups
          /\ group[note[m].group] # None /\ group[note[m].group].retro = note[m].retro
      BY <1>2, <2>2 DEF TypeOK, NoteRow, Healthy, NotesInGroups, GroupIn
    <3>2. note[m].group = from => ~empty
      BY <1>2, <2>2 DEF NotesIn
    <3> QED
      BY <1>2, <1>3, <2>2, <3>1, <3>2
  <2> QED
    BY <2>1, <2>2
<1>9. VotesOnGroups'
  <2> SUFFICES ASSUME NEW g \in Groups, NEW u \in Users, vote'[g][u] # None
               PROVE  group'[g] # None /\ group'[g].retro = vote'[g][u].retro
    BY DEF VotesOnGroups, GroupIn
  <2>1. \A h \in Groups : vote[h][u] # None => group[h] # None /\ group[h].retro = vote[h][u].retro
    BY DEF Healthy, VotesOnGroups, GroupIn
  <2>2. CASE empty /\ g = from
    BY <1>5, <2>2 DEF NoVotes
  <2>3. CASE empty /\ g = to
    <3>1. vote'[g][u] = IF vote[from][u] = None THEN vote[to][u]
                        ELSE IF vote[to][u] = None THEN vote[from][u]
                        ELSE [vote[to][u] EXCEPT !.count = @ + vote[from][u].count]
      BY <1>5, <2>3 DEF Merge
    <3>2. vote'[g][u].retro = note[n].retro
      <4>1. CASE vote[to][u] = None
        BY <1>1, <2>1, <3>1, <4>1
      <4>2. CASE vote[to][u] # None
        <5>1. vote[to][u] \in VoteRow
          BY <4>2 DEF TypeOK
        <5>2. vote[to][u].retro = note[n].retro
          BY <2>1, <4>2
        <5> QED
          BY <3>1, <4>2, <5>1, <5>2 DEF VoteRow
      <4> QED
        BY <4>1, <4>2
    <3> QED
      BY <1>3, <2>3, <3>2
  <2>4. CASE ~empty \/ (g # from /\ g # to)
    <3>1. vote'[g] = vote[g]
      BY <1>5, <2>4
    <3>2. group'[g] = groups[g]
      BY <1>3, <2>4
    <3> QED
      BY <2>1, <3>1, <3>2
  <2> QED
    BY <2>2, <2>3, <2>4
<1>10. SpotlightOnGroup'
  <2> SUFFICES ASSUME NEW r \in Retros, spotlight'[r] # None
               PROVE  group'[spotlight'[r]] # None /\ group'[spotlight'[r]].retro = r
    BY DEF SpotlightOnGroup, GroupIn
  <2>1. /\ spotlight'[r] = spotlight[r] /\ spotlight[r] \in Groups
        /\ ~(empty /\ spotlight[r] = from)
    BY <1>4 DEF TypeOK
  <2>2. group[spotlight[r]] # None /\ group[spotlight[r]].retro = r
    BY <2>1 DEF Healthy, SpotlightOnGroup, GroupIn
  <2> QED
    BY <1>3, <2>1, <2>2
<1>11. ReactionsOnNotes'
  BY <1>2 DEF Healthy, ReactionsOnNotes, Rehome, TypeOK
<1> QED
  BY <1>6, <1>7, <1>8, <1>9, <1>10, <1>11 DEF Healthy

\* The empty database is healthy.
LEMMA InitHealthy == Init => Healthy
BY DEF Init, Healthy, GroupsHaveNotes, GroupsInColumns, NotesInGroups,
       VotesOnGroups, SpotlightOnGroup, ReactionsOnNotes, NoVotes

\* No operation on a retro breaks that.
LEMMA RetroNextHealthy ==
  ASSUME TypeOK, Healthy, NEW r \in Retros, RetroNext(r)
  PROVE  Healthy'
<1> USE DEF Healthy, GroupsHaveNotes, GroupsInColumns, NotesInGroups,
            VotesOnGroups, SpotlightOnGroup, ReactionsOnNotes, NotesIn, GroupIn
<1>1. \A g \in Groups : group[g] # None =>
        group[g].retro \in Retros /\ group[g].column \in Columns
  BY DEF TypeOK, GroupRow
<1>2. ASSUME NEW cs \in SUBSET Columns, CreateRetro(r, cs)
      PROVE  Healthy'
  BY <1>1, <1>2, RowsAssumption DEF CreateRetro, TypeOK
<1>3. ASSUME NEW limit \in 1 .. MaxVotesCap, UpdateRetro(r, limit)
      PROVE  Healthy'
  BY <1>3 DEF UpdateRetro
<1>4. ASSUME NEW to \in Stages, SetStage(r, to)
      PROVE  Healthy'
  BY <1>4 DEF SetStage
<1>5. ASSUME NEW c \in Columns, AddColumn(r, c)
      PROVE  Healthy'
  BY <1>1, <1>5, RowsAssumption DEF AddColumn, TypeOK
<1>6. ASSUME NEW c \in Columns, DeleteColumn(r, c)
      PROVE  Healthy'
  <2> DEFINE inColumn == {g \in Groups : group[g] # None /\ group[g].column = c}
  <2>1. inColumn = {}
    BY <1>6 DEF DeleteColumn
  <2>2. DeleteGroups(inColumn, group, vote)
    BY <1>6 DEF DeleteColumn
  <2>3. group' = group /\ vote' = vote /\ spotlight' = spotlight
    BY <2>1, <2>2 DEF DeleteGroups, TypeOK
  <2>4. \A g \in Groups : group[g] # None => group[g].column # c
    BY <2>1
  <2> QED
    BY <1>1, <1>6, <2>3, <2>4 DEF DeleteColumn, TypeOK
<1>7. ASSUME NEW g \in Groups \cup {None}, Spotlight(r, g)
      PROVE  Healthy'
  BY <1>7 DEF Spotlight, TypeOK
<1> QED
  BY <1>2, <1>3, <1>4, <1>5, <1>6, <1>7 DEF RetroNext

\* Deleting a note takes its reactions, and its group, with the votes and the
\* spotlight on that, when it was the last one there.
LEMMA DeleteNoteHealthy ==
  ASSUME TypeOK, Healthy, NEW r \in Retros, NEW u \in Users, NEW n \in Notes,
         DeleteNote(r, u, n)
  PROVE  Healthy'
<1> DEFINE from == note[n].group
           empty == NotesIn(note', from) = {}
<1> USE DEF Healthy, GroupIn
<1>1. from \in Groups
  BY DEF DeleteNote, NoteIn, TypeOK, NoteRow
<1>2. note'[n] = None /\ \A m \in Notes \ {n} : note'[m] = note[m]
  BY DEF DeleteNote, TypeOK
<1>3. /\ \A g \in Groups : group'[g] = IF empty /\ g = from THEN None ELSE group[g]
      /\ \A g \in Groups : vote'[g] = IF empty /\ g = from THEN NoVotes ELSE vote[g]
      /\ \A s \in Retros :
           spotlight'[s] = IF empty /\ spotlight[s] = from THEN None ELSE spotlight[s]
  BY <1>1 DEF DeleteNote, DeleteGroups, DroppedIfEmpty
<1>4. GroupsHaveNotes'
  BY <1>2, <1>3 DEF GroupsHaveNotes, NotesIn
<1>5. GroupsInColumns'
  BY <1>3 DEF GroupsInColumns, DeleteNote
<1>6. NotesInGroups'
  <2> SUFFICES ASSUME NEW m \in Notes, m # n, note[m] # None
               PROVE  group'[note[m].group] # None /\ group'[note[m].group].retro = note[m].retro
    BY <1>2 DEF NotesInGroups
  <2>1. note[m].group \in Groups
    BY DEF TypeOK, NoteRow
  <2>2. note[m].group = from => ~empty
    BY <1>2 DEF NotesIn
  <2> QED
    BY <1>3, <2>1, <2>2 DEF NotesInGroups
<1>7. VotesOnGroups'
  BY <1>3 DEF VotesOnGroups, NoVotes
<1>8. SpotlightOnGroup'
  BY <1>3 DEF SpotlightOnGroup, TypeOK
<1>9. ReactionsOnNotes'
  BY <1>2 DEF ReactionsOnNotes, DeleteNote, TypeOK
<1> QED
  BY <1>4, <1>5, <1>6, <1>7, <1>8, <1>9

\* Nor does any other operation on notes, groups and votes.
LEMMA NoteNextHealthy ==
  ASSUME TypeOK, Healthy, NEW r \in Retros, NEW u \in Users, NoteNext(r, u)
  PROVE  Healthy'
<1> USE DEF Healthy, GroupsHaveNotes, GroupsInColumns, NotesInGroups,
            VotesOnGroups, SpotlightOnGroup, ReactionsOnNotes, NotesIn, GroupIn
<1>1. /\ \A m \in Notes : note[m] # None => note[m] \in NoteRow
      /\ \A g \in Groups : group[g] # None => group[g] \in GroupRow
  BY DEF TypeOK
<1>2. ASSUME NEW c \in Columns, NEW text \in Texts, NEW g \in Groups, NEW n \in Notes,
             AddNote(r, u, c, text, g, n)
      PROVE  Healthy'
  <2>1. /\ note'[n] = [retro |-> r, group |-> g, author |-> u, text |-> text]
        /\ note'[n] # None
        /\ \A m \in Notes \ {n} : note'[m] = note[m]
    <3>1. [retro |-> r, group |-> g, author |-> u, text |-> text] \in NoteRow
      BY DEF NoteRow
    <3> QED
      BY <1>2, <3>1, RowsAssumption DEF AddNote, TypeOK
  <2>2. /\ group'[g] = NewGroup(r, c) /\ group'[g] # None
        /\ group'[g].retro = r /\ group'[g].column = c
        /\ \A h \in Groups \ {g} : group'[h] = group[h]
    BY <1>2, NewRowsType, RowsAssumption DEF AddNote, TypeOK, NewGroup
  <2>3. GroupsHaveNotes'
    BY <1>2, <2>1, <2>2 DEF AddNote
  <2>4. GroupsInColumns'
    BY <1>2, <2>2 DEF AddNote
  <2>5. NotesInGroups'
    BY <1>1, <1>2, <2>1, <2>2 DEF AddNote, NoteRow
  <2>6. VotesOnGroups'
    BY <1>2, <2>2 DEF AddNote
  <2>7. SpotlightOnGroup'
    BY <1>2, <2>2 DEF AddNote, TypeOK
  <2>8. ReactionsOnNotes'
    BY <1>2, <2>1 DEF AddNote, TypeOK
  <2> QED
    BY <2>3, <2>4, <2>5, <2>6, <2>7, <2>8
<1>3. ASSUME NEW n \in Notes, NEW text \in Texts, EditNote(r, u, n, text)
      PROVE  Healthy'
  <2>1. note[n] \in NoteRow
    BY <1>1, <1>3 DEF EditNote, NoteIn
  <2>2. /\ note'[n] # None
        /\ note'[n].group = note[n].group /\ note'[n].retro = note[n].retro
        /\ \A m \in Notes \ {n} : note'[m] = note[m]
    <3>1. [note[n] EXCEPT !.text = text] \in NoteRow
      BY <2>1 DEF NoteRow
    <3> QED
      BY ZenonT(30), <1>3, <2>1, <3>1, RowsAssumption DEF EditNote, TypeOK, NoteRow
  <2>3. group' = group /\ vote' = vote /\ spotlight' = spotlight
        /\ column' = column /\ reaction' = reaction /\ note[n] # None
    BY <1>3 DEF EditNote, NoteIn
  <2>4. GroupsHaveNotes'
    BY <2>2, <2>3
  <2>5. NotesInGroups'
    BY <2>2, <2>3
  <2>6. ReactionsOnNotes'
    BY <2>2, <2>3 DEF TypeOK
  <2> QED
    BY <2>3, <2>4, <2>5, <2>6
<1>4. ASSUME NEW n \in Notes, DeleteNote(r, u, n)
      PROVE  Healthy'
  BY <1>4, DeleteNoteHealthy
<1>5. ASSUME NEW n \in Notes, NEW g \in Groups, MoveIntoGroup(r, n, g)
      PROVE  Healthy'
  <2>1. group \in GroupTable
    BY DEF TypeOK, GroupTable
  <2> QED
    BY <1>5, <2>1, RehomeHealthy DEF MoveIntoGroup, NoteIn
<1>6. ASSUME NEW n \in Notes, NEW c \in Columns, NEW g \in Groups,
             MoveToColumn(r, u, n, c, g)
      PROVE  Healthy'
  <2> DEFINE groups == [group EXCEPT ![g] = NewGroup(r, c)]
  <2>1. groups \in GroupTable
    BY NewRowsType DEF TypeOK, GroupTable
  <2>2. /\ groups[g] # None /\ groups[g].retro = r /\ groups[g].column = c
        /\ \A h \in Groups \ {g} : groups[h] = group[h]
    BY NewRowsType, RowsAssumption DEF TypeOK, NewGroup
  <2>3. note[n].group # g
    BY <1>6 DEF MoveToColumn, NoteIn
  <2>4. /\ note[n] # None /\ note[n].retro = r /\ column[c] = r /\ group[g] = None
        /\ Rehome(n, g, groups)
    BY <1>6 DEF MoveToColumn, NoteIn
  <2>5. Healthy
    OBVIOUS
  <2> HIDE DEF groups, Healthy
  <2> QED
    BY <2>1, <2>2, <2>3, <2>4, <2>5, RehomeHealthy
<1>7. ASSUME NEW g \in Groups, NEW title \in Titles, NameGroup(r, g, title)
      PROVE  Healthy'
  <2>1. /\ group'[g] # None
        /\ group'[g].retro = group[g].retro /\ group'[g].column = group[g].column
        /\ \A h \in Groups \ {g} : group'[h] = group[h]
    <3>1. group[g] \in GroupRow
      BY <1>1, <1>7 DEF NameGroup
    <3>2. [group[g] EXCEPT !.title = title] \in GroupRow
      BY <3>1 DEF GroupRow
    <3> QED
      BY <1>7, <3>1, <3>2, RowsAssumption DEF NameGroup, TypeOK, GroupRow
  <2>2. /\ note' = note /\ vote' = vote /\ spotlight' = spotlight
        /\ column' = column /\ reaction' = reaction /\ group[g] # None
    BY <1>7 DEF NameGroup
  <2>3. \A h \in Groups :
          /\ group'[h] = None <=> group[h] = None
          /\ group[h] # None => /\ group'[h].retro = group[h].retro
                                /\ group'[h].column = group[h].column
    BY <2>1, <2>2
  <2>4. NotesInGroups'
    BY <1>1, <2>2, <2>3 DEF NoteRow
  <2>5. SpotlightOnGroup'
    BY <2>2, <2>3 DEF TypeOK
  <2> QED
    BY <2>2, <2>3, <2>4, <2>5
<1>8. ASSUME NEW g \in Groups, VoteOn(r, u, g)
      PROVE  Healthy'
  <2>1. OneMore(r, vote[g][u]).retro = r
    <3>1. CASE vote[g][u] = None
      BY <3>1 DEF OneMore
    <3>2. CASE vote[g][u] # None
      <4>1. vote[g][u] \in VoteRow /\ vote[g][u].retro = group[g].retro
        BY <3>2 DEF TypeOK
      <4> QED
        BY <1>8, <3>2, <4>1 DEF OneMore, VoteOn, VoteRow
    <3> QED
      BY <3>1, <3>2
  <2>2. VotesOnGroups'
    BY <1>8, <2>1 DEF VoteOn, TypeOK
  <2> QED
    BY <1>8, <2>2 DEF VoteOn
<1>9. ASSUME NEW g \in Groups, TakeBackVote(r, u, g)
      PROVE  Healthy'
  <2>1. OneFewer(vote[g][u]) # None => OneFewer(vote[g][u]).retro = r
    BY <1>9 DEF OneFewer, TakeBackVote, TypeOK, VoteRow
  <2> QED
    BY <1>9, <2>1 DEF TakeBackVote, TypeOK
<1>10. ASSUME NEW n \in Notes, NEW emoji \in Emojis, NEW on \in BOOLEAN,
              React(r, u, n, emoji, on)
       PROVE  Healthy'
  BY <1>10 DEF React, NoteIn
<1> QED
  BY <1>2, <1>3, <1>4, <1>5, <1>6, <1>7, <1>8, <1>9, <1>10 DEF NoteNext

\* Every operation keeps the database in order.
LEMMA NextHealthy == TypeOK /\ Healthy /\ [Next]_vars => Healthy'
<1> SUFFICES ASSUME TypeOK, Healthy, [Next]_vars
             PROVE  Healthy'
  OBVIOUS
<1>1. CASE UNCHANGED vars
  BY <1>1 DEF vars, Healthy, GroupsHaveNotes, GroupsInColumns, NotesInGroups,
              VotesOnGroups, SpotlightOnGroup, ReactionsOnNotes, NotesIn, GroupIn
<1>2. CASE Next
  BY <1>2, RetroNextHealthy, NoteNextHealthy DEF Next
<1> QED
  BY <1>1, <1>2

\* Whatever is created, moved, merged and deleted, in however many retros, no
\* group is left without notes and no note, group, vote, reaction or spotlight
\* refers to a row that is gone or is another retro's: what Store.Check
\* reports, but for the vote limit, cannot come about.
THEOREM AlwaysHealthy == Spec => []Healthy
<1>1. Init => Healthy
  BY InitHealthy
<1>2. TypeOK /\ Healthy /\ [Next]_vars => Healthy'
  BY NextHealthy
<1> QED
  BY <1>1, <1>2, TypeCorrect, PTL DEF Spec

\* The same from any database of the right types that is in order, such as one
\* that was converted from v1 or that another process left: it stays in order.
THEOREM HealthyOnwards == TypeOK /\ Healthy /\ [][Next]_vars => [](TypeOK /\ Healthy)
<1>1. TypeOK /\ Healthy /\ [Next]_vars => (TypeOK /\ Healthy)'
  BY NextTypeOK, NextHealthy
<1> QED
  BY <1>1, PTL

---------------------------------------------------------------------------
(* Notes stay put once voting starts *)

\* What NotesStayPut says of note n.
Stays(n) ==
  /\ note'[n] = note[n]
  /\ group'[note[n].group] # None
  /\ group'[note[n].group].column = group[note[n].group].column
  /\ NotesIn(note', note[n].group) = NotesIn(note, note[n].group)

\* A note stays when nothing happens to its group and the notes that come
\* into a group or leave one are not in that one.
LEMMA StaysWhen ==
  ASSUME NEW n \in Notes,
         note'[n] = note[n],
         group[note[n].group] # None,
         group'[note[n].group] = group[note[n].group],
         \A m \in Notes : note'[m] = note[m] \/
            /\ note[m] = None \/ note[m].group # note[n].group
            /\ note'[m] = None \/ note'[m].group # note[n].group
  PROVE  Stays(n)
BY DEF Stays, NotesIn

\* Rehoming a note of retro r leaves the notes of other retros alone, because
\* both the group it leaves and the one it goes to are r's.
LEMMA RehomeStays ==
  ASSUME TypeOK, Healthy,
         NEW m \in Notes, note[m] # None,
         NEW to \in Groups,
         NEW groups \in GroupTable,
         \A h \in Groups \ {to} : groups[h] = group[h],
         group[to] = None \/ group[to].retro = note[m].retro,
         Rehome(m, to, groups),
         NEW n \in Notes, note[n] # None, note[n].retro # note[m].retro
  PROVE  Stays(n)
<1>1. /\ note[n].group \in Groups /\ note[m].group \in Groups
      /\ group[note[n].group] # None /\ group[note[n].group].retro = note[n].retro
      /\ group[note[m].group] # None /\ group[note[m].group].retro = note[m].retro
  BY DEF TypeOK, NoteRow, Healthy, NotesInGroups, GroupIn
<1>2. note[n].group # note[m].group /\ note[n].group # to /\ n # m
  BY <1>1
<1>3. group'[note[n].group] = group[note[n].group]
  BY <1>1, <1>2 DEF Rehome, DeleteGroups, DroppedIfEmpty
<1>4. \A l \in Notes \ {m} : note'[l] = note[l]
  BY DEF Rehome, TypeOK
<1>5. note'[m].group = to
  <2>1. note'[m] = [note[m] EXCEPT !.group = to]
    BY DEF Rehome, TypeOK
  <2>2. note[m] \in NoteRow
    BY DEF TypeOK
  <2> QED
    BY <2>1, <2>2 DEF NoteRow
<1> QED
  BY <1>1, <1>2, <1>3, <1>4, <1>5, StaysWhen

\* The operations on a retro leave every note where it is.
LEMMA RetroNextStays ==
  ASSUME TypeOK, Healthy, NEW r \in Retros, RetroNext(r),
         NEW n \in Notes, note[n] # None
  PROVE  Stays(n)
<1> USE DEF RetroNext
<1>1. group[note[n].group] # None /\ note[n].group \in Groups
  BY DEF TypeOK, NoteRow, Healthy, NotesInGroups, GroupIn
<1>2. note' = note
  BY DEF CreateRetro, UpdateRetro, SetStage, AddColumn, DeleteColumn, Spotlight
<1>3. group'[note[n].group] = group[note[n].group]
  <2>1. ASSUME NEW c \in Columns, DeleteColumn(r, c)
        PROVE  group'[note[n].group] = group[note[n].group]
    <3>1. ~(group[note[n].group].column = c)
      BY <1>1, <2>1 DEF DeleteColumn, NotesIn
    <3> QED
      BY <1>1, <2>1, <3>1 DEF DeleteColumn, DeleteGroups
  <2> QED
    BY <2>1 DEF CreateRetro, UpdateRetro, SetStage, AddColumn, Spotlight
<1> QED
  BY <1>1, <1>2, <1>3, StaysWhen

\* The operations on notes and groups leave those of other retros alone, and
\* those of a retro that votes or discusses.
LEMMA NoteNextStays ==
  ASSUME TypeOK, Healthy, NEW r \in Retros, NEW u \in Users, NoteNext(r, u),
         NEW n \in Notes, note[n] # None, stage[note[n].retro] \in {Vote, Discuss}
  PROVE  Stays(n)
<1> USE DEF Vote, Discuss, Reflect, Group
<1>1. /\ note[n].group \in Groups
      /\ group[note[n].group] # None /\ group[note[n].group].retro = note[n].retro
  BY DEF TypeOK, NoteRow, Healthy, NotesInGroups, GroupIn
<1>2. \A m \in Notes : note[m] # None =>
        /\ note[m] \in NoteRow
        /\ note[m].group \in Groups /\ group[note[m].group].retro = note[m].retro
  BY DEF TypeOK, NoteRow, Healthy, NotesInGroups, GroupIn
<1>3. ASSUME NEW c \in Columns, NEW text \in Texts, NEW g \in Groups, NEW m \in Notes,
             AddNote(r, u, c, text, g, m)
      PROVE  Stays(n)
  <2>1. note[n].group # g /\ n # m
    BY <1>1, <1>3 DEF AddNote
  <2>2. \A l \in Notes \ {m} : note'[l] = note[l]
    BY <1>3 DEF AddNote, TypeOK
  <2>3. note'[m].group = g /\ group'[note[n].group] = group[note[n].group]
    BY <1>1, <1>3, <2>1 DEF AddNote, TypeOK
  <2> QED
    BY <1>1, <1>3, <2>1, <2>2, <2>3, StaysWhen DEF AddNote
<1>4. ASSUME NEW m \in Notes, NEW text \in Texts, EditNote(r, u, m, text)
      PROVE  Stays(n)
  <2>1. note[m] # None /\ note[m].retro = r /\ m # n /\ note[m].group # note[n].group
    BY <1>1, <1>2, <1>4 DEF EditNote, NoteIn
  <2>2. /\ note'[m].group = note[m].group
        /\ \A l \in Notes \ {m} : note'[l] = note[l]
    <3>1. note'[m] = [note[m] EXCEPT !.text = text] /\ \A l \in Notes \ {m} : note'[l] = note[l]
      BY <1>4 DEF EditNote, TypeOK
    <3> QED
      BY <1>2, <2>1, <3>1 DEF NoteRow
  <2> QED
    BY <1>1, <1>4, <2>1, <2>2, StaysWhen DEF EditNote
<1>5. ASSUME NEW m \in Notes, DeleteNote(r, u, m)
      PROVE  Stays(n)
  <2>1. note[m] # None /\ note[m].retro = r /\ m # n /\ note[m].group # note[n].group
    BY <1>1, <1>2, <1>5 DEF DeleteNote, NoteIn
  <2>2. note'[m] = None /\ \A l \in Notes \ {m} : note'[l] = note[l]
    BY <1>5 DEF DeleteNote, TypeOK
  <2>3. group'[note[n].group] = group[note[n].group]
    BY <1>1, <1>5, <2>1 DEF DeleteNote, DeleteGroups, DroppedIfEmpty
  <2> QED
    BY <1>1, <2>1, <2>2, <2>3, StaysWhen
<1>6. ASSUME NEW m \in Notes, NEW g \in Groups, MoveIntoGroup(r, m, g)
      PROVE  Stays(n)
  <2>1. group \in GroupTable
    BY DEF TypeOK, GroupTable
  <2>2. note[m] # None /\ note[m].retro = r /\ stage[r] = Group /\ GroupIn(r, g)
    BY <1>6 DEF MoveIntoGroup, NoteIn
  <2> QED
    BY <1>6, <2>1, <2>2, RehomeStays DEF MoveIntoGroup, GroupIn
<1>7. ASSUME NEW m \in Notes, NEW c \in Columns, NEW g \in Groups,
             MoveToColumn(r, u, m, c, g)
      PROVE  Stays(n)
  <2> DEFINE groups == [group EXCEPT ![g] = NewGroup(r, c)]
  <2>1. groups \in GroupTable
    BY NewRowsType DEF TypeOK, GroupTable
  <2>2. \A h \in Groups \ {g} : groups[h] = group[h]
    BY DEF TypeOK
  <2>3. /\ note[m] # None /\ note[m].retro = r /\ stage[r] \in {Reflect, Group}
        /\ group[g] = None /\ Rehome(m, g, groups)
    BY <1>7 DEF MoveToColumn, NoteIn
  <2> HIDE DEF groups
  <2> QED
    BY <2>1, <2>2, <2>3, RehomeStays
<1>8. ASSUME NEW g \in Groups, NEW title \in Titles, NameGroup(r, g, title)
      PROVE  Stays(n)
  <2>1. group'[note[n].group] # None
    <3>1. [group[g] EXCEPT !.title = title] # None
      <4>1. group[g] \in GroupRow
        BY <1>8 DEF NameGroup, GroupIn, TypeOK
      <4>2. [group[g] EXCEPT !.title = title] \in GroupRow
        BY <4>1 DEF GroupRow
      <4> QED
        BY <4>2, RowsAssumption
    <3> QED
      BY <1>1, <1>8, <3>1 DEF NameGroup, TypeOK
  <2>2. group'[note[n].group].column = group[note[n].group].column
    <3>1. group[note[n].group] \in GroupRow
      BY <1>1 DEF TypeOK
    <3>2. group'[note[n].group] = IF note[n].group = g THEN [group[g] EXCEPT !.title = title]
                                  ELSE group[note[n].group]
      BY <1>1, <1>8 DEF NameGroup, TypeOK
    <3> QED
      BY <3>1, <3>2 DEF GroupRow
  <2> QED
    BY <1>8, <2>1, <2>2 DEF Stays, NameGroup, NotesIn
<1>9. ASSUME NEW g \in Groups, VoteOn(r, u, g) \/ TakeBackVote(r, u, g)
      PROVE  Stays(n)
  BY <1>1, <1>9, StaysWhen DEF VoteOn, TakeBackVote
<1>10. ASSUME NEW m \in Notes, NEW emoji \in Emojis, NEW on \in BOOLEAN,
              React(r, u, m, emoji, on)
       PROVE  Stays(n)
  BY <1>1, <1>10, StaysWhen DEF React
<1> QED
  BY <1>3, <1>4, <1>5, <1>6, <1>7, <1>8, <1>9, <1>10 DEF NoteNext

\* Once voting starts in a retro, and until grouping is reopened, nothing that
\* is done there or in any other retro moves, edits or removes a note of it or
\* changes which notes share a group, so people vote on what they saw.
THEOREM NotesDoStayPut == Spec => NotesStayPut
<1> DEFINE Put == \A n \in Notes :
              (note[n] # None /\ stage[note[n].retro] \in {Vote, Discuss}) => Stays(n)
<1>1. TypeOK /\ Healthy /\ [Next]_vars => [Put]_vars
  <2> SUFFICES ASSUME TypeOK, Healthy, Next
               PROVE  Put
    OBVIOUS
  <2> QED
    BY RetroNextStays, NoteNextStays DEF Next
<1> QED
  BY <1>1, TypeCorrect, AlwaysHealthy, PTL DEF Spec, NotesStayPut, Stays

---------------------------------------------------------------------------
(* Votes follow the last note out of a group *)

\* What VotesFollowTheLastNote says of note n and person u, when n moved.
Follow(n, u) ==
  LET from == note[n].group  to == note'[n].group
  IN IF group'[from] = None
     THEN CountOf(vote'[to][u]) = CountOf(vote[from][u]) + CountOf(vote[to][u])
     ELSE vote'[from] = vote[from] /\ vote'[to] = vote[to]

\* Merging two groups adds up each person's votes.
LEMMA MergeCounts ==
  ASSUME NEW to \in VotesOfGroup, NEW from \in VotesOfGroup, NEW u \in Users
  PROVE  CountOf(Merge(to, from)[u]) = CountOf(from[u]) + CountOf(to[u])
<1>1. CASE from[u] = None
  <2>1. Merge(to, from)[u] = to[u] /\ CountOf(to[u]) \in Nat
    BY <1>1 DEF Merge, VotesOfGroup, CountOf, VoteRow
  <2> QED
    BY <1>1, <2>1 DEF CountOf
<1>2. CASE from[u] # None /\ to[u] = None
  <2>1. Merge(to, from)[u] = from[u] /\ CountOf(from[u]) \in Nat
    BY <1>2 DEF Merge, VotesOfGroup, CountOf, VoteRow
  <2> QED
    BY <1>2, <2>1 DEF CountOf
<1>3. CASE from[u] # None /\ to[u] # None
  <2>1. to[u] \in VoteRow /\ from[u] \in VoteRow
    BY <1>3 DEF VotesOfGroup
  <2>2. Merge(to, from)[u] = [to[u] EXCEPT !.count = @ + from[u].count]
    BY <1>3 DEF Merge
  <2>3. /\ [to[u] EXCEPT !.count = @ + from[u].count] \in VoteRow
        /\ [to[u] EXCEPT !.count = @ + from[u].count].count = to[u].count + from[u].count
    BY <2>1 DEF VoteRow
  <2> QED
    BY <1>3, <2>1, <2>2, <2>3, RowsAssumption DEF CountOf, VoteRow
<1> QED
  BY <1>1, <1>2, <1>3

\* MoveNote's statements do what leaveGroup promises.
LEMMA RehomeFollows ==
  ASSUME TypeOK, Healthy,
         NEW m \in Notes, note[m] # None,
         NEW to \in Groups, to # note[m].group,
         NEW groups \in GroupTable,
         \A h \in Groups \ {to} : groups[h] = group[h],
         Rehome(m, to, groups),
         NEW n \in Notes, note[n] # None, note'[n] # None, note'[n].group # note[n].group,
         NEW u \in Users
  PROVE  Follow(n, u)
<1> DEFINE from == note[m].group
           empty == NotesIn(note', from) = {}
<1>1. /\ from \in Groups /\ group[from] # None /\ note[m] \in NoteRow
  BY DEF TypeOK, NoteRow, Healthy, NotesInGroups, GroupIn
<1>2. n = m /\ note'[m].group = to
  <2>1. note'[m] = [note[m] EXCEPT !.group = to] /\ \A l \in Notes \ {m} : note'[l] = note[l]
    BY DEF Rehome, TypeOK
  <2> QED
    BY <1>1, <2>1 DEF NoteRow
<1>3. group'[from] = None <=> empty
  BY <1>1 DEF Rehome, DeleteGroups, DroppedIfEmpty
<1>4. /\ empty => vote'[to] = Merge(vote[to], vote[from])
      /\ ~empty => vote'[from] = vote[from] /\ vote'[to] = vote[to]
  BY <1>1 DEF Rehome, DeleteGroups, DroppedIfEmpty, TypeOK
<1>5. vote[to] \in VotesOfGroup /\ vote[from] \in VotesOfGroup
  BY <1>1 DEF TypeOK, VotesOfGroup
<1> QED
  BY <1>2, <1>3, <1>4, <1>5, MergeCounts DEF Follow

\* Only MoveNote moves a note.
LEMMA NextFollows ==
  ASSUME TypeOK, Healthy, Next,
         NEW n \in Notes, note[n] # None, note'[n] # None, note'[n].group # note[n].group,
         NEW u \in Users
  PROVE  Follow(n, u)
<1>1. ASSUME NEW r \in Retros, RetroNext(r)
      PROVE  FALSE
  BY <1>1 DEF RetroNext, CreateRetro, UpdateRetro, SetStage, AddColumn, DeleteColumn, Spotlight
<1>2. ASSUME NEW r \in Retros, NEW v \in Users, NoteNext(r, v)
      PROVE  Follow(n, u)
  <2>1. ASSUME NEW c \in Columns, NEW text \in Texts, NEW g \in Groups, NEW m \in Notes,
               AddNote(r, v, c, text, g, m)
        PROVE  FALSE
    BY <2>1 DEF AddNote, TypeOK
  <2>2. ASSUME NEW m \in Notes, NEW text \in Texts, EditNote(r, v, m, text)
        PROVE  FALSE
    <3>1. note'[n] = IF n = m THEN [note[n] EXCEPT !.text = text] ELSE note[n]
      BY <2>2 DEF EditNote, TypeOK
    <3>2. note[n] \in NoteRow
      BY DEF TypeOK
    <3> QED
      BY <3>1, <3>2 DEF NoteRow
  <2>3. ASSUME NEW m \in Notes, DeleteNote(r, v, m)
        PROVE  FALSE
    BY <2>3 DEF DeleteNote, TypeOK
  <2>4. ASSUME NEW m \in Notes, NEW g \in Groups, MoveIntoGroup(r, m, g)
        PROVE  Follow(n, u)
    <3>1. group \in GroupTable
      BY DEF TypeOK, GroupTable
    <3> QED
      BY <2>4, <3>1, RehomeFollows DEF MoveIntoGroup, NoteIn
  <2>5. ASSUME NEW m \in Notes, NEW c \in Columns, NEW g \in Groups,
               MoveToColumn(r, v, m, c, g)
        PROVE  Follow(n, u)
    <3> DEFINE groups == [group EXCEPT ![g] = NewGroup(r, c)]
    <3>1. groups \in GroupTable /\ \A h \in Groups \ {g} : groups[h] = group[h]
      BY NewRowsType DEF TypeOK, GroupTable
    <3>2. /\ note[m] # None /\ note[m].retro = r /\ group[g] = None /\ Rehome(m, g, groups)
      BY <2>5 DEF MoveToColumn, NoteIn
    <3>3. g # note[m].group
      BY <3>2 DEF Healthy, NotesInGroups, GroupIn
    <3> HIDE DEF groups
    <3> QED
      BY <3>1, <3>2, <3>3, RehomeFollows
  <2>6. ASSUME NEW g \in Groups, NEW title \in Titles, NameGroup(r, g, title)
        PROVE  FALSE
    BY <2>6 DEF NameGroup
  <2>7. ASSUME NEW g \in Groups, VoteOn(r, v, g) \/ TakeBackVote(r, v, g)
        PROVE  FALSE
    BY <2>7 DEF VoteOn, TakeBackVote
  <2>8. ASSUME NEW m \in Notes, NEW emoji \in Emojis, NEW on \in BOOLEAN,
               React(r, v, m, emoji, on)
        PROVE  FALSE
    BY <2>8 DEF React
  <2> QED
    BY <1>2, <2>1, <2>2, <2>3, <2>4, <2>5, <2>6, <2>7, <2>8 DEF NoteNext
<1> QED
  BY <1>1, <1>2 DEF Next

\* Votes stay with the note people voted for: when the last note of a group
\* goes to another, each person's votes on the two are added up, and a note
\* that leaves company behind takes no votes with it.
THEOREM VotesDoFollow == Spec => VotesFollowTheLastNote
<1> DEFINE Moved(n) == note[n] # None /\ note'[n] # None /\ note'[n].group # note[n].group
           Followed == \A n \in Notes, u \in Users : Moved(n) => Follow(n, u)
<1>1. TypeOK /\ Healthy /\ [Next]_vars => [Followed]_vars
  BY NextFollows
<1> QED
  BY <1>1, TypeCorrect, AlwaysHealthy, PTL DEF Spec, VotesFollowTheLastNote, Follow

---------------------------------------------------------------------------
(* The votes in use *)

Counts == [Groups -> Nat]

\* The dots there are when there are f[g] of them on g.
Stacks(f) == {x \in Groups \X Nat : x[2] \in 1 .. f[x[1]]}

\* How many dots u has on each group of r.
Held(u, r) ==
  [g \in Groups |->
     IF vote[g][u] # None /\ vote[g][u].retro = r THEN vote[g][u].count ELSE 0]

\* They are the ones whose sum the store takes.
LEMMA DotsAreStacks ==
  TypeOK => \A u \in Users, r \in Retros :
              Held(u, r) \in Counts /\ Dots(u, r) = Stacks(Held(u, r))
<1> SUFFICES ASSUME TypeOK, NEW u \in Users, NEW r \in Retros
             PROVE  Held(u, r) \in Counts /\ Dots(u, r) = Stacks(Held(u, r))
  OBVIOUS
<1>1. \A g \in Groups : vote[g][u] # None =>
        vote[g][u].count \in Nat /\ CountOf(vote[g][u]) = vote[g][u].count
  BY DEF TypeOK, VoteRow, CountOf
<1>2. Held(u, r) \in Counts
  BY <1>1 DEF Held, Counts
<1>3. ASSUME NEW x
      PROVE  x \in Dots(u, r) <=> x \in Stacks(Held(u, r))
  <2>1. x \in Dots(u, r) <=>
          \E g \in Groups : /\ vote[g][u] # None /\ vote[g][u].retro = r
                            /\ x \in {g} \X (1 .. vote[g][u].count)
    BY <1>1 DEF Dots
  <2>2. x \in Stacks(Held(u, r)) <=>
          \E g \in Groups : \E i \in Nat : x = <<g, i>> /\ i \in 1 .. Held(u, r)[g]
    BY DEF Stacks
  <2> QED
    BY <1>1, <2>1, <2>2 DEF Held
<1> QED
  BY <1>2, <1>3

\* One more dot on g.
LEMMA StacksGrow ==
  ASSUME NEW f \in Counts, NEW n \in Counts, NEW g \in Groups, IsFiniteSet(Stacks(f)),
         n[g] = f[g] + 1, \A h \in Groups : h # g => n[h] = f[h]
  PROVE  IsFiniteSet(Stacks(n)) /\ Cardinality(Stacks(n)) = Cardinality(Stacks(f)) + 1
<1> DEFINE top == <<g, f[g] + 1>>
<1>1. f[g] \in Nat /\ \A h \in Groups : f[h] \in Nat /\ n[h] \in Nat
  BY DEF Counts
<1>2. Stacks(n) = Stacks(f) \cup {top}
  <2>1. ASSUME NEW h \in Groups, NEW i \in Nat
        PROVE  i \in 1 .. n[h] <=> i \in 1 .. f[h] \/ <<h, i>> = top
    BY <1>1
  <2> QED
    BY <1>1, <2>1 DEF Stacks
<1>3. top \notin Stacks(f)
  BY <1>1 DEF Stacks
<1> HIDE DEF top
<1> QED
  BY <1>2, <1>3, FS_AddElement

\* No more dots anywhere.
LEMMA StacksShrink ==
  ASSUME NEW f \in Counts, NEW n \in Counts, IsFiniteSet(Stacks(f)),
         \A h \in Groups : n[h] <= f[h]
  PROVE  IsFiniteSet(Stacks(n)) /\ Cardinality(Stacks(n)) <= Cardinality(Stacks(f))
<1>1. \A h \in Groups : f[h] \in Nat /\ n[h] \in Nat
  BY DEF Counts
<1>2. Stacks(n) \subseteq Stacks(f)
  BY <1>1 DEF Stacks
<1> QED
  BY <1>2, FS_Subset

\* The dots on one group put on top of those on another.
LEMMA StacksMerge ==
  ASSUME NEW f \in Counts, NEW n \in Counts, NEW from \in Groups, NEW to \in Groups, from # to,
         IsFiniteSet(Stacks(f)),
         n[from] = 0, n[to] = f[to] + f[from],
         \A h \in Groups : h # from /\ h # to => n[h] = f[h]
  PROVE  IsFiniteSet(Stacks(n)) /\ Cardinality(Stacks(n)) = Cardinality(Stacks(f))
<1> DEFINE Put(x) == IF x[1] = from THEN <<to, f[to] + x[2]>> ELSE x
           put == [x \in Stacks(f) |-> Put(x)]
<1>1. \A h \in Groups : f[h] \in Nat /\ n[h] \in Nat
  BY DEF Counts
<1>2. ASSUME NEW x \in Stacks(f)
      PROVE  Put(x) \in Stacks(n)
  <2>1. /\ x \in Groups \X Nat /\ x[1] \in Groups /\ x[2] \in Nat
        /\ x[2] \in 1 .. f[x[1]] /\ x = <<x[1], x[2]>>
    BY DEF Stacks
  <2>2. CASE x[1] = from
    <3>1. f[to] + x[2] \in Nat /\ f[to] + x[2] \in 1 .. n[to]
      BY <1>1, <2>1, <2>2
    <3> QED
      BY <2>2, <3>1 DEF Stacks
  <2>3. CASE x[1] # from
    <3>1. x[2] \in 1 .. n[x[1]]
      BY <1>1, <2>1, <2>3
    <3> QED
      BY <2>1, <2>3, <3>1 DEF Stacks
  <2> QED
    BY <2>2, <2>3
<1>3. ASSUME NEW x \in Stacks(f), NEW y \in Stacks(f), Put(x) = Put(y)
      PROVE  x = y
  <2>1. /\ x[1] \in Groups /\ x[2] \in 1 .. f[x[1]] /\ x = <<x[1], x[2]>>
        /\ y[1] \in Groups /\ y[2] \in 1 .. f[y[1]] /\ y = <<y[1], y[2]>>
    BY DEF Stacks
  <2>2. x[2] \in Nat /\ y[2] \in Nat /\ x[2] > 0 /\ y[2] > 0 /\ f[to] \in Nat
    BY <1>1, <2>1
  <2>3. CASE x[1] = from /\ y[1] = from
    <3>1. <<to, f[to] + x[2]>> = <<to, f[to] + y[2]>>
      BY <1>3, <2>3
    <3>2. x[2] = y[2]
      BY <2>2, <3>1
    <3> QED
      BY <2>1, <2>3, <3>2
  <2>4. CASE x[1] = from /\ y[1] # from
    <3>1. y[1] = to /\ y[2] = f[to] + x[2]
      BY <1>3, <2>1, <2>4
    <3> QED
      BY <2>1, <2>2, <3>1
  <2>5. CASE x[1] # from /\ y[1] = from
    <3>1. x[1] = to /\ x[2] = f[to] + y[2]
      BY <1>3, <2>1, <2>5
    <3> QED
      BY <2>1, <2>2, <3>1
  <2>6. CASE x[1] # from /\ y[1] # from
    BY <1>3, <2>6
  <2> QED
    BY <2>3, <2>4, <2>5, <2>6
<1>4. ASSUME NEW y \in Stacks(n)
      PROVE  \E x \in Stacks(f) : Put(x) = y
  <2>1. /\ y[1] \in Groups /\ y[2] \in Nat /\ y[2] \in 1 .. n[y[1]] /\ y = <<y[1], y[2]>>
        /\ y \in Groups \X Nat
    BY DEF Stacks
  <2>2. CASE y[1] = to /\ y[2] > f[to]
    <3>1. y[2] - f[to] \in Nat /\ y[2] - f[to] \in 1 .. f[from] /\ f[to] + (y[2] - f[to]) = y[2]
      BY <1>1, <2>1, <2>2
    <3>2. <<from, y[2] - f[to]>> \in Stacks(f)
      BY <3>1 DEF Stacks
    <3>3. Put(<<from, y[2] - f[to]>>) = y
      BY <2>1, <2>2, <3>1
    <3> QED
      BY <3>2, <3>3
  <2>3. CASE ~(y[1] = to /\ y[2] > f[to])
    <3>1. y[1] # from /\ y[2] \in 1 .. f[y[1]]
      BY <1>1, <2>1, <2>3
    <3>2. y \in Stacks(f) /\ Put(y) = y
      BY <2>1, <3>1 DEF Stacks
    <3> QED
      BY <3>2
  <2> QED
    BY <2>2, <2>3
<1> HIDE DEF Put
<1>5. put \in Bijection(Stacks(f), Stacks(n))
  BY <1>2, <1>3, <1>4 DEF Bijection, Injection, Surjection, IsInjective
<1>6. ExistsBijection(Stacks(f), Stacks(n))
  BY <1>5 DEF ExistsBijection
<1> QED
  BY <1>6, FS_Bijection

\* After a step too.
LEMMA DotsAreStacksNext ==
  (TypeOK => \A u \in Users, r \in Retros :
               Held(u, r) \in Counts /\ Dots(u, r) = Stacks(Held(u, r)))'
BY DotsAreStacks, PTL

\* Votes can be counted, and nobody has more than any limit allows.
Counted ==
  \A r \in Retros, u \in Users : IsFiniteSet(Dots(u, r)) /\ Used(u, r) <= MaxVotesCap

\* Casting a vote adds one to the voter's in that retro.
LEMMA VoteOnUsed ==
  ASSUME TypeOK, TypeOK', Healthy, Counted, NEW r \in Retros, NEW u \in Users, NEW g \in Groups,
         VoteOn(r, u, g), NEW q \in Retros, NEW v \in Users
  PROVE  /\ IsFiniteSet(Dots(v, q)')
         /\ Used(v, q)' = IF q = r /\ v = u THEN Used(v, q) + 1 ELSE Used(v, q)
<1> DEFINE f == Held(v, q)
           n == Held(v, q)'
<1>1. /\ f \in Counts /\ Dots(v, q) = Stacks(f) /\ n \in Counts /\ Dots(v, q)' = Stacks(n)
      /\ IsFiniteSet(Stacks(f))
  BY DotsAreStacks, DotsAreStacksNext DEF Counted
<1>2. /\ vote' = [vote EXCEPT ![g][u] = OneMore(r, vote[g][u])] /\ GroupIn(r, g)
  BY DEF VoteOn
<1>3. /\ \A h \in Groups : h # g \/ v # u => vote'[h][v] = vote[h][v]
      /\ vote'[g][u] = OneMore(r, vote[g][u])
  BY <1>2 DEF TypeOK
<1>4. \A h \in Groups : vote'[h][v] = vote[h][v] => n[h] = f[h]
  BY DEF Held
<1>5. CASE q = r /\ v = u
  <2>1. n[g] = f[g] + 1
    <3>1. CASE vote[g][u] = None
      <4>1. vote'[g][u] = [retro |-> r, count |-> 1] /\ vote'[g][u] \in VoteRow
        BY <1>3, <3>1 DEF OneMore, VoteRow
      <4> QED
        BY <1>5, <3>1, <4>1, RowsAssumption DEF Held
    <3>2. CASE vote[g][u] # None
      <4>1. vote[g][u] \in VoteRow /\ vote[g][u].retro = r
        BY <1>2, <3>2 DEF TypeOK, Healthy, VotesOnGroups, GroupIn
      <4>2. vote'[g][u] = [vote[g][u] EXCEPT !.count = @ + 1]
        BY <1>3, <3>2 DEF OneMore
      <4>3. /\ vote'[g][u] \in VoteRow /\ vote'[g][u].retro = r
            /\ vote'[g][u].count = vote[g][u].count + 1
        BY <4>1, <4>2 DEF VoteRow
      <4>4. vote'[g][u] # None
        BY <4>3, RowsAssumption
      <4> QED
        BY <1>5, <3>2, <4>1, <4>3, <4>4 DEF Held
    <3> QED
      BY <3>1, <3>2
  <2>2. \A h \in Groups : h # g => n[h] = f[h]
    BY <1>3, <1>4
  <2> HIDE DEF f, n
  <2>3. IsFiniteSet(Stacks(n)) /\ Cardinality(Stacks(n)) = Cardinality(Stacks(f)) + 1
    BY <1>1, <2>1, <2>2, StacksGrow
  <2> QED
    BY <1>1, <1>5, <2>3 DEF Used
<1>6. CASE ~(q = r /\ v = u)
  <2>1. n[g] = f[g]
    <3>1. CASE v # u
      BY <1>3, <1>4, <3>1
    <3>2. CASE v = u /\ q # r
      <4>1. f[g] = 0
        BY <1>2, <3>2 DEF Held, Healthy, VotesOnGroups, GroupIn
      <4>2. vote'[g][u] # None => vote'[g][u].retro = r
        BY <1>2, <1>3 DEF OneMore, TypeOK, VoteRow, Healthy, VotesOnGroups, GroupIn
      <4> QED
        BY <3>2, <4>1, <4>2 DEF Held
    <3> QED
      BY <1>6, <3>1, <3>2
  <2>2. \A h \in Groups : n[h] = f[h]
    BY <1>3, <1>4, <2>1
  <2> HIDE DEF f, n
  <2>3. n = f
    BY <1>1, <2>2 DEF Counts
  <2> QED
    BY <1>1, <1>6, <2>3 DEF Used
<1> QED
  BY <1>5, <1>6

\* Taking one back takes one off.
LEMMA TakeBackUsed ==
  ASSUME TypeOK, TypeOK', Healthy, Counted, NEW r \in Retros, NEW u \in Users, NEW g \in Groups,
         TakeBackVote(r, u, g), NEW q \in Retros, NEW v \in Users
  PROVE  /\ IsFiniteSet(Dots(v, q)')
         /\ Used(v, q) = IF q = r /\ v = u THEN Used(v, q)' + 1 ELSE Used(v, q)'
<1> DEFINE f == Held(v, q)
           n == Held(v, q)'
<1>1. /\ f \in Counts /\ Dots(v, q) = Stacks(f) /\ n \in Counts /\ Dots(v, q)' = Stacks(n)
      /\ IsFiniteSet(Stacks(f))
  BY DotsAreStacks, DotsAreStacksNext DEF Counted
<1>2. /\ vote' = [vote EXCEPT ![g][u] = OneFewer(vote[g][u])]
      /\ vote[g][u] # None /\ vote[g][u].retro = r /\ vote[g][u] \in VoteRow
  BY DEF TakeBackVote, TypeOK
<1>3. /\ \A h \in Groups : h # g \/ v # u => vote'[h][v] = vote[h][v]
      /\ vote'[g][u] = OneFewer(vote[g][u])
  BY <1>2 DEF TypeOK
<1>4. \A h \in Groups : vote'[h][v] = vote[h][v] => n[h] = f[h]
  BY DEF Held
<1>5. /\ vote[g][u].count = 1 => vote'[g][u] = None
      /\ vote[g][u].count # 1 => /\ vote'[g][u].retro = r /\ vote'[g][u] # None
                                 /\ vote'[g][u].count + 1 = vote[g][u].count
  <2>1. CASE vote[g][u].count = 1
    BY <1>3, <2>1 DEF OneFewer
  <2>2. CASE vote[g][u].count # 1
    <3>1. vote'[g][u] = [vote[g][u] EXCEPT !.count = @ - 1]
      BY <1>3, <2>2 DEF OneFewer
    <3>2. /\ vote'[g][u] \in VoteRow /\ vote'[g][u].retro = r
          /\ vote'[g][u].count = vote[g][u].count - 1 /\ vote[g][u].count \in Nat
      BY <1>2, <2>2, <3>1 DEF VoteRow
    <3> QED
      BY <2>2, <3>2, RowsAssumption
  <2> QED
    BY <2>1, <2>2
<1>6. CASE q = r /\ v = u
  <2>1. f[g] = n[g] + 1
    BY <1>2, <1>5, <1>6 DEF Held
  <2>2. \A h \in Groups : h # g => f[h] = n[h]
    BY <1>3, <1>4
  <2> HIDE DEF f, n
  <2>3. \A h \in Groups : n[h] \in Nat /\ n[h] <= f[h]
    BY <1>1, <2>1, <2>2 DEF Counts
  <2>4. IsFiniteSet(Stacks(n))
    BY <1>1, <2>3, StacksShrink
  <2>5. Cardinality(Stacks(f)) = Cardinality(Stacks(n)) + 1
    BY <1>1, <2>1, <2>2, <2>4, StacksGrow
  <2> QED
    BY <1>1, <1>6, <2>4, <2>5 DEF Used
<1>7. CASE ~(q = r /\ v = u)
  <2>1. n[g] = f[g]
    <3>1. CASE v # u
      BY <1>3, <1>4, <3>1
    <3>2. CASE v = u /\ q # r
      BY <1>2, <1>5, <3>2 DEF Held
    <3> QED
      BY <1>7, <3>1, <3>2
  <2>2. \A h \in Groups : n[h] = f[h]
    BY <1>3, <1>4, <2>1
  <2> HIDE DEF f, n
  <2>3. n = f
    BY <1>1, <2>2 DEF Counts
  <2> QED
    BY <1>1, <1>7, <2>3 DEF Used
<1> QED
  BY <1>6, <1>7

\* Deleting a note can only take votes in its retro along.
LEMMA DeleteNoteUsed ==
  ASSUME TypeOK, TypeOK', Healthy, Counted, NEW r \in Retros, NEW u \in Users, NEW m \in Notes,
         DeleteNote(r, u, m), NEW q \in Retros, NEW v \in Users
  PROVE  /\ IsFiniteSet(Dots(v, q)')
         /\ IF q = r THEN Used(v, q)' <= Used(v, q) ELSE Used(v, q)' = Used(v, q)
<1> DEFINE f == Held(v, q)
           n == Held(v, q)'
           from == note[m].group
<1>1. /\ f \in Counts /\ Dots(v, q) = Stacks(f) /\ n \in Counts /\ Dots(v, q)' = Stacks(n)
      /\ IsFiniteSet(Stacks(f))
  BY DotsAreStacks, DotsAreStacksNext DEF Counted
<1>2. /\ from \in Groups /\ group[from] # None /\ group[from].retro = r
      /\ \A h \in Groups : vote'[h] = vote[h] \/ (h = from /\ vote'[h] = NoVotes)
  <2>1. from \in Groups /\ group[from] # None /\ group[from].retro = r
    BY DEF DeleteNote, NoteIn, TypeOK, NoteRow, Healthy, NotesInGroups, GroupIn
  <2> QED
    BY <2>1 DEF DeleteNote, DeleteGroups, DroppedIfEmpty
<1>3. \A h \in Groups : n[h] = f[h] \/ (h = from /\ n[h] = 0)
  BY <1>2 DEF Held, NoVotes
<1>4. q # r => f[from] = 0
  BY <1>2 DEF Held, Healthy, VotesOnGroups, GroupIn
<1> HIDE DEF f, n
<1>5. \A h \in Groups : n[h] <= f[h]
  BY <1>1, <1>3 DEF Counts
<1>6. IsFiniteSet(Stacks(n)) /\ Cardinality(Stacks(n)) <= Cardinality(Stacks(f))
  BY <1>1, <1>5, StacksShrink
<1>7. q # r => n = f
  BY <1>1, <1>3, <1>4 DEF Counts
<1> QED
  BY <1>1, <1>6, <1>7 DEF Used

\* Moving a note makes no vote appear or vanish, though its last group goes.
LEMMA RehomeUsed ==
  ASSUME TypeOK, TypeOK', Healthy, Counted,
         NEW m \in Notes, note[m] # None,
         NEW to \in Groups, to # note[m].group, NEW groups,
         group[to] # None => group[to].retro = note[m].retro,
         Rehome(m, to, groups), NEW q \in Retros, NEW v \in Users
  PROVE  IsFiniteSet(Dots(v, q)') /\ Used(v, q)' = Used(v, q)
<1> DEFINE f == Held(v, q)
           n == Held(v, q)'
           from == note[m].group
           r == note[m].retro
           empty == NotesIn(note', from) = {}
<1>1. /\ f \in Counts /\ Dots(v, q) = Stacks(f) /\ n \in Counts /\ Dots(v, q)' = Stacks(n)
      /\ IsFiniteSet(Stacks(f))
  BY DotsAreStacks, DotsAreStacksNext DEF Counted
<1>2. from \in Groups /\ group[from] # None /\ group[from].retro = r
  BY DEF TypeOK, NoteRow, Healthy, NotesInGroups, GroupIn
<1>3. \A g \in {from, to} : vote[g][v] # None => vote[g][v].retro = r
  BY <1>2 DEF Healthy, VotesOnGroups, GroupIn
<1>4. \A g \in Groups : vote'[g] = IF empty /\ g = from THEN NoVotes
                                   ELSE IF empty /\ g = to THEN Merge(vote[to], vote[from])
                                   ELSE vote[g]
  BY <1>2 DEF Rehome, DeleteGroups, DroppedIfEmpty, TypeOK
<1>5. CASE ~empty
  <2>1. \A g \in Groups : vote'[g] = vote[g]
    BY <1>4, <1>5
  <2>2. \A g \in Groups : n[g] = f[g]
    BY <2>1 DEF Held
  <2> HIDE DEF f, n
  <2>3. n = f
    BY <1>1, <2>2 DEF Counts
  <2> QED
    BY <1>1, <2>3 DEF Used
<1>6. CASE empty
  <2>1. n[from] = 0
    BY <1>2, <1>4, <1>6 DEF Held, NoVotes
  <2>2. \A g \in Groups : g # from /\ g # to => n[g] = f[g]
    BY <1>4, <1>6 DEF Held
  <2>3. /\ vote[to] \in VotesOfGroup /\ vote[from] \in VotesOfGroup
        /\ vote'[to] = Merge(vote[to], vote[from])
    BY <1>2, <1>4, <1>6 DEF TypeOK, VotesOfGroup
  <2>4. CountOf(vote'[to][v]) = CountOf(vote[from][v]) + CountOf(vote[to][v])
    BY <2>3, MergeCounts
  <2>5. vote'[to][v] # None => vote'[to][v].retro = r
    <3>1. CASE vote[from][v] # None /\ vote[to][v] # None
      <4>1. /\ vote[to][v] \in VoteRow /\ vote[to][v].retro = r
            /\ vote'[to][v] = [vote[to][v] EXCEPT !.count = @ + vote[from][v].count]
        BY <1>3, <2>3, <3>1 DEF Merge, VotesOfGroup
      <4> QED
        BY <4>1 DEF VoteRow
    <3>2. CASE ~(vote[from][v] # None /\ vote[to][v] # None)
      BY <1>3, <2>3, <3>2 DEF Merge
    <3> QED
      BY <3>1, <3>2
  <2>6. /\ q = r => /\ f[from] = CountOf(vote[from][v]) /\ f[to] = CountOf(vote[to][v])
                    /\ n[to] = CountOf(vote'[to][v])
        /\ q # r => f[from] = 0 /\ f[to] = 0 /\ n[to] = 0
    BY <1>2, <1>3, <2>5 DEF Held, CountOf
  <2>7. f[from] \in Nat /\ f[to] \in Nat
    BY <1>1, <1>2 DEF Counts
  <2> HIDE DEF f, n
  <2>8. n[to] = f[to] + f[from]
    BY <2>4, <2>6, <2>7
  <2>9. IsFiniteSet(Stacks(n)) /\ Cardinality(Stacks(n)) = Cardinality(Stacks(f))
    BY <1>1, <1>2, <2>1, <2>2, <2>8, StacksMerge
  <2> QED
    BY <1>1, <2>9 DEF Used
<1> QED
  BY <1>5, <1>6

\* Where no vote changes, nor do the sums.
LEMMA SameVotesUsed ==
  ASSUME Counted, vote' = vote, NEW q \in Retros, NEW v \in Users
  PROVE  IsFiniteSet(Dots(v, q)') /\ Used(v, q)' = Used(v, q)
BY DEF Counted, Used, Dots

---------------------------------------------------------------------------
(* The store implements Ballot *)

\* The stages as phases.
LEMMA PhasesOfStages ==
  /\ PhaseOf(None) = "none" /\ PhaseOf(Reflect) = "arranging" /\ PhaseOf(Group) = "arranging"
  /\ PhaseOf(Vote) = "voting" /\ PhaseOf(Discuss) = "discussing"
  /\ \A s \in Stages : PhaseOf(s) # "none" /\ s # None
  /\ \A s \in Stages : s = Reflect \/ s = Group \/ s = Vote \/ s = Discuss
BY RowsAssumption DEF PhaseOf, Stages, Reflect, Group, Vote, Discuss

\* Votes, notes, limits and phases are all that Ballot sees.
LEMMA NothingToBallot ==
  ASSUME maxVotes' = maxVotes,
         \A q \in Retros : PhaseOf(stage'[q]) = PhaseOf(stage[q]),
         \A q \in Retros, m \in Notes : NoteIn(q, m)' <=> NoteIn(q, m),
         \A q \in Retros, v \in Users : Used(v, q)' = Used(v, q)
  PROVE  UNCHANGED B!ballotVars
<1>1. \A q \in Retros : {m \in Notes : NoteIn(q, m)}' = {m \in Notes : NoteIn(q, m)}
  OBVIOUS
<1> QED
  BY <1>1 DEF B!ballotVars

\* A vote is cast.
LEMMA VoteOnCasts ==
  ASSUME TypeOK, TypeOK', Healthy, Counted, NEW r \in Retros, NEW u \in Users, NEW g \in Groups,
         VoteOn(r, u, g)
  PROVE  B!Cast(r, u) /\ Counted'
<1>1. /\ stage[r] = Vote /\ Used(u, r) < maxVotes[r]
      /\ UNCHANGED <<stage, maxVotes, note>>
  BY DEF VoteOn
<1>2. \A q \in Retros, v \in Users :
        /\ IsFiniteSet(Dots(v, q)')
        /\ Used(v, q)' = IF q = r /\ v = u THEN Used(v, q) + 1 ELSE Used(v, q)
  BY VoteOnUsed
<1>3. B!Cast(r, u)
  BY <1>1, <1>2, PhasesOfStages DEF B!Cast, NoteIn
<1>4. Used(u, r) \in Nat /\ maxVotes[r] \in 1 .. MaxVotesCap
  BY FS_CardinalityType DEF Counted, Used, TypeOK
<1>5. Used(u, r) + 1 <= MaxVotesCap
  BY <1>1, <1>4, LimitsAssumption
<1> QED
  BY <1>2, <1>3, <1>5 DEF Counted

\* A vote is taken back.
LEMMA TakeBackTakesBack ==
  ASSUME TypeOK, TypeOK', Healthy, Counted, NEW r \in Retros, NEW u \in Users, NEW g \in Groups,
         TakeBackVote(r, u, g)
  PROVE  B!TakeBack(r, u) /\ Counted'
<1>1. stage[r] = Vote /\ UNCHANGED <<stage, maxVotes, note>>
  BY DEF TakeBackVote
<1>2. \A q \in Retros, v \in Users :
        /\ IsFiniteSet(Dots(v, q)')
        /\ Used(v, q) = IF q = r /\ v = u THEN Used(v, q)' + 1 ELSE Used(v, q)'
  BY TakeBackUsed
<1>3. \A q \in Retros, v \in Users : Used(v, q)' \in Nat
  BY <1>2, FS_CardinalityType DEF Used
<1>4. Used(u, r) > 0 /\ Used(u, r)' = Used(u, r) - 1
  BY <1>2, <1>3
<1>5. B!TakeBack(r, u)
  BY <1>1, <1>2, <1>4, PhasesOfStages DEF B!TakeBack, NoteIn
<1>6. \A q \in Retros, v \in Users : Used(v, q)' <= Used(v, q)
  BY <1>2, <1>3
<1>7. \A q \in Retros, v \in Users : Used(v, q)' <= MaxVotesCap
  <2> TAKE q \in Retros, v \in Users
  <2>1. Used(v, q)' \in Nat /\ Used(v, q)' <= Used(v, q) /\ Used(v, q) <= MaxVotesCap
    BY <1>3, <1>6 DEF Counted
  <2>2. Used(v, q) \in Nat
    BY <1>2, <2>1
  <2> QED
    BY <2>1, <2>2, LimitsAssumption
<1> QED
  BY <1>2, <1>5, <1>7 DEF Counted

\* A note is deleted, with what votes it takes along.
LEMMA DeleteNoteErases ==
  ASSUME TypeOK, TypeOK', Healthy, Counted, NEW r \in Retros, NEW u \in Users, NEW m \in Notes,
         DeleteNote(r, u, m)
  PROVE  B!Erase(r, m) /\ Counted'
<1>1. /\ stage[r] \in {Reflect, Group} /\ NoteIn(r, m)
      /\ note' = [note EXCEPT ![m] = None] /\ UNCHANGED <<stage, maxVotes>>
  BY DEF DeleteNote
<1>2. \A q \in Retros, v \in Users :
        /\ IsFiniteSet(Dots(v, q)')
        /\ IF q = r THEN Used(v, q)' <= Used(v, q) ELSE Used(v, q)' = Used(v, q)
  BY DeleteNoteUsed
<1>3. \A q \in Retros, v \in Users : Used(v, q)' \in Nat /\ Used(v, q) \in Nat
  BY <1>2, FS_CardinalityType DEF Used, Counted
<1>4. \A q \in Retros, v \in Users : Used(v, q)' <= MaxVotesCap
  <2> TAKE q \in Retros, v \in Users
  <2>1. /\ Used(v, q)' \in Nat /\ Used(v, q)' <= Used(v, q)
        /\ Used(v, q) <= MaxVotesCap /\ Used(v, q) \in Nat
    BY <1>2, <1>3 DEF Counted
  <2> QED
    BY <2>1, LimitsAssumption
<1>5. \A q \in Retros, l \in Notes : NoteIn(q, l)' <=> NoteIn(q, l) /\ ~(q = r /\ l = m)
  BY <1>1 DEF NoteIn, TypeOK
<1> DEFINE left == [v \in Users |-> Used(v, r)']
<1>6. left \in [Users -> 0 .. MaxVotesCap] /\ \A v \in Users : left[v] <= Used(v, r)
  BY <1>2, <1>3, <1>4, LimitsAssumption
<1>7. [q \in Retros |-> [v \in Users |-> Used(v, q)]]'
        = [[q \in Retros |-> [v \in Users |-> Used(v, q)]] EXCEPT ![r] = left]
  BY <1>2
<1>8. [q \in Retros |-> {l \in Notes : NoteIn(q, l)}]'
        = [[q \in Retros |-> {l \in Notes : NoteIn(q, l)}] EXCEPT ![r] = @ \ {m}]
  BY <1>5
<1>9. PhaseOf(stage[r]) = "arranging"
  BY <1>1, PhasesOfStages
<1> HIDE DEF left
<1>10. B!Erase(r, m)
  BY <1>1, <1>6, <1>7, <1>8, <1>9 DEF B!Erase
<1> QED
  BY <1>2, <1>4, <1>10 DEF Counted

\* A note is written.
LEMMA AddNoteWrites ==
  ASSUME TypeOK, Counted, NEW r \in Retros, NEW u \in Users, NEW c \in Columns,
         NEW text \in Texts, NEW g \in Groups, NEW m \in Notes, AddNote(r, u, c, text, g, m)
  PROVE  B!Write(r, m) /\ Counted'
<1>1. /\ stage[r] \in {Reflect, Group} /\ note[m] = None
      /\ note' = [note EXCEPT ![m] = [retro |-> r, group |-> g, author |-> u, text |-> text]]
      /\ UNCHANGED <<stage, maxVotes, vote>>
  BY DEF AddNote
<1>2. \A q \in Retros, v \in Users : IsFiniteSet(Dots(v, q)') /\ Used(v, q)' = Used(v, q)
  BY <1>1, SameVotesUsed
<1>3. /\ note'[m] \in NoteRow /\ note'[m].retro = r /\ note'[m] # None
      /\ \A l \in Notes : l # m => note'[l] = note[l]
  <2>1. note'[m] = [retro |-> r, group |-> g, author |-> u, text |-> text]
        /\ \A l \in Notes : l # m => note'[l] = note[l]
    BY <1>1 DEF TypeOK
  <2> QED
    BY <2>1, RowsAssumption DEF NoteRow
<1>4. \A q \in Retros, l \in Notes : NoteIn(q, l)' <=> NoteIn(q, l) \/ (q = r /\ l = m)
  BY <1>1, <1>3 DEF NoteIn
<1>5. [q \in Retros |-> {l \in Notes : NoteIn(q, l)}]'
        = [[q \in Retros |-> {l \in Notes : NoteIn(q, l)}] EXCEPT ![r] = @ \cup {m}]
  BY <1>4
<1>6. PhaseOf(stage[r]) = "arranging"
  BY <1>1, PhasesOfStages
<1>7. B!Write(r, m)
  BY <1>1, <1>2, <1>5, <1>6 DEF B!Write
<1> QED
  BY <1>2, <1>7 DEF Counted

\* A note is moved: Ballot sees nothing of it.
LEMMA RehomeIsNothing ==
  ASSUME TypeOK, TypeOK', Healthy, Counted,
         NEW m \in Notes, note[m] # None,
         NEW to \in Groups, to # note[m].group, NEW groups,
         group[to] # None => group[to].retro = note[m].retro,
         Rehome(m, to, groups)
  PROVE  UNCHANGED B!ballotVars /\ Counted'
<1>1. \A q \in Retros, v \in Users : IsFiniteSet(Dots(v, q)') /\ Used(v, q)' = Used(v, q)
  BY RehomeUsed
<1>2. note' = [note EXCEPT ![m].group = to] /\ UNCHANGED <<stage, maxVotes>>
  BY DEF Rehome
<1>3. note'[m].retro = note[m].retro /\ note'[m] # None /\ \A l \in Notes : l # m => note'[l] = note[l]
  <2>1. /\ note[m] \in NoteRow /\ note'[m] = [note[m] EXCEPT !.group = to]
        /\ \A l \in Notes : l # m => note'[l] = note[l]
    BY <1>2 DEF TypeOK
  <2>2. [note[m] EXCEPT !.group = to] \in NoteRow
    BY <2>1 DEF NoteRow
  <2> QED
    BY <2>1, <2>2, RowsAssumption DEF NoteRow
<1>4. \A q \in Retros, l \in Notes : NoteIn(q, l)' <=> NoteIn(q, l)
  BY <1>3 DEF NoteIn
<1> QED
  BY <1>1, <1>2, <1>4, NothingToBallot DEF Counted

\* A retro's own commands: created, it opens; its limit is set; it turns from
\* one phase to the next, or stays in one.
LEMMA RetroNextBallot ==
  ASSUME TypeOK, Healthy, Counted, NEW r \in Retros, RetroNext(r)
  PROVE  [B!Next]_B!ballotVars /\ Counted'
<1>1. vote' = vote /\ note' = note
  <2>1. ASSUME NEW c \in Columns, DeleteColumn(r, c)
        PROVE  vote' = vote /\ note' = note
    <3>1. {g \in Groups : group[g] # None /\ group[g].column = c} = {}
      BY <2>1 DEF DeleteColumn, Healthy, GroupsHaveNotes
    <3>2. vote' = [g \in Groups |-> vote[g]]
      BY <2>1, <3>1 DEF DeleteColumn, DeleteGroups
    <3> QED
      BY <2>1, <3>2 DEF DeleteColumn, TypeOK
  <2> QED
    BY <2>1 DEF RetroNext, CreateRetro, UpdateRetro, SetStage, AddColumn, Spotlight
<1>2. \A q \in Retros, v \in Users : IsFiniteSet(Dots(v, q)') /\ Used(v, q)' = Used(v, q)
  BY <1>1, SameVotesUsed
<1>3. \A q \in Retros, l \in Notes : NoteIn(q, l)' <=> NoteIn(q, l)
  BY <1>1 DEF NoteIn
<1>4. Counted'
  BY <1>2 DEF Counted
<1>5. /\ [q \in Retros |-> [v \in Users |-> Used(v, q)]]'
           = [q \in Retros |-> [v \in Users |-> Used(v, q)]]
      /\ [q \in Retros |-> {l \in Notes : NoteIn(q, l)}]'
           = [q \in Retros |-> {l \in Notes : NoteIn(q, l)}]
  BY <1>2, <1>3
<1>6. ASSUME NEW cs \in SUBSET Columns, CreateRetro(r, cs)
      PROVE  B!Open(r)
  <2>1. /\ stage[r] = None /\ stage' = [stage EXCEPT ![r] = Reflect]
        /\ maxVotes' = [maxVotes EXCEPT ![r] = DefaultVotes]
    BY <1>6 DEF CreateRetro
  <2>2. [q \in Retros |-> PhaseOf(stage[q])]'
          = [[q \in Retros |-> PhaseOf(stage[q])] EXCEPT ![r] = "arranging"]
    BY <2>1, PhasesOfStages DEF TypeOK
  <2> QED
    BY <1>5, <2>1, <2>2, PhasesOfStages DEF B!Open
<1>7. ASSUME NEW limit \in 1 .. MaxVotesCap, UpdateRetro(r, limit)
      PROVE  B!SetLimit(r, limit)
  <2>1. /\ stage[r] # None /\ stage' = stage /\ maxVotes' = [maxVotes EXCEPT ![r] = limit]
    BY <1>7 DEF UpdateRetro
  <2>2. PhaseOf(stage[r]) # "none"
    BY <2>1, PhasesOfStages DEF TypeOK
  <2> QED
    BY <1>5, <2>1, <2>2 DEF B!SetLimit
<1>8. ASSUME NEW to \in Stages, SetStage(r, to)
      PROVE  UNCHANGED B!ballotVars \/ B!Turn(r, PhaseOf(to))
  <2>1. /\ stage[r] \in Stages /\ to - stage[r] \in {1, -1} /\ maxVotes' = maxVotes
        /\ stage' = [stage EXCEPT ![r] = to]
    BY <1>8 DEF SetStage, TypeOK
  <2>2. [q \in Retros |-> PhaseOf(stage[q])]'
          = [[q \in Retros |-> PhaseOf(stage[q])] EXCEPT ![r] = PhaseOf(to)]
    BY <2>1 DEF TypeOK
  <2>3. \/ {stage[r], to} = {Reflect, Group}
        \/ {stage[r], to} = {Group, Vote}
        \/ {stage[r], to} = {Vote, Discuss}
    BY <2>1 DEF Stages, Reflect, Group, Vote, Discuss
  <2>4. \/ PhaseOf(to) = PhaseOf(stage[r])
        \/ {PhaseOf(stage[r]), PhaseOf(to)} \in {{"arranging", "voting"}, {"voting", "discussing"}}
    BY <2>3, PhasesOfStages
  <2>5. CASE PhaseOf(to) = PhaseOf(stage[r])
    <3>1. \A q \in Retros : PhaseOf(stage'[q]) = PhaseOf(stage[q])
      BY <2>1, <2>5 DEF TypeOK
    <3> QED
      BY <1>2, <1>3, <2>1, <3>1, NothingToBallot
  <2>6. CASE {PhaseOf(stage[r]), PhaseOf(to)} \in {{"arranging", "voting"}, {"voting", "discussing"}}
    BY <1>5, <2>1, <2>2, <2>6 DEF B!Turn
  <2> QED
    BY <2>4, <2>5, <2>6
<1>9. ASSUME NEW to \in Stages
      PROVE  PhaseOf(to) \in B!Phases
  BY <1>9, PhasesOfStages DEF B!Phases
<1>10. ASSUME UNCHANGED <<stage, maxVotes>>
       PROVE  UNCHANGED B!ballotVars
  BY <1>2, <1>3, <1>10, NothingToBallot
<1>11. [B!Next]_B!ballotVars
  <2>1. ASSUME NEW cs \in SUBSET Columns, CreateRetro(r, cs)
        PROVE  B!Next
    BY <1>6, <2>1 DEF B!Next
  <2>2. ASSUME NEW limit \in 1 .. MaxVotesCap, UpdateRetro(r, limit)
        PROVE  B!Next
    BY <1>7, <2>2 DEF B!Next
  <2>3. ASSUME NEW to \in Stages, SetStage(r, to)
        PROVE  [B!Next]_B!ballotVars
    BY <1>8, <1>9, <2>3 DEF B!Next
  <2>4. ASSUME \/ \E c \in Columns : AddColumn(r, c) \/ DeleteColumn(r, c)
               \/ \E g \in Groups \cup {None} : Spotlight(r, g)
        PROVE  UNCHANGED B!ballotVars
    BY <1>10, <2>4 DEF AddColumn, DeleteColumn, Spotlight
  <2> QED
    BY <2>1, <2>2, <2>3, <2>4 DEF RetroNext
<1> QED
  BY <1>4, <1>11

\* People's commands: notes are written and deleted, votes cast and taken back;
\* all else, the moving of notes too, Ballot sees nothing of.
LEMMA NoteNextBallot ==
  ASSUME TypeOK, TypeOK', Healthy, Counted, NEW r \in Retros, NEW u \in Users, NoteNext(r, u)
  PROVE  [B!Next]_B!ballotVars /\ Counted'
<1>1. ASSUME NEW c \in Columns, NEW text \in Texts, NEW g \in Groups, NEW m \in Notes,
             AddNote(r, u, c, text, g, m)
      PROVE  B!Next /\ Counted'
  BY <1>1, AddNoteWrites DEF B!Next
<1>2. ASSUME NEW m \in Notes, DeleteNote(r, u, m)
      PROVE  B!Next /\ Counted'
  BY <1>2, DeleteNoteErases DEF B!Next
<1>3. ASSUME NEW g \in Groups, VoteOn(r, u, g)
      PROVE  B!Next /\ Counted'
  BY <1>3, VoteOnCasts DEF B!Next
<1>4. ASSUME NEW g \in Groups, TakeBackVote(r, u, g)
      PROVE  B!Next /\ Counted'
  BY <1>4, TakeBackTakesBack DEF B!Next
<1>5. ASSUME NEW m \in Notes, NEW g \in Groups, MoveIntoGroup(r, m, g)
      PROVE  UNCHANGED B!ballotVars /\ Counted'
  BY <1>5, RehomeIsNothing DEF MoveIntoGroup, NoteIn, GroupIn
<1>6. ASSUME NEW m \in Notes, NEW c \in Columns, NEW g \in Groups, MoveToColumn(r, u, m, c, g)
      PROVE  UNCHANGED B!ballotVars /\ Counted'
  <2>1. /\ note[m] # None /\ group[g] = None
        /\ Rehome(m, g, [group EXCEPT ![g] = NewGroup(r, c)])
    BY <1>6 DEF MoveToColumn, NoteIn
  <2>2. g # note[m].group
    BY <2>1 DEF Healthy, NotesInGroups, GroupIn
  <2> QED
    BY <2>1, <2>2, RehomeIsNothing
<1>7. ASSUME UNCHANGED <<stage, maxVotes, vote>>,
             \A q \in Retros, l \in Notes : NoteIn(q, l)' <=> NoteIn(q, l)
      PROVE  UNCHANGED B!ballotVars /\ Counted'
  <2>1. \A q \in Retros, v \in Users : IsFiniteSet(Dots(v, q)') /\ Used(v, q)' = Used(v, q)
    BY <1>7, SameVotesUsed
  <2> QED
    BY <1>7, <2>1, NothingToBallot DEF Counted
<1>8. ASSUME NEW m \in Notes, NEW text \in Texts, EditNote(r, u, m, text)
      PROVE  UNCHANGED B!ballotVars /\ Counted'
  <2>1. /\ note[m] # None /\ note' = [note EXCEPT ![m].text = text]
        /\ UNCHANGED <<stage, maxVotes, vote>>
    BY <1>8 DEF EditNote, NoteIn
  <2>2. note'[m] \in NoteRow /\ note'[m].retro = note[m].retro /\ note'[m] # None
        /\ \A l \in Notes : l # m => note'[l] = note[l]
    <3>1. /\ note[m] \in NoteRow /\ note'[m] = [note[m] EXCEPT !.text = text]
          /\ \A l \in Notes : l # m => note'[l] = note[l]
      BY <2>1 DEF TypeOK
    <3> QED
      BY <3>1, RowsAssumption DEF NoteRow
  <2>3. \A q \in Retros, l \in Notes : NoteIn(q, l)' <=> NoteIn(q, l)
    BY <2>1, <2>2 DEF NoteIn
  <2> QED
    BY <1>7, <2>1, <2>3
<1>9. ASSUME \/ \E g \in Groups, title \in Titles : NameGroup(r, g, title)
             \/ \E m \in Notes, emoji \in Emojis, on \in BOOLEAN : React(r, u, m, emoji, on)
      PROVE  UNCHANGED B!ballotVars /\ Counted'
  <2>1. UNCHANGED <<stage, maxVotes, vote, note>>
    BY <1>9 DEF NameGroup, React
  <2> QED
    BY <1>7, <2>1 DEF NoteIn
<1> QED
  BY <1>1, <1>2, <1>3, <1>4, <1>5, <1>6, <1>8, <1>9 DEF NoteNext

\* No step makes the sums of votes too large, or one that is no ballot's.
LEMMA NextBallot ==
  ASSUME TypeOK, TypeOK', Healthy, Counted, [Next]_vars
  PROVE  [B!Next]_B!ballotVars /\ Counted'
<1>1. CASE UNCHANGED vars
  BY <1>1 DEF vars, B!ballotVars, Counted, Used, Dots, NoteIn
<1> QED
  BY <1>1, RetroNextBallot, NoteNextBallot DEF Next

\* At first nobody has voted.
LEMMA InitBallot == Init => B!Init /\ Counted
<1> SUFFICES ASSUME Init
             PROVE  B!Init /\ Counted
  OBVIOUS
<1>1. \A q \in Retros, v \in Users : Dots(v, q) = {}
  BY DEF Init, Dots, NoVotes
<1>2. \A q \in Retros, v \in Users : IsFiniteSet(Dots(v, q)) /\ Used(v, q) = 0
  BY <1>1, FS_EmptySet DEF Used
<1>3. B!Init
  BY <1>2, PhasesOfStages DEF Init, B!Init, NoteIn
<1> QED
  BY <1>2, <1>3, LimitsAssumption DEF Counted

\* So it stays.
LEMMA AlwaysCounted == Spec => []Counted
<1>1. TypeOK /\ TypeOK' /\ Healthy /\ Counted /\ [Next]_vars => Counted'
  BY NextBallot
<1> QED
  BY <1>1, InitBallot, TypeCorrect, AlwaysHealthy, PTL DEF Spec

\* The store is a ballot: voting alone makes votes appear and vanish, but for
\* those that go with a deleted note, and merging, splitting and moving groups
\* in a reopened retro neither adds nor loses one.
THEOREM StoreImplementsBallot == Spec => ImplementsBallot
<1>1. TypeOK /\ TypeOK' /\ Healthy /\ Counted /\ [Next]_vars => [B!Next]_B!ballotVars
  BY NextBallot
<1> QED
  BY <1>1, InitBallot, AlwaysCounted, TypeCorrect, AlwaysHealthy, PTL
     DEF Spec, ImplementsBallot, B!Spec

\* Nobody ever has more votes in use than the largest limit there can be,
\* whatever the limit was set to while people voted, and however the groups
\* they voted for were merged since.
THEOREM VotesWithinCap == Spec => []B!WithinCap
<1>1. Counted => B!WithinCap
  BY DEF Counted, B!WithinCap
<1> QED
  BY <1>1, AlwaysCounted, PTL

---------------------------------------------------------------------------
(* The boards people are sent *)

\* What is in a board, by name.
LEMMA ShownFields ==
  ASSUME NEW u, NEW r
  PROVE  /\ Shown(u, r).used = Used(u, r)
         /\ Shown(u, r).groups = {GroupShown(u, r, g) :
              g \in {h \in Groups : GroupIn(r, h) /\ NotesIn(note, h) # {}}}
         /\ \A g : /\ GroupShown(u, r, g).id = g
                   /\ GroupShown(u, r, g).myVotes = CountOf(vote[g][u])
                   /\ GroupShown(u, r, g).notes = {NoteShown(u, r, n) : n \in NotesIn(note, g)}
         /\ \A n : NoteShown(u, r, n).id = n
BY DEF Shown, GroupShown, NoteShown

\* Every dot a person has is on a group they are sent, and every note in one.
LEMMA HealthyAddsUp == TypeOK /\ Healthy => BoardAddsUp
<1> SUFFICES ASSUME TypeOK, Healthy, NEW r \in Retros, NEW u \in Users
             PROVE  /\ Cardinality(MyDots(u, Shown(u, r))) = Shown(u, r).used
                    /\ \A n \in Notes : NoteIn(r, n) =>
                         Cardinality({g \in Shown(u, r).groups : n \in {m.id : m \in g.notes}}) = 1
  BY DEF BoardAddsUp
<1> DEFINE sent == {h \in Groups : GroupIn(r, h) /\ NotesIn(note, h) # {}}
<1>1. MyDots(u, Shown(u, r)) = UNION {{g} \X (1 .. CountOf(vote[g][u])) : g \in sent}
  BY ShownFields DEF MyDots
<1>2. \A g \in Groups : vote[g][u] # None /\ vote[g][u].retro = r => g \in sent
  BY DEF Healthy, VotesOnGroups, GroupsHaveNotes, GroupIn
<1>3. ASSUME NEW g \in sent, ~(vote[g][u] # None /\ vote[g][u].retro = r)
      PROVE  1 .. CountOf(vote[g][u]) = {}
  <2>1. vote[g][u] = None
    BY <1>3 DEF Healthy, VotesOnGroups, GroupIn
  <2> QED
    BY <2>1 DEF CountOf
<1>4. MyDots(u, Shown(u, r)) = Dots(u, r)
  BY <1>1, <1>2, <1>3 DEF Dots
<1>5. ASSUME NEW n \in Notes, NoteIn(r, n)
      PROVE  Cardinality({g \in Shown(u, r).groups : n \in {m.id : m \in g.notes}}) = 1
  <2> DEFINE home == note[n].group
  <2>1. home \in sent
    BY <1>5 DEF NoteIn, TypeOK, NoteRow, Healthy, NotesInGroups, NotesIn, GroupIn
  <2>2. ASSUME NEW g \in sent
        PROVE  n \in {m.id : m \in GroupShown(u, r, g).notes} <=> g = home
    <3>1. {m.id : m \in GroupShown(u, r, g).notes} = NotesIn(note, g)
      <4> DEFINE NS(k) == NoteShown(u, r, k)
      <4>1. GroupShown(u, r, g).notes = {NS(k) : k \in NotesIn(note, g)} /\ \A k : NS(k).id = k
        <5>1. GroupShown(u, r, g).notes = {NS(k) : k \in NotesIn(note, g)}
          BY DEF GroupShown
        <5>2. \A k : NS(k).id = k
          BY DEF NoteShown
        <5> QED
          BY <5>1, <5>2
      <4> HIDE DEF NS
      <4>2. {m.id : m \in {NS(k) : k \in NotesIn(note, g)}} = NotesIn(note, g)
        BY <4>1
      <4> QED
        BY <4>1, <4>2
    <3> QED
      BY <1>5, <3>1 DEF NotesIn, NoteIn
  <2>3. {g \in Shown(u, r).groups : n \in {m.id : m \in g.notes}} = {GroupShown(u, r, home)}
    BY <2>1, <2>2, ShownFields
  <2> QED
    BY <2>3, FS_Singleton
<1> QED
  BY <1>4, <1>5, ShownFields DEF Used

\* Nobody's board leaves a note or one of their votes out, or has it twice.
THEOREM BoardsAddUp == Spec => []BoardAddsUp
BY HealthyAddsUp, TypeCorrect, AlwaysHealthy, PTL

\* A note as people may know it is a hidden one's group and size, or all of it,
\* and these are told apart.
LEMMA NotesKnown ==
  ASSUME NEW row \in NoteRow, NEW g, NEW k
  PROVE  row # <<g, k>>
<1>1. DOMAIN row = {"retro", "group", "author", "text"}
  BY DEF NoteRow
<1>2. DOMAIN <<g, k>> = {1, 2}
  OBVIOUS
<1>3. {"retro", "group", "author", "text"} # {1, 2}
  OBVIOUS
<1> QED
  BY <1>1, <1>2, <1>3

\* What people may know is all that shows of what may change.
LEMMA NothingShows ==
  ASSUME TypeOK, TypeOK', Healthy, Healthy', NEW r \in Retros, NEW u \in Users, stage[r] # None,
         UNCHANGED <<stage, maxVotes, spotlight, column, group>>,
         VotesKnown(u, r)' = VotesKnown(u, r), TextsKnown(u, r)' = TextsKnown(u, r),
         ReactionsKnown(r)' = ReactionsKnown(r)
  PROVE  Shown(u, r)' = Shown(u, r)
<1>1. \A n \in Notes : (note'[n] # None /\ note'[n].retro = r) <=> NoteIn(r, n)
  <2>1. /\ DOMAIN TextsKnown(u, r) = {n \in Notes : NoteIn(r, n)}
        /\ DOMAIN TextsKnown(u, r)' = {n \in Notes : note'[n] # None /\ note'[n].retro = r}
    BY DEF TextsKnown, NoteIn
  <2> QED
    BY <2>1
<1>2. ASSUME NEW n \in Notes, NoteIn(r, n)
      PROVE  /\ note'[n].group = note[n].group
             /\ note'[n].author = u <=> note[n].author = u
             /\ note[n].author = u \/ stage[r] # Reflect => note'[n] = note[n]
             /\ SizeOf[note'[n].text] = SizeOf[note[n].text]
  <2>1. /\ note[n] \in NoteRow /\ note'[n] \in NoteRow
        /\ note'[n] # None /\ note'[n].retro = r
    BY <1>1, <1>2 DEF NoteIn, TypeOK
  <2>2. /\ TextsKnown(u, r)[n] = IF note[n].author # u /\ stage[r] = Reflect
                                 THEN <<note[n].group, SizeOf[note[n].text]>> ELSE note[n]
        /\ TextsKnown(u, r)'[n] = IF note'[n].author # u /\ stage'[r] = Reflect
                                  THEN <<note'[n].group, SizeOf[note'[n].text]>> ELSE note'[n]
    BY <1>2, <2>1 DEF TextsKnown, NoteIn
  <2>3. CASE stage[r] = Reflect
    <3>1. note'[n].author = u <=> note[n].author = u
      BY <2>1, <2>2, <2>3, NotesKnown
    <3>2. CASE note[n].author = u
      BY <2>2, <3>1, <3>2
    <3>3. CASE note[n].author # u
      <4>1. <<note'[n].group, SizeOf[note'[n].text]>> = <<note[n].group, SizeOf[note[n].text]>>
        BY <2>2, <2>3, <3>1, <3>3
      <4> QED
        BY <2>3, <3>1, <3>3, <4>1
    <3> QED
      BY <3>2, <3>3
  <2>4. CASE stage[r] # Reflect
    BY <2>2, <2>4
  <2> QED
    BY <2>3, <2>4
<1>3. ASSUME NEW g \in Groups, GroupIn(r, g)
      PROVE  /\ NotesIn(note', g) = NotesIn(note, g)
             /\ \A n \in NotesIn(note, g) : NoteIn(r, n)
  <2>1. group'[g] # None /\ group'[g].retro = r /\ group[g] # None /\ group[g].retro = r
    BY <1>3 DEF GroupIn
  <2>2. \A n \in Notes : note[n] # None /\ note[n].group = g => NoteIn(r, n)
    BY <2>1 DEF Healthy, NotesInGroups, NoteIn, GroupIn
  <2>3. \A n \in Notes : note'[n] # None /\ note'[n].group = g => note'[n].retro = r
    BY <2>1 DEF Healthy, NotesInGroups, GroupIn
  <2> QED
    BY <1>1, <1>2, <2>2, <2>3 DEF NotesIn, NoteIn
<1>4. ASSUME NEW n \in Notes, NoteIn(r, n)
      PROVE  NoteShown(u, r, n)' = NoteShown(u, r, n)
  <2>1. ReactionsShown(u, r, n)' = ReactionsShown(u, r, n)
    <3>1. CASE stage[r] # Discuss
      BY <3>1 DEF ReactionsShown
    <3>2. CASE stage[r] = Discuss
      <4>1. note[n] # None /\ note[n].retro = r /\ note'[n] # None /\ note'[n].retro = r
        BY <1>1, <1>4 DEF NoteIn
      <4>2. \A x \in reaction \cup reaction' : x[1] = n => (x \in reaction' <=> x \in reaction)
        BY <3>2, <4>1 DEF ReactionsKnown, NoteIn
      <4> DEFINE on(e)   == {x \in reaction : x[1] = n /\ x[3] = e}
                 mine(e) == <<n, u, e>> \in reaction
                 given   == {f \in Emojis : on(f) # {}}
      <4>3. \A e : on(e)' = on(e) /\ mine(e)' = mine(e)
        BY <4>2
      <4>4. given' = given
        BY <4>3
      <4>5. ReactionsShown(u, r, n)
              = {[emoji |-> e, count |-> Cardinality(on(e)), mine |-> mine(e)] : e \in given}
        BY <3>2 DEF ReactionsShown
      <4>6. ReactionsShown(u, r, n)'
              = {[emoji |-> e, count |-> Cardinality(on(e)'), mine |-> mine(e)'] : e \in given'}
        BY <3>2 DEF ReactionsShown
      <4> HIDE DEF on, mine, given
      <4> QED
        BY <4>3, <4>4, <4>5, <4>6
    <3> QED
      BY <3>1, <3>2
  <2> QED
    BY <1>2, <1>4, <2>1 DEF NoteShown
<1>5. /\ \A g \in Groups : vote'[g][u] = vote[g][u]
      /\ stage[r] = Discuss => \A g \in Groups : vote'[g] = vote[g]
  <2>1. \A g \in Groups :
          /\ VotesKnown(u, r)[g] = IF stage[r] = Discuss THEN vote[g] ELSE vote[g][u]
          /\ VotesKnown(u, r)'[g] = IF stage[r] = Discuss THEN vote'[g] ELSE vote'[g][u]
    BY DEF VotesKnown
  <2> QED
    BY <2>1
<1>6. ASSUME NEW g \in Groups, GroupIn(r, g)
      PROVE  GroupShown(u, r, g)' = GroupShown(u, r, g)
  <2>1. {NoteShown(u, r, n) : n \in NotesIn(note, g)}' = {NoteShown(u, r, n) : n \in NotesIn(note, g)}
    <3>1. NotesIn(note, g)' = NotesIn(note, g) /\ \A n \in NotesIn(note, g) : n \in Notes /\ NoteIn(r, n)
      BY <1>3, <1>6 DEF NotesIn
    <3> QED
      BY <1>4, <3>1
  <2>2. stage[r] = Discuss => AllDots(g)' = AllDots(g)
    BY <1>5 DEF AllDots
  <2>3. CountOf(vote[g][u])' = CountOf(vote[g][u])
    BY <1>5
  <2> QED
    BY <2>1, <2>2, <2>3 DEF GroupShown
<1>7. Used(u, r)' = Used(u, r)
  BY ZenonT(30), <1>5 DEF Used, Dots
<1>8. {GroupShown(u, r, g) : g \in {h \in Groups : GroupIn(r, h) /\ NotesIn(note, h) # {}}}'
        = {GroupShown(u, r, g) : g \in {h \in Groups : GroupIn(r, h) /\ NotesIn(note, h) # {}}}
  <2>1. \A g \in Groups : /\ GroupIn(r, g)' <=> GroupIn(r, g)
                          /\ GroupIn(r, g) => NotesIn(note, g)' = NotesIn(note, g)
    BY <1>3 DEF GroupIn, NotesIn
  <2>2. {h \in Groups : GroupIn(r, h) /\ NotesIn(note, h) # {}}'
          = {h \in Groups : GroupIn(r, h) /\ NotesIn(note, h) # {}}
    BY <2>1
  <2> QED
    BY <1>6, <2>2
<1>9. ColumnsOf(r)' = ColumnsOf(r)
  BY DEF ColumnsOf
<1> QED
  BY <1>7, <1>8, <1>9 DEF Shown

\* Whatever others write while people reflect, whoever votes for what or reacts
\* to what before it is discussed, the boards sent to the rest stay the same but
\* for a rough size.
THEOREM NothingDoesShowThrough == Spec => NothingShowsThrough
<1>1. TypeOK /\ TypeOK' /\ Healthy /\ Healthy' =>
        ((/\ <<note, vote, reaction>>' # <<note, vote, reaction>>
          /\ UNCHANGED <<stage, maxVotes, spotlight, column, group>>) =>
            \A r \in Retros, u \in Users :
              (/\ stage[r] # None
               /\ VotesKnown(u, r)' = VotesKnown(u, r)
               /\ TextsKnown(u, r)' = TextsKnown(u, r)
               /\ ReactionsKnown(r)' = ReactionsKnown(r)) => Shown(u, r)' = Shown(u, r))
  BY NothingShows
<1> QED
  BY <1>1, TypeCorrect, AlwaysHealthy, PTL DEF NothingShowsThrough
=============================================================================
