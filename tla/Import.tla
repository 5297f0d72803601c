------------------------------ MODULE Import ------------------------------
(***************************************************************************)
(* The conversion of a thoughts v1 database into the tables of v2          *)
(* (internal/v1import): for each v1 database whether it converts, and to   *)
(* what.  Import runs in one transaction, so what a failing one did until  *)
(* then is never seen, and only Fails says that there was one.             *)
(*                                                                         *)
(* v1 never enforced its foreign keys: a row may refer to a user, retro,   *)
(* column or note that is gone.  A v1 database is a record                 *)
(*   tables      the names of the tables it has                            *)
(*   users       the ids of its users                                      *)
(*   retro       retro[r] is the status, vote limit and columns of r       *)
(*   notes       the notes, in the order of created_at and id              *)
(*   votes       the rows <<retro, user, group>>, which v1 kept unique     *)
(*   tasks       the tasks                                                 *)
(*   tags        the rows <<retro, tag>>                                   *)
(*   reactions   the rows <<note, user, emoji>>, unique as well            *)
(*   unreadable  the ids of rows with a time that parseTime does not know  *)
(* and what it becomes a record with the tables of RetroBoard, users,      *)
(* actions and tags, and the summary that is logged.                       *)
(***************************************************************************)
EXTENDS Integers, FiniteSets, SequencesExt

CONSTANTS
  Users, Retros, Columns, Groups, Notes, Tasks,  \* the ids there are in v1
  Emojis,
  Someone,        \* the stand-in for the authors of notes who are gone
  Text, Untitled, \* what notes say, and the title of groups in v2
  None,
  MinVotes, MaxVotesCap

\* A v2 group has the id of a v1 group or, where that is taken, of a note.
GroupIds == Groups \cup Notes

\* The rows of v1, and those of v2 that they become.
V1Retro == [status : STRING, maxVotes : Int, columns : Seq(Columns)]
V1Note  == [id : Notes, retro : Retros, user : Users, column : Columns, group : Groups]
V1Task  == [id : Tasks, retro : Retros, completed : BOOLEAN]
GroupRow  == [retro : Retros, column : Columns, title : {Untitled}]
NoteRow   == [retro : Retros, group : GroupIds, author : Users \cup {Someone}, text : {Text}]
VoteRow   == [retro : Retros, count : Nat]
ActionRow == [retro : Retros, done : BOOLEAN]

\* What v1 did enforce: the keys of its tables.  Notes and tasks have ids of
\* their own; votes and reactions are sets.  A table it lacks has no rows.
IsOldDatabase(v1) ==
  /\ v1.users \subseteq Users
  /\ v1.retro \in [Retros -> V1Retro \cup {None}]
  /\ v1.notes \in Seq(V1Note)
  /\ \A i, j \in DOMAIN v1.notes : v1.notes[i].id = v1.notes[j].id => i = j
  /\ v1.votes \subseteq Retros \X Users \X Groups
  /\ v1.tasks \subseteq V1Task
  /\ \A s, t \in v1.tasks : s.id = t.id => s = t
  /\ v1.tags \subseteq Retros \X STRING
  /\ v1.reactions \subseteq Notes \X Users \X Emojis
  /\ "retro_tags" \notin v1.tables => v1.tags = {}
  /\ "reactions" \notin v1.tables => v1.reactions = {}
  /\ IsFiniteSet(v1.votes) /\ IsFiniteSet(v1.tasks)
  /\ IsFiniteSet(v1.tags) /\ IsFiniteSet(v1.reactions)

ASSUME ImportAssumption ==
  /\ None \notin Retros /\ None \notin Columns /\ None \notin GroupIds
  /\ None \notin V1Retro /\ None \notin GroupRow /\ None \notin NoteRow
  /\ None \notin VoteRow /\ None \notin ActionRow
  /\ None \notin 0 .. 3     \* the stages
  /\ MaxVotesCap \in Nat /\ MinVotes \in 1 .. MaxVotesCap

V1Tables == {"reactions", "votes", "tasks", "retro_tags", "notes", "retros", "users"}
Required == {"retros", "notes", "users", "votes", "tasks"}

StageFor == [brainstorm |-> 0, group |-> 1, vote |-> 2, discuss |-> 3]

RetrosOf(v1) == {r \in Retros : v1.retro[r] # None}

\* Where each column is: c.columns and the rows inserted into columns.
ColumnTable(v1) ==
  [c \in Columns |->
     LET in == {r \in RetrosOf(v1) : Contains(v1.retro[r].columns, c)}
     IN IF in = {} THEN None ELSE CHOOSE r \in in : TRUE]

\* importRetros gives up: a status v2 has no stage for, a time it cannot
\* read, or a column that comes twice, in one retro or in two.
RetrosFail(v1) ==
  \E r \in RetrosOf(v1) :
    \/ v1.retro[r].status \notin DOMAIN StageFor
    \/ r \in v1.unreadable
    \/ ~ IsInjective(v1.retro[r].columns)
    \/ \E s \in RetrosOf(v1) \ {r} :
         ToSet(v1.retro[r].columns) \cap ToSet(v1.retro[s].columns) # {}

---------------------------------------------------------------------------
(* importNotes *)

NothingPlaced ==
  [failed |-> FALSE,
   home   |-> [k \in Retros \X Groups |-> None],   \* c.groups
   group  |-> [g \in GroupIds |-> None],
   note   |-> [n \in Notes |-> None],
   left   |-> 0,      \* notes from deleted retros
   moved  |-> 0]      \* notes moved out of deleted columns

\* The column a note goes to: its own, or its retro's first if that has gone.
ColumnFor(v1, n) ==
  LET columns == v1.retro[n.retro].columns
  IN IF ColumnTable(v1)[n.column] # None THEN n.column
     ELSE IF columns = <<>> THEN None ELSE Head(columns)

\* Mutant: v1 groups are told apart by their id alone, whatever their retro.
BadHome(done, n) ==
  LET known == {done.home[<<r, n.group>>] : r \in Retros} \ {None}
  IN IF known = {} THEN None ELSE CHOOSE g \in known : TRUE

\* The v2 group that the note's v1 group has become, if it has.
Home(done, n) == done.home[<<n.retro, n.group>>]

\* Mutant: the v1 group's id is kept even if a group has it.
BadNewGroupId(done, n) == n.group

\* The id of the v1 group, or the note's if another retro's group took that.
NewGroupId(done, n) == IF done.group[n.group] # None THEN n.id ELSE n.group

\* One note, in a retro that is there.  A group needs a column that is there
\* and an id no group has, or the schema's keys fail the transaction.
Place(v1, done, n) ==
  LET column == ColumnFor(v1, n)
      fresh  == Home(done, n) = None
      g      == IF fresh THEN NewGroupId(done, n) ELSE Home(done, n)
      author == IF n.user \in v1.users THEN n.user ELSE Someone
  IN IF n.id \in v1.unreadable \/ (fresh /\ (column = None \/ done.group[g] # None))
     THEN [done EXCEPT !.failed = TRUE]
     ELSE [done EXCEPT
             !.home[<<n.retro, n.group>>] = g,
             !.group[g] =
               IF fresh THEN [retro |-> n.retro, column |-> column, title |-> Untitled]
               ELSE @,
             !.note[n.id] = [retro |-> n.retro, group |-> g, author |-> author, text |-> Text],
             !.moved = IF ColumnTable(v1)[n.column] = None THEN @ + 1 ELSE @]

\* The next note in the list, unless an earlier one failed.
PlaceNext(v1, done, n) ==
  IF done.failed THEN done
  ELSE IF v1.retro[n.retro] = None THEN [done EXCEPT !.left = @ + 1]
  ELSE Place(v1, done, n)

\* Placing(v1)[i] is how far the loop is after i notes.
Placing(v1) ==
  LET done[i \in 0 .. Len(v1.notes)] ==
        IF i = 0 THEN NothingPlaced ELSE PlaceNext(v1, done[i - 1], v1.notes[i])
  IN done

Placed(v1) == Placing(v1)[Len(v1.notes)]

NeedsSomeone(v1, placed) ==
  \E n \in Notes : placed.note[n] # None /\ placed.note[n].author = Someone

---------------------------------------------------------------------------
(* importVotes, importActions, importTags and importReactions *)

\* The v1 votes on a group with notes in it, from a user who is there.
VotesKept(v1, placed) ==
  {v \in v1.votes : placed.home[<<v[1], v[3]>>] # None /\ v[2] \in v1.users}

\* Mutant: the vote goes to the group that has the v1 group's id.
BadVoteTable(v1, placed) ==
  [g \in GroupIds |-> [u \in Users \cup {Someone} |->
     LET cast == {v \in VotesKept(v1, placed) : v[2] = u /\ v[3] = g}
     IN IF cast = {} THEN None
        ELSE [retro |-> (CHOOSE v \in cast : TRUE)[1], count |-> Cardinality(cast)]]]

VoteTable(v1, placed) ==
  [g \in GroupIds |-> [u \in Users \cup {Someone} |->
     LET cast == {v \in VotesKept(v1, placed) :
                    v[2] = u /\ placed.home[<<v[1], v[3]>>] = g}
     IN IF cast = {} THEN None
        ELSE [retro |-> (CHOOSE v \in cast : TRUE)[1], count |-> Cardinality(cast)]]]

TasksKept(v1) == {t \in v1.tasks : v1.retro[t.retro] # None}

\* A task that was completed is done since it was last changed; a date that
\* cannot be read leaves the action without one.
ActionTable(v1) ==
  [a \in Tasks |->
     IF \E t \in TasksKept(v1) : t.id = a
     THEN LET t == CHOOSE t \in TasksKept(v1) : t.id = a
          IN [retro |-> t.retro, done |-> t.completed]
     ELSE None]

TagsKept(v1) == {t \in v1.tags : v1.retro[t[1]] # None}

ReactionsKept(v1, placed) ==
  {x \in v1.reactions : placed.note[x[1]] # None /\ x[2] \in v1.users}

---------------------------------------------------------------------------
(* Import *)

\* A table that must be there is missing, or a row stops the conversion.
Fails(v1) ==
  \/ ~ Required \subseteq v1.tables
  \/ v1.users \cap v1.unreadable # {}
  \/ RetrosFail(v1)
  \/ Placed(v1).failed
  \/ \E t \in TasksKept(v1) : t.id \in v1.unreadable
  \/ \E x \in ReactionsKept(v1, Placed(v1)) : x \in v1.unreadable

\* What Summary counts: the rows brought over, and under Dropped the notes that
\* changed and ("left") the rows that pointed at what was gone.  importTags
\* passes over the tags of a retro that is gone without counting them.
Summary(v1, placed) ==
  [users     |-> Cardinality(v1.users),
   retros    |-> Cardinality(RetrosOf(v1)),
   notes     |-> Cardinality({n \in Notes : placed.note[n] # None}),
   votes     |-> Cardinality(VotesKept(v1, placed)),
   actions   |-> Cardinality(TasksKept(v1)),
   tags      |-> Cardinality(TagsKept(v1)),
   reactions |-> Cardinality(ReactionsKept(v1, placed)),
   moved     |-> placed.moved,
   authors   |-> Cardinality({n \in Notes : /\ placed.note[n] # None
                                           /\ placed.note[n].author = Someone}),
   left      |-> [notes     |-> placed.left,
                  votes     |-> Cardinality(v1.votes \ VotesKept(v1, placed)),
                  actions   |-> Cardinality(v1.tasks \ TasksKept(v1)),
                  reactions |-> Cardinality(v1.reactions \ ReactionsKept(v1, placed))]]

\* The v2 tables, of a v1 database that does not fail.
Converted(v1) ==
  LET placed == Placed(v1)
  IN [users     |-> v1.users \cup
                    (IF NeedsSomeone(v1, placed) THEN {Someone} ELSE {}),
      stage     |-> [r \in Retros |-> IF v1.retro[r] = None THEN None
                                      ELSE StageFor[v1.retro[r].status]],
      maxVotes  |-> [r \in Retros |->
                       IF v1.retro[r] = None THEN MinVotes
                       ELSE LET m == v1.retro[r].maxVotes
                            IN IF m < MinVotes THEN MinVotes
                               ELSE IF m > MaxVotesCap THEN MaxVotesCap ELSE m],
      column    |-> ColumnTable(v1),
      group     |-> placed.group,
      note      |-> placed.note,
      vote      |-> VoteTable(v1, placed),
      action    |-> ActionTable(v1),
      tags      |-> TagsKept(v1),
      reaction  |-> ReactionsKept(v1, placed),
      summary   |-> Summary(v1, placed)]

---------------------------------------------------------------------------
(* What the conversion owes the people whose retros these were, for a v1   *)
(* database v1 and the tables t it became.                                 *)

\* A v1 database with nothing wrong with it but rows that point at what is
\* gone, which "real databases have".
Sane(v1) ==
  /\ Required \subseteq v1.tables
  /\ v1.unreadable = {}
  /\ \A r \in RetrosOf(v1) :
       /\ v1.retro[r].status \in DOMAIN StageFor
       /\ v1.retro[r].columns # <<>> /\ IsInjective(v1.retro[r].columns)
       /\ \A s \in RetrosOf(v1) \ {r} :
            ToSet(v1.retro[r].columns) \cap ToSet(v1.retro[s].columns) = {}
  /\ \A m, n \in ToSet(v1.notes) : m.group # n.id

\* Each note is in a column of its retro, or of none that is there.
OwnColumns(v1) ==
  \A n \in ToSet(v1.notes) : ColumnTable(v1)[n.column] \in {None, n.retro}

\* Two notes are in one group in v2 if and only if they were in one group of
\* one retro in v1: nothing is merged that was apart, nor taken apart.
CompanyKept(v1, t) ==
  \A m, n \in ToSet(v1.notes) :
    (t.note[m.id] # None /\ t.note[n.id] # None) =>
      (t.note[m.id].group = t.note[n.id].group
         <=> m.retro = n.retro /\ m.group = n.group)

\* The votes people had on a group are on the group its notes are in now, and
\* there are no others.
VotesStayed(v1, t) ==
  \A g \in GroupIds, u \in v1.users :
    LET here   == {n \in ToSet(v1.notes) : t.note[n.id] # None /\ t.note[n.id].group = g}
        theirs == {v \in v1.votes :
                     v[2] = u /\ \E n \in here : n.retro = v[1] /\ n.group = v[3]}
    IN (IF t.vote[g][u] = None THEN 0 ELSE t.vote[g][u].count) = Cardinality(theirs)

\* The rows of v1's tables, and those of a table that the summary accounts for.
Rows(v1) ==
  [users  |-> Cardinality(v1.users),  retros |-> Cardinality(RetrosOf(v1)),
   notes  |-> Len(v1.notes),          votes  |-> Cardinality(v1.votes),
   actions |-> Cardinality(v1.tasks), tags   |-> Cardinality(v1.tags),
   reactions |-> Cardinality(v1.reactions)]

AccountsFor(summary, table) ==
  IF table \in DOMAIN summary.left THEN summary[table] + summary.left[table]
  ELSE summary[table]

TagsOfGoneRetros(v1) == {x \in v1.tags : v1.retro[x[1]] = None}

\* Every row of v1 was brought over or counted as left out, but for the tags of
\* retros that are gone, which are neither.
OnlyTagsUncounted(v1, t) ==
  /\ \A table \in DOMAIN Rows(v1) \ {"tags"} :
       AccountsFor(t.summary, table) = Rows(v1)[table]
  /\ AccountsFor(t.summary, "tags") + Cardinality(TagsOfGoneRetros(v1)) = Rows(v1).tags

\* Whoever wrote, voted or reacted is a user; actions and tags are of a retro.
NoStrangers(t) ==
  /\ \A n \in Notes : t.note[n] # None => t.note[n].author \in t.users
  /\ \A g \in GroupIds, u \in Users \cup {Someone} : t.vote[g][u] # None => u \in t.users
  /\ \A x \in t.reaction : x[2] \in t.users
  /\ \A a \in Tasks : t.action[a] # None => t.stage[t.action[a].retro] # None
  /\ \A x \in t.tags : t.stage[x[1]] # None
=============================================================================
