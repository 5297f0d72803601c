----------------------------- MODULE Projection -----------------------------
(***************************************************************************)
(* What of a retro's board each person is sent: internal/server's project, *)
(* over the tables of RetroBoard.  While people reflect, other people's    *)
(* notes are hidden but for a rough size; votes stay private until they    *)
(* are discussed, and so do reactions, which only then are given.          *)
(***************************************************************************)
EXTENDS RetroBoard

CONSTANT SizeOf   \* SizeOf[text], 1 to 3: the rough size of a text

ASSUME SizeAssumption == SizeOf \in [Texts -> 1 .. 3]

---------------------------------------------------------------------------
ReactionsShown(u, r, n) ==
  IF stage[r] # Discuss THEN {}
  ELSE LET on(e) == {x \in reaction : x[1] = n /\ x[3] = e}
       IN {[emoji |-> e, count |-> Cardinality(on(e)), mine |-> <<n, u, e>> \in reaction] :
             e \in {f \in Emojis : on(f) # {}}}

\* Mutant: while people reflect only authors are hidden.
BadNoteShown(u, r, n) ==
  [id |-> n, mine |-> note[n].author = u, hidden |-> FALSE,
   size |-> None, content |-> note[n].text,
   author |-> IF stage[r] = Reflect THEN None ELSE note[n].author,
   reactions |-> ReactionsShown(u, r, n)]

\* noteResource: a hidden note has a size and neither content nor author.
NoteShown(u, r, n) ==
  LET mine   == note[n].author = u
      hidden == stage[r] = Reflect /\ ~mine
  IN [id |-> n, mine |-> mine, hidden |-> hidden,
      size    |-> IF hidden THEN SizeOf[note[n].text] ELSE None,
      content |-> IF hidden THEN None ELSE note[n].text,
      author  |-> IF stage[r] = Reflect THEN None ELSE note[n].author,
      reactions |-> ReactionsShown(u, r, n)]

\* Everybody's dots on g.
AllDots(g) == UNION {{u} \X (1 .. CountOf(vote[g][u])) : u \in Users}

\* Mutant: totals are sent with every board.
BadGroupShown(u, r, g) ==
  [id |-> g, column |-> group[g].column, title |-> group[g].title,
   notes |-> {NoteShown(u, r, n) : n \in NotesIn(note, g)},
   myVotes |-> CountOf(vote[g][u]), votes |-> Cardinality(AllDots(g))]

\* groupResource: everybody's votes only once they are discussed.
GroupShown(u, r, g) ==
  [id |-> g, column |-> group[g].column, title |-> group[g].title,
   notes   |-> {NoteShown(u, r, n) : n \in NotesIn(note, g)},
   myVotes |-> CountOf(vote[g][u]),
   votes   |-> IF stage[r] = Discuss THEN Cardinality(AllDots(g)) ELSE None]

\* The board of r as u is sent it.  A group without notes is left out.
Shown(u, r) ==
  [stage |-> stage[r], columns |-> ColumnsOf(r), spotlight |-> spotlight[r],
   used |-> Used(u, r), max |-> maxVotes[r],
   groups |-> {GroupShown(u, r, g) :
                 g \in {h \in Groups : GroupIn(r, h) /\ NotesIn(note, h) # {}}}]

---------------------------------------------------------------------------
MyDots(u, shown) ==
  UNION {{g.id} \X (1 .. g.myVotes) : g \in shown.groups}

\* Nobody's board leaves anything out or counts it twice: every note of the
\* retro is in one group of it, and the votes a person sees on the groups add
\* up to the number they are told they have used.  It rests on no group being
\* left without notes: such a group is not sent, but its votes are counted.
BoardAddsUp ==
  \A r \in Retros, u \in Users :
    LET shown == Shown(u, r)
    IN stage[r] # None =>
         /\ Cardinality(MyDots(u, shown)) = shown.used
         /\ \A n \in Notes : NoteIn(r, n) =>
              Cardinality({g \in shown.groups : n \in {m.id : m \in g.notes}}) = 1

\* What u may know of the notes, and of the votes, of r.
TextsKnown(u, r) ==
  [n \in {m \in Notes : NoteIn(r, m)} |->
     IF note[n].author # u /\ stage[r] = Reflect
     THEN <<note[n].group, SizeOf[note[n].text]>> ELSE note[n]]

VotesKnown(u, r) == [g \in Groups |-> IF stage[r] = Discuss THEN vote[g] ELSE vote[g][u]]

ReactionsKnown(r) == {x \in reaction : stage[r] = Discuss /\ NoteIn(r, x[1])}

\* "While reflecting, other people's notes are hidden entirely; votes stay
\* private until discussion", and so do reactions.  A step that changes only
\* what u may not know - somebody else's text of the same rough size while
\* people reflect, somebody else's votes or reactions before they are discussed,
\* anything of another retro - leaves the board u is sent as it was, so nobody
\* can tell from it that anything happened.
NothingShowsThrough ==
  [][(/\ <<note, vote, reaction>>' # <<note, vote, reaction>>
      /\ UNCHANGED <<stage, maxVotes, spotlight, column, group>>) =>
        \A r \in Retros, u \in Users :
          (/\ stage[r] # None
           /\ VotesKnown(u, r)' = VotesKnown(u, r)
           /\ TextsKnown(u, r)' = TextsKnown(u, r)
           /\ ReactionsKnown(r)' = ReactionsKnown(r)) => Shown(u, r)' = Shown(u, r)]_vars
=============================================================================
