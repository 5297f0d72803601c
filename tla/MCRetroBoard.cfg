\* Two retros in the same tables; two people, whose votes stack, are merged and
\* lost; two texts of one rough size.
CONSTANTS
  textA = textA
  textB = textB
  Users = {u1, u2}
  Retros = {r1, r2}
  Columns = {c1, c2}
  Groups = {g1, g2, g3}
  Notes = {n1, n2}
  Texts = {textA, textB}
  SizeOf <- Sizes
  Titles = {untitled}
  Untitled = untitled
  Emojis = {e}
  None = None
  MinColumns = 1
  MaxColumns = 2
  MaxVotesCap = 2
  DefaultVotes = 1
SYMMETRY Ids
SPECIFICATION Spec
CONSTRAINT Small
INVARIANTS TypeOK Healthy BoardAddsUp
PROPERTIES VotesFollowTheLastNote ImplementsBallot NotesStayPut NothingShowsThrough
