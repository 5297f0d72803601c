\* The vote limit of Store.Check, which UpdateRetro can break.
CONSTANTS
  Users = {u1, u2}
  Retros = {r1}
  Columns = {c1, c2}
  Groups = {g1, g2, g3, g4}
  Notes = {n1, n2, n3}
  textA = textA
  textB = textB
  Texts = {textA}
  SizeOf <- Sizes
  Titles = {untitled}
  Untitled = untitled
  Emojis = {}
  None = None
  MinColumns = 1
  MaxColumns = 2
  MaxVotesCap = 2
  DefaultVotes = 1
SYMMETRY Ids
SPECIFICATION Spec
INVARIANT VotesWithinLimit
