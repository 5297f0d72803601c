\* One retro of one column and three notes, two requests.
CONSTANTS
  Users = {u1}
  Retros = {r1}
  Columns = {c1}
  Groups = {g1, g2, g3}
  Notes = {n1, n2, n3}
  Texts = {text}
  Titles = {untitled, named}
  Untitled = untitled
  Emojis = {}
  None = None
  MinColumns = 1
  MaxColumns = 1
  MaxVotesCap = 1
  DefaultVotes = 1
  Here = r1
  Suggested = named
  Requests = {q1, q2}
  RawGroups <- AnyGroups
  RawNames <- AnyNames
  RawActions <- AnyActions
  MaxAsked = 2
  MaxKinds = 1
SYMMETRY Ids
SPECIFICATION Spec
INVARIANTS TypeOK OneAtATime ClickTakesWhatItShows EveryItemOnce GroupedAsSuggested
