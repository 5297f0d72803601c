\* Three retros in two seconds, so that some share one and some are created
\* before one that is there already; a team they join and leave; an action with two
\* copies.
CONSTANTS
  Retros = {1, 2, 3}
  Teams = {t1}
  Actions = {a1, a2, a3}
  Texts = {text}
  Seconds = {0, 1}
  None = None
SYMMETRY Ids
SPECIFICATION Spec
INVARIANTS TypeOK OpenOnce NoReturn CarriedForward
PROPERTIES HistoryStays
