\* Two people who join at the same time are enough.
CONSTANTS
  Conns = {c1, c2}
  People = {p1, p2}
  None = None
SPECIFICATION Spec
INVARIANT EveryoneShown
CHECK_DEADLOCK FALSE
