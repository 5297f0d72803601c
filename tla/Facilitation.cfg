\* Timers of two to four seconds over a dozen; two people.
CONSTANTS
  Users = {u1, u2}
  None = None
  MinTimer = 2
  MaxTimer = 4
  Horizon = 12
SPECIFICATION Spec
INVARIANTS TypeOK
PROPERTIES PausingKeepsTime RunningOnlyLengthens ReadyKeptPerStage
