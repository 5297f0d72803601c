\* The comment on AddTime, which a timer longer than an hour refutes.
CONSTANTS
  Users = {u1, u2}
  None = None
  MinTimer = 2
  MaxTimer = 4
  Horizon = 12
SPECIFICATION Spec
PROPERTY AddTimeNeverShortens
