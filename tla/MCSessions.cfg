\* Two browsers with two requests under way between them.  There are MaxSent of
\* them in all, so the system may stop.
CONSTANTS
  b1 = b1  b2 = b2  s1 = s1  s2 = s2  v = v
  Browsers = {b1, b2}
  Users = {v, u1, u2, u3}
  Tokens = {k1, k2}
  States = {f1, f2}
  Subjects = {s1, s2}
  SubjectOf <- WhoSits
  V1User <- WhoWas
  Slots = {q1, q2}
  MaxFlows = 1
  MaxSent = 4
  None = None
  Keep = Keep
SYMMETRY Ids
SPECIFICATION Spec
CHECK_DEADLOCK FALSE
INVARIANTS TypeOK ActsAsItself OneUserPerIdentity FlowsFinishOnce
