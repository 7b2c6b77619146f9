\* Two people, one call, two tabs: tokens, rooms and their cleanup.
SPECIFICATION Spec
CONSTANTS
  a = a
  b = b
  d = d
  sa = sa
  sb = sb
  sd = sd
  sa2 = sa2
  User = {a, b}
  Call = {c1}
  Session = {sa, sa2, sb}
  Device = {t1, t2}
  Worker = {w1}
  None = None
  SessionUser <- TwoSessions
  RingTime = 1
  LeaseTime = 1
  TokenTime = 1
  SealTime = 2
  RepeatTime = 1
  RetryTime = 1
  Lag = 1
  MaxTime = 4
CONSTRAINT FewTokens
SYMMETRY Symmetry
CHECK_DEADLOCK FALSE
INVARIANTS MediaOnOneDevice RoomSealed
PROPERTIES NoTokenAfterRevocation
