\* Three people and two calls: who may be in which call.
SPECIFICATION Spec
CONSTANTS
  a = a
  b = b
  d = d
  sa = sa
  sb = sb
  sd = sd
  sa2 = sa2
  User = {a, b, d}
  Call = {c1, c2}
  Session = {sa, sb, sd}
  Device = {t1}
  Worker = {w1}
  None = None
  SessionUser <- ThreeSessions
  RingTime = 1
  LeaseTime = 1
  TokenTime = 1
  SealTime = 2
  RepeatTime = 1
  RetryTime = 1
  Lag = 1
  MaxTime = 1
CONSTRAINT OneLoss
SYMMETRY Symmetry
CHECK_DEADLOCK FALSE
INVARIANTS SeatsMatchLiveCalls AnsweredOnlyWhenActive
PROPERTIES OverIsFinal ImplementsContract
