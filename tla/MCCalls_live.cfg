\* Two people and one call: what must end does end, and rooms are emptied.
SPECIFICATION FairSpec
CONSTANTS
  a = a
  b = b
  d = d
  sa = sa
  sb = sb
  sd = sd
  sa2 = sa2
  User = {a, b}
  Call = {c1}
  Session = {sa, sb}
  Device = {t1}
  Worker = {w1}
  None = None
  SessionUser <- OneSessionEach
  RingTime = 1
  LeaseTime = 2
  TokenTime = 1
  SealTime = 2
  RepeatTime = 1
  RetryTime = 1
  Lag = 1
  MaxTime = 3
CONSTRAINT MediaOrLoss
CHECK_DEADLOCK FALSE
PROPERTIES RingingEnds RevokedCallEnds AbandonedCallEnds CleanupNotForgotten
