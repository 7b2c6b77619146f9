\* Two files, two conversations of a workspace and two workers, over whole lives of files.
SPECIFICATION FairSpec
CONSTANTS
  File = {f1, f2}
  Channel = {c1, c2}
  Direct = {}
  Post = {m1}
  Worker = {w1, w2}
  Size = {1, 2}
  Quota = 2
  PerHour = 1
  None = None
  c1 = c1
  w1 = w1
CHECK_DEADLOCK FALSE
INVARIANTS StorageMatchesRows LimitsKept
PROPERTIES AbandonedErased
CONSTRAINT Few
