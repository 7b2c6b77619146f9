\* A channel and a direct conversation share a quota.
SPECIFICATION Spec
CONSTANTS
  File = {f1, f2}
  Channel = {c1, d1}
  Direct = {d1}
  Post = {m1}
  Worker = {w1, w2}
  Size = {1, 2}
  Quota = 2
  PerHour = 2
  None = None
CHECK_DEADLOCK FALSE
INVARIANT QuotaKept
