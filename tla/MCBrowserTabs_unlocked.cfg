\* The same tabs in a browser without navigator.locks.
SPECIFICATION Spec
CONSTANTS
  t1 = t1
  t2 = t2
  c1 = c1
  c2 = c2
  c3 = c3
  Tab = {t1, t2}
  Call = {c1, c2, c3}
  TabOf <- TwoTabs
  HasLocks = FALSE
  AccessLife = 1
  Cooldown = 1
  MaxTime = 2
  None = None
INVARIANT RefreshesInTurn
CONSTRAINT OneTrouble
CHECK_DEADLOCK FALSE
