\* The composer against the handlers, then readers and changes; two emails and two workers;
\* two tabs that keep a session.
SPECIFICATION AllSpec
CONSTANTS
  a = a
  b = b
  x = x
  y = y
  User = {a, b}
  Author = a
  Body = {x, y}
  Mentioned <- MentionsB
  LastMessage = 2
  LastDraft = 2
  MaxSends = 3
  Skew = 0
  Email = {e1, e2}
  Worker = {w1, w2}
  w1 = w1
  Tab = {t1, t2}
  Call = {c1, c2, c3}
  TabOf <- TwoTabs
  t1 = t1
  t2 = t2
  c1 = c1
  c2 = c2
  c3 = c3
  HasLocks = TRUE
  AccessLife = 1
  Cooldown = 1
  MaxTime = 2
  None = None
CHECK_DEADLOCK FALSE
CONSTRAINT Few
INVARIANTS SentOnce UnreadIsUnseen CopiesAccounted RefreshesInTurn
PROPERTIES ChangesAnnounced LinksArrive CallsEnd
