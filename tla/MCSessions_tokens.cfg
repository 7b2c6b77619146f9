\* Refresh tokens over the whole life of a session.
SPECIFICATION Spec
CONSTANTS
  Session = {s1, s2}
  Token = {t1, t2, t3, t4}
  Link = {l1, l2}
  Request = {r1}
  Password = {p1}
  None = None
  MaxSessions = 1
  SessionLife = 5
  LinkLife = 1
  MinInterval = 1
  MaxRows = 2
  MaxTime = 6
SYMMETRY Symmetry
CHECK_DEADLOCK FALSE
INVARIANTS OneFreshToken RowsBounded
