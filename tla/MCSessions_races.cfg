\* Logins and recoveries that overtake each other.
SPECIFICATION Spec
CONSTANTS
  Session = {s1, s2, s3}
  Token = {t1, t2, t3}
  Link = {l1, l2, l3}
  Request = {r1, r2}
  Password = {p1, p2}
  None = None
  MaxSessions = 2
  SessionLife = 2
  LinkLife = 1
  MinInterval = 1
  MaxRows = 2
  MaxTime = 1
CONSTRAINT Races
SYMMETRY Symmetry
CHECK_DEADLOCK FALSE
INVARIANTS SessionsKnowPassword SessionCap OneOpenLink
PROPERTIES PasswordOnlyByLink
