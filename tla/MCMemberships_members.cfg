\* Three people in two workspaces, and two of them with direct conversations.
SPECIFICATION Spec
CONSTANTS
  User = {a, b, d}
  Workspace = {w1, w2}
  Channel = {c1, c2}
  Invitation = {i1, i2}
  Process = {p1, p2}
  None = None
CONSTRAINT Few
SYMMETRY Symmetry
CHECK_DEADLOCK FALSE
INVARIANTS OwnerRemains ChannelWithinWorkspace DirectIsPair ReadsStayTrue
PROPERTIES EntryByInvitation
