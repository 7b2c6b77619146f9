\* One socket, no change: the database fails the sweeper once, then access ends.
SPECIFICATION FairSpec
CONSTANTS
  Connection = {c1}
  MaxEvents = 0
  QueueSize = 2
  MaxConnections = 1
  None = None
CHECK_DEADLOCK FALSE
PROPERTY RevocationOnRecheck
