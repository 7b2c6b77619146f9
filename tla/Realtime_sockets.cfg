\* One socket, two changes: queues, deliveries, the sweeper and losses of the listener.
SPECIFICATION FairSpec
CONSTANTS
  Connection = {c1}
  MaxEvents = 2
  QueueSize = 2
  MaxConnections = 1
  None = None
CHECK_DEADLOCK FALSE
INVARIANTS NoSilentGap NothingAfterAccess
PROPERTIES RevocationTakesEffect
