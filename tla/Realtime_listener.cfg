\* One socket, one change: a handshake while the listener is lost.
SPECIFICATION Spec
CONSTANTS
  Connection = {c1}
  MaxEvents = 1
  QueueSize = 2
  MaxConnections = 1
  None = None
CHECK_DEADLOCK FALSE
INVARIANT ListenerLossVisible
