\* One socket, one change: the database fails the delivery.
SPECIFICATION Spec
CONSTANTS
  Connection = {c1}
  MaxEvents = 1
  QueueSize = 2
  MaxConnections = 1
  None = None
CHECK_DEADLOCK FALSE
INVARIANT DeliveryLossVisible
