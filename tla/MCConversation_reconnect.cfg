\* One change, one reconnection, one jump.
SPECIFICATION Spec
CONSTANTS
  LastMessage = 3
  Initial = 2
  ReplyTo <- LastQuotesFirst
  PageSize = 1
  None = None
  MaxChanges = 1
  MaxConnects = 1
  MaxReads = 2
CHECK_DEADLOCK FALSE
INVARIANT NewestAfterReconnect
CONSTRAINT Budget
