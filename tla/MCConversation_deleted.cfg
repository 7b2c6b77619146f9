\* Four messages and no reconnection: pages read before a deletion.
SPECIFICATION Spec
CONSTANTS
  LastMessage = 4
  Initial = 4
  ReplyTo <- LastQuotesFirst
  PageSize = 1
  None = None
  MaxChanges = 1
  MaxConnects = 0
  MaxReads = 2
CHECK_DEADLOCK FALSE
INVARIANT DeletedStaysDeleted
CONSTRAINT Budget
