\* The tab against the server: changes, one reconnection, older pages and jumps; and what it
\* keeps of the server: one path, one preview, two requests and two callers.
SPECIFICATION BothSpec
CONSTANTS
  LastMessage = 3
  Initial = 2
  ReplyTo <- LastQuotesFirst
  PageSize = 1
  None = None
  Path = {p}
  View = {v}
  Load = {l1, l2}
  Reader = {r1, r2}
  MaxVersion = 3
  MaxAccount = 2
  MaxClears = 2
  MaxChanges = 2
  MaxConnects = 1
  MaxReads = 2
CHECK_DEADLOCK FALSE
INVARIANTS NewestIsCurrent NothingSkipped NothingAfterRevocation NothingOfOthers ReadYourWrites
CONSTRAINT Budget
