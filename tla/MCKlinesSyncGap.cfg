SPECIFICATION Spec
CONSTANTS
  a = a
  b = b
  Workers = {a}
  Intervals = {"1m"}
  Width <- MCWidth
  Span <- MCSpan
  ClosesAt <- MCClosesAt
  MaxLimit = 3
  MaxAnswer = 3
  StartTime = 4
  MaxNow = 9
  MaxTasks = 3
INVARIANT SyncedWindow
CHECK_DEADLOCK FALSE
