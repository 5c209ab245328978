SPECIFICATION Spec
CONSTANTS
  a = a
  b = b
  Workers = {a}
  Intervals = {"1m", "1M"}
  Width <- MCWidth
  Span <- MCSpan
  ClosesAt <- MCClosesAt
  MaxLimit = 3
  MaxAnswer = 2
  StartTime = 4
  MaxNow = 9
  MaxTasks = 3
INVARIANT TablesUnmixed
CHECK_DEADLOCK FALSE
