SPECIFICATION Spec
CONSTANTS
  a = a
  b = b
  Workers = {a, b}
  Intervals = {"1m"}
  Width <- MCWidth
  Span <- MCSpan
  ClosesAt <- MCClosesAt
  MaxLimit = 3
  MaxAnswer = 2
  StartTime = 4
  MaxNow = 9
  MaxTasks = 3
SYMMETRY AnyWorker
INVARIANTS
  TypeOK
  RowCovered
  SuccessCovers
  RowsBounded
PROPERTY BehindForGood
CHECK_DEADLOCK FALSE
