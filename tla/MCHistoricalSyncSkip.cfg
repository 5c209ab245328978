SPECIFICATION FairSpec
CONSTANTS
  p1 = p1
  minute = minute
  day = day
  Null = Null
  Pairs = {p1}
  Intervals = {minute, day}
  Duration <- MCDuration
  Width <- MCWidth
  RequestsPerMinute = 2
  StartTime = 2
  MaxNow = 3
  MaxRuns = 1
INVARIANT SkippedIsUpToDate
CHECK_DEADLOCK FALSE
