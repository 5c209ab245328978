SPECIFICATION FairSpec
CONSTANTS
  p1 = p1
  minute = minute
  day = day
  Null = Null
  Pairs = {p1}
  Intervals = {minute, day}
  Duration <- MCDuration
  Width <- MCWidth
  RequestsPerMinute = 2
  StartTime = 2
  MaxNow = 3
  MaxRuns = 2
INVARIANTS
  TypeOK
  RequestBudget
  CompletedCounts
  WatermarkBacked
  WatermarkReaches
PROPERTIES
  ImplementsSyncJob
  CleanRunsExit
  WedgedForGood
CHECK_DEADLOCK FALSE
