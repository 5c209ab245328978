SPECIFICATION Spec
CONSTANTS
  a = a
  b = b
  Nil = Nil
  Callers = {a, b}
  Weights = {2}
  Length <- MCLength
  Limit <- MCLimit
  StartTime = 0
  MaxNow = 2
  MaxCrashes = 1
  MaxAdjusts = 0
  Overrun = 0
INVARIANT MinuteBudget
CHECK_DEADLOCK FALSE
