SPECIFICATION Spec
CONSTANTS
  a = a
  b = b
  Nil = Nil
  Callers = {a, b}
  Weights = {2}
  Length <- MCLength
  Limit <- MCLimit
  StartTime = 1
  MaxNow = 2
  MaxCrashes = 1
  MaxAdjusts = 1
  Overrun = 0
SYMMETRY AnyCaller
INVARIANTS
  TypeOK
  WindowBudget
  WaitInWindow
  SleepsPastTheWindow
  MinuteBudgetPerFault
  LateSendsBounded
PROPERTY ImplementsQuotas
CHECK_DEADLOCK FALSE
