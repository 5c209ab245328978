SPECIFICATION FairSpec
CONSTANTS
  Interval = 5
  Timeout = 10
  Lag = 1
  MaxFlight = 3
  Never = Never
INVARIANTS
  TypeOK
  CutOnlyUnanswered
PROPERTIES
  ImplementsPeerWatch
  SilentEnds
CHECK_DEADLOCK FALSE
