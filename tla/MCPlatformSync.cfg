SPECIFICATION FairSpec
CONSTANTS
  v1 = v1
  j1 = j1
  j2 = j2
  x1 = x1
  x2 = x2
  x3 = x3
  None = None
  Views = {v1}
  Jobs = {j1, j2}
  Items = {x1, x2, x3}
  MaxConcurrency = 2
INVARIANTS
  TypeOK
  OneJobPerView
  ProgressHonest
  ResultsCounted
PROPERTY BusyEnds
CHECK_DEADLOCK FALSE
