SPECIFICATION FairSpec
CONSTANTS
  s1 = s1
  d1 = d1
  Symbols <- MCSymbols
  Disabled <- MCDisabled
  Intervals = {"1m"}
  MaxVersion = 1
  MaxRuns = 2
  MaxCrashes = 1
  Null = Null
INVARIANTS
  TypeOK
  TwoChains
  AnnouncedSynced
PROPERTY
  CatchesUp
CHECK_DEADLOCK FALSE
