SPECIFICATION FairSpec
CONSTANTS
  r1 = r1
  r2 = r2
  r3 = r3
  m1 = m1
  m2 = m2
  Page = Page
  Runners = {r1, r2, r3}
  Sims = {m1, m2}
  None = None
INVARIANTS
  TypeOK
  LostRunners
  NoneUnwatched
  SpinnerBacked
  OneRefreshChain
PROPERTIES
  SpinnerEnds
  NothingOutlivesPage
CHECK_DEADLOCK FALSE
