SPECIFICATION FairSpec
CONSTANTS
  a = a  b = b  c = c  r1 = r1  r2 = r2  r3 = r3  r4 = r4
  swapGroup = swapGroup  otherGroup = otherGroup
  Router = Router  Idle = Idle  None = None
  Models <- Two
  Requests = {r1, r2, r3}
  ModelOf <- SameAndRival
  Limit <- LimitTwo
  Priority <- Equal
  PlannedEvictions <- GroupEvictionFor
  UnloadTargets <- UnloadAny
  MaxUnloads = 1
  MayShutdown = FALSE
INVARIANTS TypeOK InFlightMatches NoRequestLost SwapsDisjoint
PROPERTY RequestsSettle
