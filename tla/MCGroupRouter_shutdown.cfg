SPECIFICATION FairSpec
CONSTANTS
  a = a  b = b  c = c  r1 = r1  r2 = r2  r3 = r3  r4 = r4
  swapGroup = swapGroup  otherGroup = otherGroup
  Router = Router  Idle = Idle  None = None
  Models <- Two
  Requests = {r1, r2}
  ModelOf <- OneEach
  Limit <- LimitOne
  Priority <- Equal
  PlannedEvictions <- GroupEvictionFor
  UnloadTargets <- UnloadAny
  MaxUnloads = 1
  MayShutdown = TRUE
PROPERTY ShutdownCompletes
