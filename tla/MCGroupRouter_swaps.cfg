SPECIFICATION Spec
CONSTANTS
  a = a  b = b  c = c  r1 = r1  r2 = r2  r3 = r3  r4 = r4
  swapGroup = swapGroup  otherGroup = otherGroup
  Router = Router  Idle = Idle  None = None
  Models <- Three
  Requests = {r1, r2, r3, r4}
  ModelOf <- AllModels
  Limit <- LimitOne
  Priority <- CFirst
  PlannedEvictions <- GroupEvictionFor
  UnloadTargets <- Never
  MaxUnloads = 0
  MayShutdown = FALSE
INVARIANTS ReservationAccounting RivalsApart
PROPERTIES SparesBusy StartsAreKnown QueueFairOrder
