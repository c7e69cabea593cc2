SPECIFICATION PlannerOrRouter
CONSTANTS
  a = a  b = b  c = c  d = d  r1 = r1  r2 = r2  r3 = r3  r4 = r4
  Router = Router  Idle = Idle  None = None
  Models = {a, b, c, d}
  Requests = {r1, r2, r3, r4}
  ModelOf <- FourModels
  Limit <- LimitOne
  Priority <- Equal
  PlannedEvictions <- MatrixEvictionFor
  UnloadTargets <- Never
  MaxUnloads = 0
  MayShutdown = FALSE
INVARIANTS OneSetUp ContainsExact
PROPERTY AnswersBest
