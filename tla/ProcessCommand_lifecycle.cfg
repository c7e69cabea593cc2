\* One caller of each blocking method, two upstream processes: every pair of
\* calls overlaps, and a start is aborted, fails, or follows a torn down one.
SPECIFICATION FairSpec
CONSTANTS
  Runners = {r1}
  Ensurers = {e1}
  Subscribers = {w1}
  Stoppers = {s1}
  Servers = {}
  MaxStarts = 2
  UnloadAfter = FALSE
  HealthCheck = TRUE
  IgnoreWebsockets = FALSE
  None = None
INVARIANTS OneUpstream StoppedMeansDown NoStrandedWaiter
PROPERTIES AnswersAreTrue RunOutlivesProcess ImplementsLifecycle
  StopAnswered StartAnswered ShutdownCompletes
