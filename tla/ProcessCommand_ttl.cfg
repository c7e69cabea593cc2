\* A TTL, a client that starts the process and one that uses it, by HTTP or by
\* an ignored websocket; two incarnations, so that a TTL goroutine can outlive
\* the process it was started for.
SPECIFICATION FairSpec
CONSTANTS
  Runners = {}
  Ensurers = {e1}
  Subscribers = {}
  Stoppers = {}
  Servers = {q1}
  MaxStarts = 2
  UnloadAfter = TRUE
  HealthCheck = FALSE
  IgnoreWebsockets = TRUE
  None = None
INVARIANTS TypeOK InflightCoversUse
PROPERTIES IdleUnloads
