SPECIFICATION Spec
CONSTANTS
  Runners = {}
  Ensurers = {e1}
  Subscribers = {}
  Stoppers = {}
  Servers = {q1}
  MaxStarts = 2
  UnloadAfter = TRUE
  HealthCheck = FALSE
  IgnoreWebsockets = TRUE
  None = None
PROPERTY TTLEndsWithItsProcess
