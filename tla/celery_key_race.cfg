CONSTANTS
  Replicas = {r1, r2}
  Workers = {w1, w2}
  Jobs = {j1, j2}
  Keys = {k1}
  None = None
  Shared = Shared
  JobRunnerBackend = "celery"
  RedisUrl = TRUE
  HostOf <- MCHostOf
  Crashable = {}
  Faults = {}
  MaxRedeliveries = 0
SPECIFICATION LossSpec
SYMMETRY Symmetry
INVARIANT
  KeyNamesOneJob
CHECK_DEADLOCK FALSE
