CONSTANTS
  Replicas = {r1}
  Workers = {w1, w2}
  Jobs = {j1}
  Keys = {k1}
  None = None
  Shared = Shared
  JobRunnerBackend = "celery"
  RedisUrl = TRUE
  HostOf <- MCHostOf
  Crashable = {r1, w1, w2}
  Faults <- EveryFault
  MaxRedeliveries = 2
SPECIFICATION FairLossSpec
INVARIANT
  NoOrphanedJob
PROPERTIES
  JobsSettle
  OnlyRedeliveryReopens
CHECK_DEADLOCK FALSE
