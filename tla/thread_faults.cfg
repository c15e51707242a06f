CONSTANTS
  Replicas = {r1}
  Workers = {w1, w2}
  Jobs = {j1, j2}
  Keys = {k1}
  None = None
  Shared = Shared
  JobRunnerBackend = "thread"
  RedisUrl = FALSE
  HostOf <- MCHostOf
  Crashable = {r1}
  Faults <- EveryFault
  MaxRedeliveries = 0
SPECIFICATION FairLossSpec
INVARIANTS
  TypeOK
  RetryGetsSameJob
  AnswersNameHolder
  AcceptedJobIsStored
  RowMatchesStatus
  JobsCountedOnce
  NoOrphanedJob
PROPERTIES
  ImplementsLifecycle
  JobsSettle
CHECK_DEADLOCK FALSE
