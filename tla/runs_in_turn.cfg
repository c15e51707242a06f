SPECIFICATION FairSpec
CONSTANTS
  Callers = {c1}
  Catalogs = {v1, v2}
  Tasks = {t1, t2, t3}
  None = None
  PageSize = 1
  MaxPages = 3
  MaxRetries = 2
  Enabled = TRUE
  MockModes <- Real
  Faults <- EveryFaultButLost
  Others <- CreateOnly
INVARIANTS TypeOK NoDuplicateTask OutputHasItsTasks
PROPERTY RunsEnd
