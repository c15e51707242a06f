SPECIFICATION HistorySpec
CONSTANTS
  Callers = {c1, c2}
  Keys = {k1, k2}
  Tasks = {t1, t2, t3}
  None = None
  PageSize = 1
  MaxPages = 2
  MaxRetries = 2
  Enabled = TRUE
  MockModes <- RealOrMock
  Faults <- EveryFault
  Others <- EveryOther
SYMMETRY Symmetry
INVARIANTS TypeOK RecordNamesItsTask OutcomeNamesItsTask NoAvoidableDuplicate
