SPECIFICATION Spec
CONSTANTS
  Replicas = {r1, r2}
  Slots = {s1, s2, s3, s4}
  Limit = 2
  Window = 3
  Slack = 1
  Backends <- EitherBackend
  Crashes = TRUE
SYMMETRY Symmetry
INVARIANTS TypeOK NeverOverLimit DeniedOnlyAtLimit
