SPECIFICATION Spec
CONSTANTS
  Ids = {a, b, c}
  Prices <- ThreePrices
  Names <- EveryName
  MaxProducts = 3
  MaxItems = 2
  BatchSize = 2
  Limit = 2
  MockModes <- EitherMode
  Cheap = 2
  Dear = 2
  None = None
SYMMETRY Symmetry
CHECK_DEADLOCK FALSE
INVARIANTS TypeOK BatchesAreIndependent TasksListTheExtremes
