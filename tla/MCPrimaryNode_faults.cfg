SPECIFICATION Spec

CONSTANTS
  Keys = {k1, k2}
  NoKey = NoKey
  Workers = {w1}
  Capacity = 1
  MaxRetry = 1
  MaxWrites = 2
  DBFaults = TRUE
  Restarts = FALSE
  Handlers = {h1, h2}
  MaxDeletes = 1
  CacheFaults = TRUE
  Evictions = TRUE

INVARIANTS
  TypeOK
  ValuesStayWithTheirKey
  SetsNeverWait

PROPERTIES
  GoneUntilSet
  ValueFlowSpec

SYMMETRY Symmetry

CHECK_DEADLOCK FALSE
