SPECIFICATION Spec

CONSTANTS
  Keys = {k1}
  NoKey = NoKey
  Workers = {w1, w2}
  Capacity = 1
  MaxRetry = 1
  MaxWrites = 2
  DBFaults = FALSE
  Restarts = FALSE

INVARIANTS
  ShutdownLosesNothing

CHECK_DEADLOCK FALSE
