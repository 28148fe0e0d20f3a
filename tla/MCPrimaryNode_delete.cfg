SPECIFICATION Spec

CONSTANTS
  Keys = {k1}
  NoKey = NoKey
  Workers = {w1}
  Capacity = 2
  MaxRetry = 0
  MaxWrites = 1
  DBFaults = FALSE
  Restarts = FALSE
  Handlers = {h1}
  MaxDeletes = 1
  CacheFaults = FALSE
  Evictions = FALSE

INVARIANTS
  DeletedIsGone

CHECK_DEADLOCK FALSE
