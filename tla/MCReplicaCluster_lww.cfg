SPECIFICATION Spec

CONSTANTS
  Replicas = {r1}
  Primary = p
  Keys = {k1}
  NoKey = NoKey
  MaxRequests = 2
  Faults = FALSE
  Evictions = {}
  Batches = FALSE

INVARIANTS
  NewestWriteWins

CHECK_DEADLOCK FALSE
