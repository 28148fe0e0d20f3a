SPECIFICATION Spec

CONSTANTS
  Replicas = {r1, r2}
  Primary = p
  Keys = {k1}
  NoKey = NoKey
  MaxRequests = 2
  Faults = TRUE
  Evictions = {r1, r2}
  Batches = TRUE

INVARIANTS
  TypeOK
  FailuresStayLocal
  OwnWritesStay

PROPERTIES
  ValueFlowSpec

SYMMETRY Symmetry

CHECK_DEADLOCK FALSE
