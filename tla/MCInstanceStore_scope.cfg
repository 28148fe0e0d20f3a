SPECIFICATION Spec

CONSTANTS
  Segments <- MCSegments
  Instances <- MCInstances
  Keys <- MCKeys
  Configured <- MCConfigured
  TTLs <- MCTTLs
  BatchSize = 1
  Limit = 1
  Faults = TRUE
  MaxTime = 2
  MaxWrites = 2
  MaxDeletes = 1
  MaxMoves = 2

PROPERTIES
  CallsStayInTheirInstance

CHECK_DEADLOCK FALSE
