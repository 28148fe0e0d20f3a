SPECIFICATION Spec

CONSTANTS
  Callers = {c1}
  FailureThreshold = 1
  SuccessThreshold = 1
  HalfOpenRequests = 1
  Ops = {"Set"}
  Transports = {"plain"}
  MaxRetries = 1
  LinearAttempts = 0
  ConstantAttempts = 2
  MaxSent = 3
  Batches = FALSE

INVARIANTS
  AcceptedSetSucceeds
