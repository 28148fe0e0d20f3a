SPECIFICATION FairSpec

CONSTANTS
  Callers = {c1, c2}
  FailureThreshold = 1
  SuccessThreshold = 1
  HalfOpenRequests = 1
  Ops = {"Set", "Get"}
  Transports = {"breaker", "perEndpoint", "plain", "once", "wasm"}
  MaxRetries = 1
  LinearAttempts = 2
  ConstantAttempts = 0
  MaxSent = 3
  Batches = TRUE

INVARIANTS
  TypeOK
  ResultsAreEarned
  RepeatsNeedDoubt
  BatchIsWhole

PROPERTIES
  BreakerSpec
  CallsEnd
