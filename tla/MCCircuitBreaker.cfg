SPECIFICATION FairSpec

CONSTANTS
  Callers = {c1, c2, c3, c4}
  FailureThreshold = 3
  SuccessThreshold = 2
  HalfOpenRequests = 3
  Resets = TRUE
  Panics = TRUE

INVARIANTS
  TypeOK
  CountersBelongToState
  TestTrafficIsLimited

PROPERTIES
  OpenBlocks
  ResultsKeepTheCycle
  RecoversWithService
