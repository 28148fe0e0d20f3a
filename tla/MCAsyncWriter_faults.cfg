SPECIFICATION FairSpec

CONSTANTS
  Keys = {k1, k2}
  NoKey = NoKey
  Workers = {w1, w2}
  Capacity = 1
  MaxRetry = 1
  MaxWrites = 2
  DBFaults = TRUE
  Restarts = TRUE

INVARIANTS
  TypeOK
  PendingIsOwned
  OwnedOnce
  RowsWereAccepted
  ConfirmedHasRow

PROPERTIES
  AttemptSentOnce
  WriteBehindSpec
  EventuallySettled
  ShutdownStopsWorkers
