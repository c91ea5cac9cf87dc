SPECIFICATION FairSpec
CONSTANTS
  Emails = {e1, e2}
  Devices = {d1}
  Requests = {p1}
  Workers = {w1, w2}
  None = None
  Language <- LanguageByEmail
  Rates = {1, 2}
  MaxBatchSize = 2
  AliveTTL = 1
  Expiration = 2
  LockErrors = TRUE
  MaxTime = 2
  MaxTickets = 2
  MaxCode = 1
  MaxFaults = 1
CHECK_DEADLOCK FALSE
INVARIANTS EntryTakenOnce WaitingNotDropped
PROPERTIES CodeReachesClient
