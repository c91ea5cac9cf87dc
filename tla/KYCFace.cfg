SPECIFICATION FairSpec
CONSTANTS
  p1 = p1
  p2 = p2
  Procs = {p1, p2}
  Forwarders = {p2}
  None = None
  ConcurrentUsers = 1
  ErrorsAllowed = 1
  Nexts = {2}
  Results = {2}
  MaxEvents = 2
CHECK_DEADLOCK FALSE
INVARIANTS TypeOK
PROPERTIES RequestHonoured VerdictArrives RequestsEnd
