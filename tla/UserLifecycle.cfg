SPECIFICATION FairSpec
CONSTANTS
  Users = {1, 2, 3}
  Procs = {p1, p2}
  None = None
  Default = 0
  MaxReferralsCount = 1
  MaxRequests = 2
  MaxFaults = 1
CHECK_DEADLOCK FALSE
INVARIANT VerifiedCounted
PROPERTIES ReferrerKept RequestsEnd
