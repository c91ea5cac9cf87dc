SPECIFICATION FairSpec
CONSTANTS
  c1 = c1
  c2 = c2
  c3 = c3
  u1 = u1
  u2 = u2
  u3 = u3
  low = low
  mid = mid
  top = top
  Nobody = Nobody
  Consumers = {c1, c2, c3}
  Users = {u1, u2, u3}
  Referrers = {low, mid, top}
  Leavers = {mid}
  T0Of <- Chain
  Feed <- Feeds
  FirstDays = {2}
  WithRows <- Rows
  Ages = {1}
  MaxTicks = 1
  MaxFaults = 1
CHECK_DEADLOCK FALSE
INVARIANTS CountedAgainOnlyIfLost DaysWithinTotal TotalOffByFaults
PROPERTIES MessagesSettle
