SPECIFICATION Spec
CONSTANTS
  Devices = {d1}
  Procs = {p1, p2}
  Codes = {c1, c2}
  UserIDs = {u1}
  None = None
  MaxWrong = 1
  BlockDuration = 1
  Expiration = 2
  Crashes = FALSE
  CodesRepeat = FALSE
  StaleReads = TRUE
  MaxTime = 1
  MaxSeq = 3
  MaxGen = 2
  MaxCount = 2
SYMMETRY Symmetry
CHECK_DEADLOCK FALSE
INVARIANTS LateSignInsBounded CodeBuysSession
PROPERTIES NoOlderTokenExchanged
