SPECIFICATION Spec
CONSTANTS
  Devices = {d1}
  Procs = {p1, p2}
  Codes = {c1, c2}
  UserIDs = {u1, u2}
  None = None
  MaxWrong = 2
  BlockDuration = 1
  Expiration = 2
  Crashes = TRUE
  CodesRepeat = TRUE
  StaleReads = FALSE
  MaxTime = 1
  MaxSeq = 3
  MaxGen = 2
  MaxCount = 3
SYMMETRY Symmetry
CHECK_DEADLOCK FALSE
INVARIANTS SeqInvariant GuessesBounded BlockNotMissed
