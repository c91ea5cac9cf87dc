SPECIFICATION Spec
CONSTANTS
  Procs = {p1, p2}
  None = None
  Questions = 2
  MaxWrong = 0
  MaxAttempts = 1
  MaxResets = 0
  Duration = 2
  Cooldown = 2
  MaxTime = 7
  MaxFaults = 1
  MaxRows = 4
SYMMETRY Symmetry
CHECK_DEADLOCK FALSE
INVARIANTS PassedIsEarned VerdictOnce StartsBounded ResetsPaid
