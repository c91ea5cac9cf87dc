SPECIFICATION Spec
CONSTANTS
  Procs = {p1, p2}
  None = None
  Questions = 2
  MaxWrong = 0
  MaxAttempts = 1
  MaxResets = 0
  Duration = 2
  Cooldown = 2
  MaxTime = 6
  MaxFaults = 0
  MaxRows = 3
SYMMETRY Symmetry
CHECK_DEADLOCK FALSE
INVARIANTS UnreachableNotReached
