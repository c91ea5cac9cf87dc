SPECIFICATION Spec
CONSTANTS
  Users = {u1}
  Procs = {p1, p2}
  Handles = {h1}
  None = None
  Steps = {5}
  MaxSessions = 2
  MaxAttempts = 1
  Window = 1
  Delay = 1
  MaxTime = 1
  MaxFaults = 0
  MaxRows = 2
SYMMETRY Symmetry
CHECK_DEADLOCK FALSE
INVARIANTS ConflictMeansPassed
