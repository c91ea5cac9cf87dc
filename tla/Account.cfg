SPECIFICATION Spec
CONSTANTS
  p1 = p1
  p2 = p2
  u1 = u1
  u2 = u2
  t1 = t1
  t2 = t2
  d1 = d1
  d2 = d2
  Scenes <- MCScenes
  Procs = {p1, p2}
  None = None
  MaxFaults = 1
  Telegrams = {t1, t2}
  Users = {u1, u2}
  Gone = Gone
  MaxSeq = 3
  MaxChanges = 1
  Devices = {d1, d2}
  Versions <- MCVersions
  Required <- MCRequired
  MaxReplaced = 3
  Others = {"a", "b"}
  MaxPatches = 4
  Joins = {"join"}
  Tenants = {"own", "other"}
  Own = "own"
  Mandatories <- MCMandatories
  MaxAsked = 2
  Child = 2
  Parent = 4
  MinDuration = 1
  Duration = 3
  MaxTime = 5
  MaxSessions = 3
  MaxRewinds = 2
  MaxEvents = 6
SYMMETRY Symmetry
CHECK_DEADLOCK FALSE
INVARIANTS OneIdentity TelegramSeqInvariant KnownDevices VerifiedIsEarned NeverStuck CountedOnce ContactsTold
