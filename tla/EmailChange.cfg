SPECIFICATION FairChangeSpec
CONSTANTS
  p1 = p1
  p2 = p2
  new1 = new1
  new2 = new2
  Original = Original
  OwnId = OwnId
  Marker = Marker
  Nothing = Nothing
  Procs = {p1, p2}
  New = {new1, new2}
  Registrable = {new1}
  MaxAttempts = 1
  MaxRequests = 3
  MaxFailures = 1
CHECK_DEADLOCK FALSE

INVARIANTS AllOrNothing CodesPerIPBounded
PROPERTIES MetadataKept AgreeInTheEnd
