SPECIFICATION Spec
CONSTANTS
  Keys = {k1}
  NilKey = nil
  MaxFailures = 3
  Window = 2
  MaxTime = 5
  MaxRequests = 5
INVARIANTS LockedIffGrinding GenuineAlwaysHonoured
CHECK_DEADLOCK FALSE
