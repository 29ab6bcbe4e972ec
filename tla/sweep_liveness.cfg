SPECIFICATION FairSpec
CONSTANTS
  Digests = {d1, d2}
  Users = {u1}
  Sweepers = {s1, s2}
  Operators = {}
  MaxDay = 1
  MaxFaults = 1
  MaxEdits = 0
  Advance <- CompressedAdvance
  NoDigest = NoDigest
  NoDate = NoDate
  Unlocked = Unlocked

INVARIANT AttemptedOncePerSweep
PROPERTY SweepEnds DueIsClaimed
VIEW ExceptQueued
CHECK_DEADLOCK FALSE
