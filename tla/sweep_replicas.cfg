SPECIFICATION Spec
CONSTANTS
  Digests = {d1}
  Users = {u1, u2}
  Sweepers = {s1, s2}
  Operators = {}
  MaxDay = 2
  MaxFaults = 1
  MaxEdits = 1
  Advance <- CompressedAdvance
  NoDigest = NoDigest
  NoDate = NoDate
  Unlocked = Unlocked
SYMMETRY Interchangeable
INVARIANTS OneBatchPerDay ClaimFreezesRow PullInv
PROPERTIES DegradeOnlyAfterFullSend ImplementsSchedule
CHECK_DEADLOCK FALSE
