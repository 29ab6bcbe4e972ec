SPECIFICATION Spec
CONSTANTS
  Digests = {d1}
  Users = {u1, u2}
  Sweepers = {s1}
  Operators = {o1}
  MaxDay = 1
  MaxFaults = 1
  MaxEdits = 4
  Advance <- CompressedAdvance
  NoDigest = NoDigest
  NoDate = NoDate
  Unlocked = Unlocked
SYMMETRY Interchangeable
INVARIANT StaleListOnlyWithinBatch
CHECK_DEADLOCK FALSE
