SPECIFICATION Spec
CONSTANTS
  Digests = {d1}
  MaxDay = 5
  MaxLost = 1
  Advance <- CompressedAdvance
  NoDate = NoDate
  NoBatch = NoBatch
CONSTRAINT FewLost
INVARIANTS ScheduleInv OneBatchPerDate
CHECK_DEADLOCK FALSE
