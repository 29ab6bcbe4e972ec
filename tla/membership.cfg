SPECIFICATION FairSpec
CONSTANTS
  ann = ann
  hired = hired
  garbled = garbled
  Users = {ann}
  Envelopes = {hired, garbled}
  Addressee <- MCAddressee
  Clicks = {c1, c2}
  Clerks = {k1}
  TokenTTL = 1
  MaxTime = 2
  MaxMoves = 4
  NoUser = NoUser
  Null = Null
INVARIANTS OptOutSticks AnnouncedOnce OneFactPerMembership
PROPERTIES NeverRestamped NewcomerJoins
CHECK_DEADLOCK FALSE
