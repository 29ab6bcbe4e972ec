SPECIFICATION FairSpec
CONSTANTS
  Users = {ann}
  Tips = {1, 2}
  Groups = {editors}
  Sequences = {1, 2}
  Senders = {s1, s2}
  MaxEdits = 2
  MaxFaults = 1
  NoUser = NoUser
  NoTip = NoTip
  NoGate = NoGate
INVARIANTS InOrder NotAgain
PROPERTIES CarouselAdvances
