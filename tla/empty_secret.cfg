SPECIFICATION Spec
CONSTANTS
  connected = connected
  leads = leads
  unprefixed = unprefixed
  ours = ours
  theirs = theirs
  rival = rival
  Names = {connected, leads, unprefixed}
  Prefixed = {connected, leads}
  Base <- MCBase
  Hosts <- MCHosts
  Settings <- MCEmptySettings
  Step <- MCStep
  NextRung <- MCNextRung
  Replicas = {r1}
  Clerks = {k1}
  LastDay = 2
  MaxEdits = 2
  MaxStarts = 1
  Null = Null
INVARIANT MailHasWayOut
CHECK_DEADLOCK FALSE
