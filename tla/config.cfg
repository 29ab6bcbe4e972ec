SPECIFICATION Spec
CONSTANTS
  connected = connected
  leads = leads
  unprefixed = unprefixed
  ours = ours
  theirs = theirs
  rival = rival
  Names = {connected, leads, unprefixed}
  Prefixed = {connected, leads}
  Base <- MCBase
  Hosts <- MCHosts
  Settings <- MCSettings
  Step <- MCStep
  NextRung <- MCNextRung
  Replicas = {r1}
  Clerks = {k1}
  LastDay = 2
  MaxEdits = 4
  MaxStarts = 2
  Null = Null
INVARIANTS TypeOK MailShowsComposition SettledOncePerDate
PROPERTIES OneMeaningPerName PauseKeepsSchedule
CHECK_DEADLOCK FALSE
