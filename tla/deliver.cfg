SPECIFICATION Spec
CONSTANTS
  ann = ann
  acme = acme
  messages = messages
  connected = connected
  pinned = pinned
  drifted = drifted
  editors = editors
  staff = staff
  Users = {ann}
  AutoSubscribed = {ann}
  TipCount = 3
  Gate <- MCGate
  GroupsOf <- MCGroupsOf
  Keys = {messages, connected, pinned, drifted}
  Fence <- MCFence
  Companies = {acme}
  Senders = {s1, s2}
  MaxMails = 3
  MaxEdits = 1
  NoUser = NoUser
  NoTip = NoTip
  NoGate = NoGate
  NoCompany = NoCompany
INVARIANTS ConsumedOnlyIfMailed FirstMailWarns DropsOnlyAsDeclared GateFailsClosed RepeatsOnlyByOverlap
PROPERTY ImplementsSend
CHECK_DEADLOCK FALSE
