SPECIFICATION Spec
CONSTANTS
  Clients <- TabAndGuest
  User <- UserOf
  Anon <- AnonOf
  NoClient = NoClient
  HistorySize = 2
  SendBuffer = 1
  JoinCap = 1
  LeaveCap = 1
  SendCap = 1
  MaxMsgs = 2
INVARIANTS LeaveHarmless
CHECK_DEADLOCK FALSE
