SPECIFICATION Spec
CONSTANTS
  Clients <- Tabs
  User <- UserOf
  Anon <- AnonOf
  NoClient = NoClient
  HistorySize = 2
  SendBuffer = 1
  JoinCap = 1
  LeaveCap = 1
  SendCap = 1
  MaxMsgs = 3
INVARIANTS DeliveryContiguous MembersOpen OnlyOvertakenPanics CountsExact
CHECK_DEADLOCK FALSE
