SPECIFICATION FairSpec
CONSTANTS
  Clients <- TabAndKeyless
  User <- UserOf
  Anon <- AnonOf
  NoClient = NoClient
  HistorySize = 2
  SendBuffer = 1
  JoinCap = 1
  LeaveCap = 1
  SendCap = 1
  MaxMsgs = 1
 
PROPERTIES ClosedEnds StopStops
CHECK_DEADLOCK FALSE
