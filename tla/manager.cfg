SPECIFICATION FairSpec
CONSTANTS
  Channels = {ch1}
  Rooms = {r1, r2}
  Clients = {c1, c2}
  JoinCap = 1
  NoRoom = NoRoom
  NoChannel = NoChannel
INVARIANTS TypeOK EntryRunning NoLeakedRoom StoppedEmpty
PROPERTIES ShutdownEnds EmptiedReaped ClientsReleased
CHECK_DEADLOCK FALSE
