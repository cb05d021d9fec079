SPECIFICATION Spec
CONSTANTS
  Channels = {ch1}
  Rooms = {r1}
  Clients = {c1, c2}
  JoinCap = 1
  NoRoom = NoRoom
  NoChannel = NoChannel
INVARIANTS OccupiedNotPending
CHECK_DEADLOCK FALSE
