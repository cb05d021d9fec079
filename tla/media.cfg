SPECIFICATION Spec
CONSTANTS
  InCap = 1
  ErrCap = 1
  MaxPieces = 4
  MaxLines = 3
INVARIANTS NothingLost
PROPERTIES PublishProceeds HandlerReleased TearDownEnds CloseSeen
CHECK_DEADLOCK FALSE
