SPECIFICATION Spec
CONSTANTS
  Size = 4
  Bytes = {1, 2, 3}
  MaxWrite = 6
INVARIANTS SnapshotIsTail
