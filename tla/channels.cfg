SPECIFICATION Spec
CONSTANTS
  Names = {alice, bob}
  Views = {v1}
  Pubs = {p1, p2}
  None = None
  Faults = {"db", "net"}
  MaxKeys = 2
  MaxTitles = 2
INVARIANTS KeySound TitleNotOlder
SYMMETRY Interchangeable
