SPECIFICATION Spec
CONSTANTS
  Sessions = {s1, s2}
  Channels = {c1}
  NoSession = NoSession
  NoChannel = NoChannel
  Faults = {}
INVARIANTS LiveHasDir
