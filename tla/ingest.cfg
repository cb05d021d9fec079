SPECIFICATION FairSpec
CONSTANTS
  Sessions = {s1, s2}
  Channels = {c1, c2}
  NoSession = NoSession
  NoChannel = NoChannel
  Faults = {"db", "fs", "exec"}
INVARIANTS TypeOK RegistryExact NoStrayFFmpeg RecoveredRows EndReasonExplained
INVARIANTS QuiescentClean ShutdownClosesLive
PROPERTIES EndedRowsFinal DirectoryRefined SessionEnds ShutdownTerminates
