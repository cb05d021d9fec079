SPECIFICATION Spec
CONSTANTS
  Browsers = {b1, b2}
  Names = {alice, bob}
  Slots = {r1, r2}
  None = None
  Keep = Keep
  Faults = {"db", "net"}
  TTL = 1
  MaxTokens = 2
  MaxTime = 1
INVARIANTS ChannelPerUser AuthSound
PROPERTIES SessionsKept CookieKept
SYMMETRY Interchangeable
