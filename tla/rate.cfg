SPECIFICATION Spec
CONSTANTS
  Users = {u1, u2}
  Burst = 2
  Rate = 2
  Unit = 3
  MaxTime = 5
INVARIANTS WindowBound QuotaReturns
