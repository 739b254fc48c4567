SPECIFICATION GuardSpec
CONSTANTS
  Capacity = 2
  Unit = 3
  Rate = 2
  MaxTime = 3
  MaxGrants = 4
  d1 = d1
  d2 = d2
  d3 = d3
  d4 = d4
  c1 = c1
  c2 = c2
  Dispatches = {d1, d2, d3, d4}
  Contents = {c1, c2}
  ContentOf <- MCContentOf
  MaxEntries = 1
  TTL = 2
  None = None
INVARIANTS GuardTypeOK WindowBound RefusedOnlyIfTooMany SameQuestion
PROPERTIES RefinesManager
SYMMETRY Alike
CHECK_DEADLOCK FALSE
