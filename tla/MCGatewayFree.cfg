SPECIFICATION SafeSpec
CONSTANTS
  r1 = r1
  r2 = r2
  ap2 = ap2
  sp1 = sp1
  ap1 = ap1
  q0 = q0
  None = None
  Requests <- MCRequests
  Starters <- MCStarters
  Stoppers <- MCStoppers
  Reloaders <- MCReloaders
  ConfigOf <- MCConfigOf
  InitConfig <- MCInit
  MaxConcurrency = 1
  FirstQueue = q0
  Sentinel = None
INVARIANTS TypeOK OnePlace DispatchedOnce
CHECK_DEADLOCK FALSE
PROPERTIES ContractSafety
