SPECIFICATION CarefulSpec
CONSTANTS
  r1 = r1
  r2 = r2
  st1 = st1
  sp2 = sp2
  sp1 = sp1
  ap1 = ap1
  q0 = q0
  None = None
  Requests <- MCRequests
  Starters <- MCStarters
  Stoppers <- MCStoppers
  Reloaders <- MCReloaders
  ConfigOf <- MCConfigOf
  InitConfig <- MCInit
  MaxConcurrency = 2
  FirstQueue = q0
  Sentinel = None
INVARIANTS CleanStop RunningIsServed
PROPERTIES ContractHolds EveryCallEnds
CHECK_DEADLOCK FALSE
