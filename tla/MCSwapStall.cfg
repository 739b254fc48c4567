SPECIFICATION Spec
CONSTANTS
  r1 = r1
  r2 = r2
  st1 = st1
  ap1 = ap1
  q0 = q0
  None = None
  Requests <- MCRequests
  Starters <- MCStarters
  Stoppers <- MCStoppers
  Reloaders <- MCReloaders
  ConfigOf <- MCConfigOf
  InitConfig <- MCInit
  MaxConcurrency = 1
  NewSize = 2
  FirstQueue = q0
  Sentinel = None
PROPERTIES EverySubmitEnds
CHECK_DEADLOCK FALSE
