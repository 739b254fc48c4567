SPECIFICATION SerialSpec
CONSTANTS
  a = a
  b = b
  c1 = c1
  c2 = c2
  k1 = k1
  L1 = L1
  L2 = L2
  L3 = L3
  R1 = R1
  S1 = S1
  D1 = D1
  D2 = D2
  Names = {a, b}
  AConfigs = {c1, c2}
  Keys = {k1}
  Reloads = {L1, L2, L3}
  Registers = {R1}
  Shutdowns = {S1}
  Dispatches = {D1}
  ConfigOf <- MCConfigOf
  None = None
INVARIANTS NoOrphan OneLivePerName
PROPERTIES ReloadEstablishes ShutdownStopsAll
CHECK_DEADLOCK FALSE
