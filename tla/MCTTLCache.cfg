SPECIFICATION Spec
CONSTANTS
  Keys = {k1, k2, k3}
  Values = {v1, v2}
  NoValue = NoValue
  MaxEntries = 2
  TTL = 2
  MaxTime = 4
PROPERTIES HitIsLatestAndFresh MissIsJustified
CHECK_DEADLOCK FALSE
