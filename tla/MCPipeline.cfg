SPECIFICATION Spec
CONSTANTS
  Conns = {t1}
  Pipe = Pipe
  MaxSent = 2
  MaxStops = 1
  MaxFaults = 1
  MaxLives = 2
  None = None
INVARIANTS TypeOK PassedIsPersisted InboxIntact InFileOrder
PROPERTIES ReadIsDone
CHECK_DEADLOCK FALSE
