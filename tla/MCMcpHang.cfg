SPECIFICATION HangSpec
CONSTANTS
  i1 = i1
  i2 = i2
  Instructions = {i1, i2}
  Kinds <- MCShell
  Handlers <- MCHandlers
  Policy <- MCPolicy
  Validator = "required"
  DryRun = FALSE
  PoolSize = 1
  MaxLives = 1
  None = None
PROPERTIES TimeboxingPreventsHang
CHECK_DEADLOCK FALSE
