SPECIFICATION Spec
CONSTANTS
  i1 = i1
  i2 = i2
  Instructions = {i1, i2}
  Kinds <- MCKinds
  Handlers <- MCHandlers
  Policy <- MCPolicy
  Validator = "required"
  DryRun = FALSE
  PoolSize = 2
  MaxLives = 2
  None = None
INVARIANTS TypeOK AuditFollowsResult ReportedInOrder EffectsAreCovered
PROPERTIES EveryInstructionAudited ShutdownSettles
CHECK_DEADLOCK FALSE
