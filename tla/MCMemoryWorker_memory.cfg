SPECIFICATION Spec
CONSTANTS
  plain = plain
  flow = flow
  Skills <- MCSkills
  Workflows <- MCWorkflows
  NoSkill = NoSkill
  Threshold = 1
  QueueCap = 1
  MaxTurns = 2
  MaxCalls = 2
  MaxRounds = 1
  MaxResets = 1
INVARIANTS RecordsCoherent SliceExact ClaimedOnce
PROPERTIES TurnHandedOver StopReturns
CHECK_DEADLOCK FALSE
