\* Lifecycle and approvals: two agents, two callers
SPECIFICATION Spec
CONSTANTS
  Callers = {c1, c2}
  ToolCalls = {t1}
  NoTool = NoTool
  Ops = {"spawn", "wait", "kill", "yes"}
  EventCap = 1
  ConfirmCap = 1
  NoticeCap = 1
  MaxTurns = 1
  MaxSpawns = 2
SYMMETRY Symmetry
INVARIANTS TypeOK NoForgottenWaiter EndOnTheWay OneOutcome UsageConserved ConfirmQueueCoherent RequestHeld
PROPERTY ServiceSpec
