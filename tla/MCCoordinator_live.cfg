\* Liveness: everything the loop owes its callers and its agents
SPECIFICATION FairSpec
CONSTANTS
  Callers = {c1, c2}
  ToolCalls = {t1}
  NoTool = NoTool
  Ops <- AllOps
  EventCap = 1
  ConfirmCap = 1
  NoticeCap = 1
  MaxTurns = 1
  MaxSpawns = 1
PROPERTIES KillEffective WaitReturns CallsAnswered
CHECK_DEADLOCK FALSE
