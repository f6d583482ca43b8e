\* Two approvals asked at once by one agent
SPECIFICATION Spec
CONSTANTS
  Callers = {c1}
  ToolCalls = {t1, t2}
  NoTool = NoTool
  Ops = {"spawn", "yes"}
  EventCap = 2
  ConfirmCap = 1
  NoticeCap = 1
  MaxTurns = 1
  MaxSpawns = 1
INVARIANT ParallelRequestHeld
CHECK_DEADLOCK FALSE
