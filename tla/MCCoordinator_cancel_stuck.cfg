\* Kill of an agent whose runner waits for the transcript
SPECIFICATION FairSpec
CONSTANTS
  Callers = {c1}
  ToolCalls = {}
  NoTool = NoTool
  Ops = {"agent", "kill"}
  EventCap = 2
  ConfirmCap = 1
  NoticeCap = 1
  MaxTurns = 1
  MaxSpawns = 1
PROPERTY CancelEndsRun
CHECK_DEADLOCK FALSE
