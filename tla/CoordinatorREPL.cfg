\* The coordinator's prompt: any number of lines and signals, an agent that
\* asks as often as it likes, and a Stop from elsewhere
SPECIFICATION FairSpec
CONSTANTS
  Agents = {a1}
  Stoppers = {s1}
  Lines = {"prompt", "yes", "/quit", "/stop", "/stop-agent"}
  CmdCap = 1
  TurnCap = 1
  OutCap = 1
  EventCap = 1
  NoticeCap = 1
INVARIANT PanicOnlyWhenStopped
PROPERTIES WordReachesAsker MainReturns QuitExits
CHECK_DEADLOCK FALSE
