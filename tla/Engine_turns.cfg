\* Turns, a call of another goroutine, a stop and a crash, in every order
SPECIFICATION Spec
CONSTANTS
  CmdCap = 2
  OutCap = 1
  MaxTurns = 1
  AsksUsage = TRUE
  HostStops = TRUE
  MaxLines = 2
  MaxExt = 1
  MaxCuts = 0
  MaxCrashes = 1
INVARIANTS RequestPaired HistoryAgrees InterruptFresh SessionCurrent
CHECK_DEADLOCK FALSE
