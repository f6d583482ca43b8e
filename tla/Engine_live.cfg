\* Turns end and Stop returns, with fair goroutines
SPECIFICATION FairSpec
CONSTANTS
  CmdCap = 1
  OutCap = 1
  MaxTurns = 1
  AsksUsage = TRUE
  HostStops = TRUE
  MaxLines = 1
  MaxExt = 1
  MaxCuts = 1
  MaxCrashes = 0
PROPERTIES TurnEnds StopReturns
CHECK_DEADLOCK FALSE
