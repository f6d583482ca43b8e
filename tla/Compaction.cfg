SPECIFICATION Spec
CONSTANTS
  KeepRecent = 1
  MinTokens = 3
  MinTexts = 2
  MaxTokens = 6
  AutoLimit = 10
  BlockLimit = 12
  MaxFailures = 3
  ResultSize = 2
  Overhead = 4
  MaxCalls = 3
  MaxPrompts = 3
  MaxReplies = 2
  MaxNotes = 1
INVARIANTS TypeOK ResultsHaveCalls RecentResultsKept LogTellsAll
PROPERTY KeepsShortestTail
CHECK_DEADLOCK FALSE
