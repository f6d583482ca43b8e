\* The parser on every small document. Then one playbook of each shape, a second
\* one that may overlap it, an agent of the agent tool, a user who stops agents.
SPECIFICATION FairSpec
CONSTANTS
  r1 = r1
  r2 = r2
  x = x
  y = y
  NoVar = NoVar
  Runs <- MCRuns
  Vars <- MCVars
  Documents <- MCDocuments
  DocumentsOf <- MCDocumentsOf
  MaxSpawns = 3
  ToolCap = 1
  MaxLines = 4
INVARIANTS
  ParserFaithful
  VarsFromCompleted
  AgentsAccounted
  SuccessMeansCompleted
  LockExact
PROPERTY ExecuteReturns
CHECK_DEADLOCK FALSE
