\* Answers of every dialect, whole and cut, with every mix of blocks
SPECIFICATION Spec
CONSTANTS
  Dialects = {"anthropic", "openai", "openai_ids"}
  HasFallback = TRUE
  MaxBlocks = 3
  MaxEvents = 9
INVARIANT MessageFaithful
CHECK_DEADLOCK FALSE
