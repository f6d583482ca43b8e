\* Reads, writes and edits of two callers, between the saves of an editor
SPECIFICATION Spec
CONSTANTS
  f1 = f1
  c1 = c1
  c2 = c2
  Callers = {c1, c2}
  Files = {f1}
  Paths = {"f", "/d/f", "./f"}
  File <- MCFile
  Clean <- MCClean
  MaxCalls = 3
  MaxSaves = 2
SYMMETRY Symmetry
INVARIANT TypeOK
PROPERTY UnreadChangesKept
CHECK_DEADLOCK FALSE
