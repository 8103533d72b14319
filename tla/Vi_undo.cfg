\* All commands on short files.
SPECIFICATION Spec
CONSTANTS
  Files <- Short
  Typed = {"a", "nl"}
  MaySpoil = TRUE
  QueueMax = 2
  MaxCount = 2
  MaxLen = 4
  MaxUndo = 1
  MaxSlips = 0
INVARIANTS TypeOK UndoIsExact QuitLosesNothingCounted
CHECK_DEADLOCK FALSE
