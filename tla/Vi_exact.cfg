\* Undoing everything, without typing a character that is not recorded.
SPECIFICATION Spec
CONSTANTS
  Files <- TwoLines
  Typed = {}
  MaySpoil = FALSE
  QueueMax = 2
  MaxCount = 2
  MaxLen = 4
  MaxUndo = 1
  MaxSlips = 1
INVARIANT UndoRestores
CHECK_DEADLOCK FALSE
