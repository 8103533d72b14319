\* A block whose start is lost.
SPECIFICATION Spec
CONSTANTS
  NBlocks = 1
  PMod = 256
  AskTries = 2
  AckTries = 3
  MaxErrors = 3
  MaxBad = 2
  FwdCap = 4
  RevCap = 4
  PacketBytes = 6
  FrameFaults = {"stray"}
  Mangle = 0
  Lose = 1
  WriteErrors = 0
  ReadErrors = 0
INVARIANT NamedIsComplete
CHECK_DEADLOCK FALSE
