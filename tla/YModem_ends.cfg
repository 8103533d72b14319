\* Damaged packets, one lost or headless packet or lost byte, faults of the file
\* system: no command hangs, and what follows the last loss completes.
SPECIFICATION FairSpec
CONSTANTS
  NBlocks = 2
  PMod = 3
  AskTries = 2
  AckTries = 2
  MaxErrors = 4
  MaxBad = 3
  FwdCap = 4
  RevCap = 4
  PacketBytes = 5
  FrameFaults = {"short", "stray"}
  Mangle = 2
  Lose = 1
  WriteErrors = 0
  ReadErrors = 1
PROPERTIES Terminates Delivers
CHECK_DEADLOCK FALSE
