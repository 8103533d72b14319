\* Damaged and short packets, lost packets and bytes, a failed write.
SPECIFICATION SpecMC
CONSTANTS
  NBlocks = 3
  PMod = 3
  AskTries = 2
  AckTries = 3
  MaxErrors = 3
  MaxBad = 2
  FwdCap = 4
  RevCap = 4
  PacketBytes = 3
  FrameFaults = {"short"}
  Mangle = 3
  Lose = 3
  WriteErrors = 1
  ReadErrors = 0
  GotBound = 5
INVARIANTS TypeOK NamedIsCompleteHere SentIsKept StoredBySequence
PROPERTY ImplementsTransfer
CHECK_DEADLOCK FALSE
