\* Every fault, with packet numbers that wrap within the file and that only just
\* outnumber what the buffers hold; the patience of the sender is that of the code.
SPECIFICATION FairSpec
CONSTANTS
  NBlocks = 7
  PMod = 6
  SyncTries = 2
  MaxRetrans = 3
  EotTries = 2
  TxWait = 2
  FwdCap = 2
  RevCap = 2
  SlowTime = 3
  NoiseLen = 1
  Damage = 2
  FrameFaults = {"bad", "short", "stray"}
  SlowWrites = 1
  WriteErrors = 1
  ReadErrors = 1
INVARIANTS TypeOK IInv StoredInOrder SuccessIsComplete
PROPERTY Terminates ImplementsTransfer
CHECK_DEADLOCK FALSE
