\* One slow write and one lost frame: both ends report success, a block is missing.
SPECIFICATION Spec
CONSTANTS
  NBlocks = 3
  PMod = 9
  SyncTries = 2
  MaxRetrans = 4
  EotTries = 2
  TxWait = 2
  FwdCap = 3
  RevCap = 3
  SlowTime = 3
  NoiseLen = 2
  Damage = 1
  FrameFaults = {"bad"}
  SlowWrites = 1
  WriteErrors = 0
  ReadErrors = 0
INVARIANT BothOkMeansDelivered
CHECK_DEADLOCK FALSE
