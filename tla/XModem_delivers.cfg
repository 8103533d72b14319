\* The code's own patience, prompts that wait for a sender that starts late, a write
\* slower than the sender's patience, and two tokens lost or bytes spoilt on the way.
SPECIFICATION FairSpec
CONSTANTS
  NBlocks = 3
  PMod = 24
  SyncTries = 10
  MaxRetrans = 7
  EotTries = 3
  TxWait = 2
  FwdCap = 10
  RevCap = 10
  SlowTime = 3
  NoiseLen = 2
  Damage = 2
  FrameFaults = {}
  SlowWrites = 1
  WriteErrors = 0
  ReadErrors = 0
PROPERTY Delivers
CHECK_DEADLOCK FALSE
