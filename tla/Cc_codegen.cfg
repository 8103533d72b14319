CONSTANTS
  WordBits = 12
  TextSize = 400
  CondReach = 16
  NearReach = 64
  PoolBytes = 48
  PoolReach = 17
  DataBytes = 200
  MaxSteps = 1000
  Jobs <- MCJobs
  Translate <- Translated
  MeaningOf <- Meaning
SPECIFICATION Spec
INVARIANTS TypeOK ComputesC CompilesValid StackIsEven
CHECK_DEADLOCK FALSE
