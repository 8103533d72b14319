CONSTANTS
  WordBits = 12
  TextSize = 400
  CondReach = 16
  NearReach = 64
  PoolBytes = 48
  PoolReach = 17
  DataBytes = 200
  MaxSteps = 1000
  Jobs <- Hiding
  Translate <- Translated
  MeaningOf <- Meaning
SPECIFICATION Spec
INVARIANTS HiddenComesBack
CHECK_DEADLOCK FALSE
