\* Lines of one or two characters in a ring that holds two or three of them; cards of
\* each kind and size, one too large, with three faults and four calls.
SPECIFICATION SpecMC
CONSTANTS
  Char <- Chars
  HSTSIZE = 7
  CMDFULL = 3
  MayFail = TRUE
  MaxLines = 3
  MaxHi = 2
  Cards <- CardSet
  Data = {"old", "new"}
  BlockLen = 2
  SizeRange = 4
  Tries0 = 2
  Tries8 = 2
  Tries41 = 3
  CardFaults = 3
  CardCalls = 4
INVARIANTS TypeOK CardTypeOK RingHoldsNewest RecallFindsAll LossIsBounded
PROPERTIES CardIsBlockDevice CardCallsEnd
CHECK_DEADLOCK FALSE
