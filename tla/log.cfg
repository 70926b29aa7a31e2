SPECIFICATION FairSpec
CONSTANTS
  Lines = {"a", "b", "c"}
  NoCon = {"a"}
  Garbled = "garbled"
  LOG_REPEAT = 2
  RingLines = 2
  Earlier <- Before
  MaxLines = 5
INVARIANTS
  NothingLost
  LossIsCounted
PROPERTIES
  AllTold
CHECK_DEADLOCK FALSE
