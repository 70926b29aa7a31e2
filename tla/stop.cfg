SPECIFICATION FairSpec
CONSTANTS
  N = 5
  Type <- DiamondType
  Rdep <- DiamondRdep
  Restart = {}
  Notify = {}
  OrderOnly = {2}
  Tries <- DiamondTries
  Stuck = {2}
INVARIANTS
  DependentsFirst
  CountsExact
PROPERTIES
  ShutdownEnds
CHECK_DEADLOCK FALSE
