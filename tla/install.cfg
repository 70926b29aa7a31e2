SPECIFICATION FairSpec
CONSTANTS
  p1 = p1
  p2 = p2
  p3 = p3
  g0 = g0
  g1 = g1
  None = None
  Procs = {p1, p2, p3}
  Given = {g0, g1}
  NG_MAX_SVC = 4
  nslot = 2
  MaxCrash = 1
  Scenarios <- MCScenarios
INVARIANTS
  TypeOK
  BuildRight
  ChecksCounted
  GraphWhole
  
  Reported
  SourcesHeld
PROPERTIES
  ForeignStays
  StoreSpec
  NinitctlEnds
CHECK_DEADLOCK FALSE
