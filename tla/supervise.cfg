SPECIFICATION Spec
CONSTANTS
  N = 3
  Type <- FanType
  Rdep <- FanRdep
  Restart = {1}
  Notify = {1}
  OrderOnly = {}
  Tries <- FanTries
  CgOk = TRUE
  Flaky = {1, 2}
  OpSvc = {1, 2}
  Cmds = {"start", "stop", "restart", "resume", "shutdown"}
INVARIANTS
  TypeOK
  UnmetExact
  CountersMatch
  UpIsReleased
  OneInstance
  LiveCovers
PROPERTIES
  StartsInOrder
CHECK_DEADLOCK FALSE
