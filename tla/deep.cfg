SPECIFICATION Spec
CONSTANTS
  N = 6
  Type <- DeepType
  Rdep <- DeepRdep
  Restart = {6}
  Notify = {}
  OrderOnly = {5}
  Tries <- DeepTries
  CgOk = FALSE
  Flaky = {3}
  OpSvc = {3}
  Cmds = {"start", "resume"}
INVARIANTS
  TargetFollows
  RestartNotForgotten
  ActiveHasState
PROPERTIES
  OrderIsForGood
CHECK_DEADLOCK FALSE
