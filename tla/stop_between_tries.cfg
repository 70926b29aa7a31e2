SPECIFICATION Spec
CONSTANTS
  N = 1
  Type <- OneOneshot
  Rdep <- OneRdep
  Restart = {}
  Notify = {}
  OrderOnly = {}
  Tries <- TwoTries
  CgOk = TRUE
  Flaky = {}
  OpSvc = {1}
  Cmds = {"stop"}
INVARIANTS
  StoppedIsNotStarting
CHECK_DEADLOCK FALSE
