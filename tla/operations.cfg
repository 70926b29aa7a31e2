SPECIFICATION FairSpec
CONSTANTS
  N = 2
  Type <- DaemonOneshot
  Rdep <- PairRdep
  Restart = {1}
  Notify = {1}
  OrderOnly = {}
  Tries <- RootTries
  CgOk = FALSE
  Flaky = {}
  OpSvc = {1}
  Cmds = {"start", "stop", "restart"}
PROPERTIES
  OpEnds
CHECK_DEADLOCK FALSE
