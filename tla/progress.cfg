SPECIFICATION FairSpec
CONSTANTS
  N = 2
  Type <- DaemonOneshot
  Rdep <- PairRdep
  Restart = {1}
  Notify = {1}
  OrderOnly = {}
  Tries <- RootTries
  CgOk = TRUE
  Flaky = {2}
  OpSvc = {1}
  Cmds = {"start"}
PROPERTIES
  BootEnds
  StartEnds
CHECK_DEADLOCK FALSE
