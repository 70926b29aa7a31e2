CONSTANTS
  c1 = c1
  c2 = c2
  c3 = c3
  svc = svc
  Clients = {c1, c2, c3}
  Ops = {svc}
  Asks <- Reader
  Quits = {}
  Parts = {}
  CTL_MAX = 2
  CTL_WATCH = 1
  CTL_OUT = 2
  SockMax = 1
  RingLines = 2
  n_svc = 2
  FirstLine = 2
SPECIFICATION FairSpec
PROPERTIES LogEnds
CHECK_DEADLOCK FALSE
