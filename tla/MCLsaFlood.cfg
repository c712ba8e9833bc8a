SPECIFICATION FairSpec
CONSTANTS
  o = o
  a = a
  b = b
  None = None
  Router = {o, a, b}
  Origin = o
  Neighbours <- MCNeighbours
  Closer <- MCCloser
  MaxRetry = 2
  MaxSeq = 1
  Scenarios <- MCScenarios
INVARIANTS TypeOK NoMarkForgotten NoSonLeftBehind
PROPERTIES CatchesUp Disseminates
CHECK_DEADLOCK FALSE
