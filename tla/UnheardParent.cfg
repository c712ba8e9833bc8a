SPECIFICATION Spec
CONSTANTS
  a = a
  b = b
  c = c
  Router <- Routers
  Root <- UnheardRoot
  Adjacent <- Triangle
  KnownAtStart <- HeardAtStart
  NoRouter = NoRouter
  NoLsa = NoLsa
  SameMillisecond = FALSE
  MaxRetry = 2
  MaxTime <- TwoRequests
  MaxSeq = 1
INVARIANT RegisteredParentWasTold
CHECK_DEADLOCK FALSE
