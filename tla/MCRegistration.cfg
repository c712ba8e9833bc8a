SPECIFICATION FairSpec
CONSTANTS
  a = a
  b = b
  c = c
  Router <- Routers
  Root <- Roots
  Adjacent <- Line
  KnownAtStart <- HeardOnLine
  NoRouter = NoRouter
  NoLsa = NoLsa
  SameMillisecond = FALSE
  MaxRetry = 2
  MaxTime <- ThreeRequests
  MaxSeq = 2
INVARIANTS TypeOK NoVersionMissed Agreement LastRequestStands
PROPERTY RetransmissionEnds MovesOn
CHECK_DEADLOCK FALSE
