\* Two routers and one elsewhere.
CONSTANTS
  a = a
  b = b
  c = c
  A = a
  B = b
  Others = {c}
  InitialSeq <- Learnt
  MaxRetry = 3
  MaxQueue = 4
  MaxFaults = 2
  Limit <- Mixed
SPECIFICATION Spec
INVARIANTS TypeOK LoadingWaits DescriptionsExistAtFirst
PROPERTIES FullMeansHeld Disseminates
\* The bound on drags stops the system.
CHECK_DEADLOCK FALSE
