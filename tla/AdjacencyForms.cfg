\* Two routers and one elsewhere.
CONSTANTS
  a = a
  b = b
  c = c
  A = a
  B = b
  Others = {c}
  InitialSeq <- Learnt
  MaxRetry = 3
  MaxQueue = 4
  MaxFaults = 9
  Limit <- Unreliable
SPECIFICATION FairSpec
PROPERTY AdjacencyForms
