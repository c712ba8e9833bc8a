SPECIFICATION FairSpec
CONSTANTS
  lsa = lsa
  addr = addr
  eth1 = eth1
  up = up
  x = x
  y = y
  mark = mark
  Name <- Names
  HopName <- HopNames
  Nic <- Nics
  Upper = up
  Nonce <- Nonces2
  Mark = mark
  SizeLimit = 2
  MaxInterests = 3
  MaxResizes = 1
INVARIANTS TypeOK PendingWillEnd Aggregated
PROPERTIES EntryEnds RememberedIfRoom
CHECK_DEADLOCK FALSE
