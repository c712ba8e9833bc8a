SPECIFICATION Spec
CONSTANTS
  lsa = lsa
  addr = addr
  eth1 = eth1
  up = up
  x = x
  y = y
  mark = mark
  Name <- Names
  HopName <- HopNames
  Nic <- Nics
  Upper = up
  Nonce <- Nonces2
  Mark = mark
  SizeLimit = 2
  MaxInterests = 3
  MaxResizes = 2
PROPERTY NoncesRemembered
CHECK_DEADLOCK FALSE
