SPECIFICATION Spec
CONSTANTS
  p = p  q = q  null = null
  Peer = {p}
  NoPeer = null
  InboxSize = 1
  RequestsSize = 1
  RepliesSize = 1
  CostsSize = 1
  MaxInFlight = 1
PROPERTIES FreshCostsAreUsed
CHECK_DEADLOCK FALSE
