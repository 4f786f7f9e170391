SPECIFICATION FairSpec
CONSTANTS
  p = p  q = q  null = null
  Peer = {p}
  NoPeer = null
  InboxSize = 1
  RequestsSize = 1
  RepliesSize = 1
  CostsSize = 1
  MaxInFlight = 1
INVARIANTS TypeOK
PROPERTIES ImplementsService CallersComeBack ReaderComesBack CostsKeepComing
\* A node may stop: nobody has to send a message or to optimize.
CHECK_DEADLOCK FALSE
