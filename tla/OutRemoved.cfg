SPECIFICATION Spec
CONSTANTS
  c1 = c1  c2 = c2  none = none  s1 = s1  s2 = s2  t1 = t1
  Persistent <- TwoChannels
  Transient <- OneTransient
  Sender <- NoSender
  NoChannel = none
  MaxSent = 0
  AttemptsBeforeDown = 1
  MayTerminate = TRUE
INVARIANTS ReconnectFindsNoneOpen
PROPERTIES NoReconnectOnceRemoved
\* A run may end: nobody has to send, and a dead connection stays dead.
CHECK_DEADLOCK FALSE
