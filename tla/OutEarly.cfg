SPECIFICATION Spec
CONSTANTS
  c1 = c1  c2 = c2  none = none  s1 = s1  s2 = s2  t1 = t1
  Persistent <- OneChannel
  Transient <- NoTransient
  Sender <- OneSender
  NoChannel = none
  MaxSent = 1
  AttemptsBeforeDown = 1
  MayTerminate = FALSE
INVARIANT ActiveFindsItDisconnected
\* A run may end: nobody has to send, and a dead connection stays dead.
CHECK_DEADLOCK FALSE
