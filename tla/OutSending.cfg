SPECIFICATION Spec
CONSTANTS
  c1 = c1  c2 = c2  none = none  s1 = s1  s2 = s2  t1 = t1
  Persistent <- TwoChannels
  Transient <- NoTransient
  Sender <- TwoSenders
  NoChannel = none
  MaxSent = 1
  AttemptsBeforeDown = 1
  MayTerminate = FALSE
INVARIANTS TypeOK AtMostOnce NoMessageStranded OnlyEarlyActiveFails
PROPERTIES ImplementsOutbox
\* A run may end: nobody has to send, and a dead connection stays dead.
CHECK_DEADLOCK FALSE
