SPECIFICATION FairSpec
CONSTANTS
  Conns = {c1, c2}
  Workers = {w1, w2, w3}
  NoConn = NoConn
  MaxMsgs = 3
  BirthFlags = {TRUE, FALSE}
INVARIANTS
  TypeOK
  FlagAndPermission
PROPERTIES
  PushedIsHandled
  ImplementsSerialQueue
CHECK_DEADLOCK FALSE
