SPECIFICATION FairSpec
CONSTANTS
  Threads = {t1, t2, t3}
  MaxConn = 2
  NumInit = 2
  MaxRequests = 2
  UIntMod = 16
INVARIANTS
  TypeOK
  PoolIntact
  HandlesSafe
PROPERTIES
  RequestServed
CHECK_DEADLOCK FALSE
