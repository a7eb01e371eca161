SPECIFICATION Spec
CONSTANTS
  NumClients = 4
  Users = {u1, u2}
  NumFds = 2
  NumReactors = 2
  MaxLogins = 2
  Msgs = {m1}
  None = None
SYMMETRY UserSymmetry
INVARIANTS
  TypeOK
  FreshNumbersRouteRight
  LastLoginReachable
  HangUpsNoticed
CHECK_DEADLOCK FALSE
