SPECIFICATION Spec
CONSTANTS
  NumClients = 2
  Users = {u1}
  NumFds = 2
  NumReactors = 1
  MaxLogins = 2
  Msgs = {m1}
  None = None
INVARIANTS
  OnlyToReceiver
CHECK_DEADLOCK FALSE
