SPECIFICATION FairSpec
CONSTANTS
  NumReqs = 3
  Kinds = {"reply", "send", "silent", "nocode", "bad"}
  Pushes = {p1}
  Pipelined = TRUE
  SendFaults = TRUE
INVARIANTS
  TypeOK
  WireSound
PROPERTIES
  HeardAndAnswered
  NeverWedged
CHECK_DEADLOCK FALSE
