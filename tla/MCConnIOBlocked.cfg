SPECIFICATION FairSpec
CONSTANTS
  NumReqs = 2
  Kinds = {"reply"}
  Pushes = {}
  Pipelined = TRUE
  SendFaults = TRUE
PROPERTIES
  ReactorReturns
CHECK_DEADLOCK FALSE
