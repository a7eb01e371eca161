SPECIFICATION FairReceiverSpec
CONSTANTS
  NumFrames = 3
  PayloadLens = {1, 4, 8}
  StreamLen = 30
  HeadLen = 2
  BufSize = 9
INVARIANTS
  ReceiverTypeOK
  BufferSound
PROPERTIES
  SplitExactly
  TurnsAreServed
  TurnsAreAttended
CHECK_DEADLOCK FALSE
