SPECIFICATION FairReceiverSpec
CONSTANTS
  NumFrames = 2
  PayloadLens = {1, 4}
  StreamLen = 12
  HeadLen = 2
  BufSize = 20
PROPERTIES
  FrameArrives
CHECK_DEADLOCK FALSE
