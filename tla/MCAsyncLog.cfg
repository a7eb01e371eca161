CONSTANTS
  Threads = {t1, t2, t3}
  MaxLines = 3
  MaxQueueSize = 2
  SplitLines = 2
  MaxDays = 3
  MonthDay <- TwoDayMonths
  NoLine = NoLine
SPECIFICATION FairSpec
INVARIANTS TypeOK FilesInOrder EachLineHasItsFate
PROPERTIES ImplementsLineQueue LinesComeOut
CHECK_DEADLOCK FALSE
