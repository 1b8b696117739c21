SPECIFICATION FairSpec
CONSTANTS
  MaxBuffers = 4
  MaxFrames = 7
\* the program ends
CHECK_DEADLOCK FALSE
INVARIANTS BuffersCirculate TornOnlyWhenBehind NormalEndIsClean
PROPERTIES DrawnInOrder KeepsProtocol FilledIsDrawn
