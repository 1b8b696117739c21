SPECIFICATION FairSpec
CONSTANTS
  MaxThreads = 2
  MaxSockets = 2
  MaxResumes = 2
  MaxLines = 2
  MaxLosses = 1
\* the bounds are reached, or the window is closed
CHECK_DEADLOCK FALSE
INVARIANTS SomeoneTries OneThreadIsSafe
PROPERTIES IsChannel LineReachesScreen
