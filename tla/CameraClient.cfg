SPECIFICATION FairSpec
CONSTANTS
  t1 = t1  t2 = t2  ui = ui  null = null
  Threads = {t1, t2}
  Main = ui
  None = null
  MaxEvents = 2
\* the threads there are have ended, or the app has crashed
CHECK_DEADLOCK FALSE
INVARIANTS
  ClosedIsReleased
  AppKnowsItIsClosed
PROPERTIES
  KeepsLease
  QuitThreadsEnd
