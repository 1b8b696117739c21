SPECIFICATION FairSpec
CONSTANTS
  w1 = w1
  w2 = w2
  None = None
  Windows = {w1, w2}
  MaxOpens = 3
  MaxRefs = 2
\* a destroyed camera, or a process that has crashed, does nothing more
CHECK_DEADLOCK FALSE
INVARIANTS SafeWhileConnected WindowsAccounted ResourcesAccounted CachesAreOfThisCamera
PROPERTIES HangsOnlyInJoin
