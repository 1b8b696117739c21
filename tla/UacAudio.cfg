SPECIFICATION FairSpec
CONSTANTS
  s1 = s1
  c1 = c1
  c2 = c2
  Timed = {s1}
  Untimed = {c1, c2}
  MaxMessages = 4
CHECK_DEADLOCK FALSE
INVARIANTS OnlyReleaseDisturbs
PROPERTIES IsRecorder SleepersGetUp ReleaseSilences
