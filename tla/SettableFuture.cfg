SPECIFICATION FairSpec
CONSTANTS
  s1 = s1  s2 = s2  s3 = s3  g1 = g1  g2 = g2  v1 = v1  v2 = v2  null = null
  Setters = {s1, s2, s3}
  Getters = {g1, g2}
  Timed = {g2}
  Values = {v1, v2}
  Null = null
CHECK_DEADLOCK FALSE
INVARIANTS
  LosersWait
PROPERTIES
  GettersReturn
  ImplementsDecision
