SPECIFICATION Spec
CONSTANTS
  d1 = d1  d2 = d2  b1 = b1  b2 = b2  b3 = b3  b4 = b4  null = null
  Devices = {d1}
  Blocks = {b1, b2}
  NoBlock = null
  MaxRequests = 2
  MaxClones = 0
CHECK_DEADLOCK FALSE
PROPERTIES
  DisconnectBeforeDetach
