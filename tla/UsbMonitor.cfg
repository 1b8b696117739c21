SPECIFICATION FairSpec
CONSTANTS
  d1 = d1  d2 = d2  b1 = b1  b2 = b2  b3 = b3  b4 = b4  null = null
  Devices = {d1}
  Blocks = {b1, b2, b3}
  NoBlock = null
  MaxRequests = 2
  MaxClones = 1
CHECK_DEADLOCK FALSE
INVARIANTS
  OneConnectionPerDevice
  OpenIsReachable
  BelievedIsOpen
PROPERTIES
  NoConnectAfterDetach
  FailedIsStuck
  UnplugIsAnnounced
