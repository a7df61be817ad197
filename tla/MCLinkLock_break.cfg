SPECIFICATION Spec
CONSTANTS
  Adders = {}
  Breakers = {b1, b2}
  Denied = {}
  NoProc = NoProc
  Seconds = 2
CHECK_DEADLOCK FALSE
PROPERTIES OnlyCrashedAreBroken
