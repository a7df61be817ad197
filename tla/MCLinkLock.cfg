SPECIFICATION FairSpec
CONSTANTS
  Adders = {a}
  Breakers = {b1, b2, d}
  Denied = {d}
  NoProc = NoProc
  Seconds = 2
CHECK_DEADLOCK FALSE
INVARIANTS TypeOK MutualExclusion StaysWarm
PROPERTY WaitersGetIn
