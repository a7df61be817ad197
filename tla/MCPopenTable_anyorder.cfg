SPECIFICATION FairSpec
CONSTANTS
  Streams = {s1, s2}
  Null = Null
  MAX_TABLE = 2
  MaxOpens = 2
  EndsItself = {"r", "w"}
  MaxFailures = 0
  WaitedElsewhere = {}
CHECK_DEADLOCK FALSE
PROPERTY PcloseAlwaysReturns
