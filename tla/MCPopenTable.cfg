SPECIFICATION FairSpec
CONSTANTS
  Streams = {s1, s2}
  Null = Null
  MAX_TABLE = 2
  MaxOpens = 4
  EndsItself = {"r"}
  MaxFailures = 1
  WaitedElsewhere = {2}
CHECK_DEADLOCK FALSE
INVARIANTS TypeOK TableExact NoDescriptorLeak NoLostChild
PROPERTIES PcloseWaitsForOwn CallsReturn
