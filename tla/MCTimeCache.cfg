SPECIFICATION FairSpec
CONSTANTS
  Clients = {c1, c2, c3}
  NoClient = NoClient
  Size = 2
  MaxClock = 2
  MaxFaults = 1
  MaxFds = 2
  ClientsMayLeave = TRUE
CHECK_DEADLOCK FALSE
INVARIANTS TypeOK NotStale OneReply
PROPERTIES CallsSaved Served Answered
