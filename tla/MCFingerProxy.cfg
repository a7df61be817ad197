SPECIFICATION FairSpec
CONSTANTS
  alice = alice
  al = al
  Keys <- MCKeys
  Values <- MCValues
  size = 2
  hash <- MCHash
  NULL = NULL
  Clients = {c1, c2, c3}
  NoClient = NoClient
  EOF = EOF
  Cut <- MCCut
  MaxFds = 2
  UpstreamFailures = {"refuse", "hangup", "reset"}
  ShortReads = TRUE
  ClientsMayLeave = TRUE
CHECK_DEADLOCK FALSE
INVARIANTS TypeOK AnswerIsOwn TableWellFormed
PROPERTIES IsAnswerCache Answered
