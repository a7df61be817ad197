SPECIFICATION Spec
CONSTANTS
  alice = alice
  al = al
  Keys <- MCKeys
  Values <- MCValues
  size = 2
  hash <- MCHash
  NULL = NULL
  Clients = {c1, c2}
  NoClient = NoClient
  EOF = EOF
  Cut <- MCCut
  MaxFds = 2
  UpstreamFailures = {}
  ShortReads = TRUE
  ClientsMayLeave = FALSE
CHECK_DEADLOCK FALSE
INVARIANT OnlyWholeReplies
