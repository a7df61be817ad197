SPECIFICATION Spec
CONSTANTS
  m = m
  w1 = w1
  w2 = w2
  c1 = c1
  c2 = c2
  file = file
  dir = dir
  prog = prog
  Procs = {m, w1, w2}
  Main = m
  Conns = {c1, c2}
  Paths <- MCPaths
  Cwd = dir
  CgiBin = {prog}
  CgiSuffix = {}
  Requests <- MCFewRequests
  Empty = Empty
  NoLine = NoLine
  FsStates <- MCSites
  MaxChanges = 0
  Backlog = 1
  ForkMayFail = FALSE
  AcceptMayFail = FALSE
  NoProc = NoProc
  NoConn = NoConn
  NoReply = NoReply
CHECK_DEADLOCK FALSE
SYMMETRY MCSymmetry
INVARIANT OnlyWhatWasAsked
