SPECIFICATION Spec
CONSTANTS
  m = m
  w1 = w1
  w2 = w2
  c1 = c1
  c2 = c2
  file = file
  dir = dir
  prog = prog
  Procs = {m, w1, w2}
  Main = m
  Conns = {c1, c2}
  Paths <- MCPaths
  Cwd = dir
  CgiBin = {prog}
  CgiSuffix = {}
  Requests <- MCRequests
  Empty = Empty
  NoLine = NoLine
  FsStates <- MCSitesNoProgram
  MaxChanges = 1
  Backlog = 1
  ForkMayFail = TRUE
  AcceptMayFail = TRUE
  NoProc = NoProc
  NoConn = NoConn
  NoReply = NoReply
CHECK_DEADLOCK FALSE
SYMMETRY MCSymmetry
INVARIANTS TypeOK ReplyIsOwn OneAtWork HeldByItsWorker HeadWithoutBody
PROPERTY AnsweredOnce
