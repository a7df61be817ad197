SPECIFICATION Spec
CONSTANTS
  \* the shells
  MaxLines = 8
  MaxOdd = 1
  MaxCommands = 4
  \* the game
  TOP_ROW = 1
  BOT_ROW = 4
  LEFT_EDGE = 1
  RIGHT_EDGE = 4
  X_TTM = 2
  Y_TTM = 3
  Outside = 2
  \* the children, the tickets, the pipeline
  NumOfChild = 4
  Clients = {c1, c2, c3}
  Nobody = Nobody
  Parts = 2
  MaxLives = 2
  MaxBreaks = 1
  N = 3
  Cap = 1
  Items = 1
INVARIANTS TypeOK BlocksRunAsRead ChildrenAddUp BallInCourt UniqueTickets
PROPERTIES IsTwoVarIf EveryChildCounted PipelineEnds
CHECK_DEADLOCK FALSE
