------------------------------ MODULE Bounce2d ------------------------------
(* One-player pong (chapter7/question/7.17): main moves the racket and serves,
   the SIGALRM handler moves the ball. Nothing but the position of the racket is
   shared once the ball is served, and main changes it in one store.          *)
EXTENDS Integers

CONSTANTS TOP_ROW, BOT_ROW, LEFT_EDGE, RIGHT_EDGE, \* the court
          X_TTM, Y_TTM,                            \* ticks per move of the ball
          Outside                                  \* bound: how far the ball is followed

ASSUME CourtAssumption ==
  /\ TOP_ROW \in Int /\ BOT_ROW \in Int /\ TOP_ROW + 2 <= BOT_ROW
  /\ LEFT_EDGE \in Int /\ RIGHT_EDGE \in Int /\ LEFT_EDGE < RIGHT_EDGE
  /\ X_TTM \in Nat /\ Y_TTM \in Nat /\ 0 < X_TTM /\ X_TTM < Y_TTM
  /\ Outside \in Nat

VARIABLES racket,                 \* the_racket.y_pos
          x_pos, y_pos, x_dir, y_dir, x_ttg, y_ttg, \* the_ball
          served, game,
          missed                  \* history: the ball has been called lost

ballVars == <<x_pos, y_pos, x_dir, y_dir, x_ttg, y_ttg>>
bounceVars == <<racket, ballVars, served, game, missed>>

\* Mutant: nothing keeps the racket from leaving the court.
MoveRacket_out(y) ==
  /\ game = "on" /\ ~served /\ racket' = y /\ y_pos' = y
  /\ UNCHANGED <<x_pos, x_dir, y_dir, x_ttg, y_ttg, served, game, missed>>

\* 'w' and 's': the ball goes with the racket until it is served.
MoveRacket(y) ==
  /\ game = "on" /\ y \in TOP_ROW..BOT_ROW
  /\ racket' = y
  /\ y_pos' = IF served THEN y_pos ELSE y
  /\ UNCHANGED <<x_pos, x_dir, y_dir, x_ttg, y_ttg, served, game, missed>>

Serve == /\ game = "on" /\ ~served /\ served' = TRUE
         /\ UNCHANGED <<racket, ballVars, game, missed>>

Quit == game = "on" /\ game' = "over" /\ UNCHANGED <<racket, ballVars, served, missed>>

\* Mutant: one edge at a time, the sides first.
BounceOrLose_else(x, y) ==
  LET caught == x = RIGHT_EDGE /\ y \in (racket - 1)..(racket + 1)
  IN  /\ x_dir' = CASE x = LEFT_EDGE -> 1 [] caught -> -1 [] OTHER -> x_dir
      /\ y_dir' = CASE x \in {LEFT_EDGE, RIGHT_EDGE} -> y_dir [] y = TOP_ROW -> 1 [] y = BOT_ROW -> -1 [] OTHER -> y_dir
      /\ missed' = (missed \/ (x = RIGHT_EDGE /\ ~caught))

\* bounce_or_lose, on the position the ball has moved to.
BounceOrLose(x, y) ==
  LET caught == x = RIGHT_EDGE /\ y \in (racket - 1)..(racket + 1)
  IN  /\ y_dir' = CASE y = TOP_ROW -> 1 [] y = BOT_ROW -> -1 [] OTHER -> y_dir
      /\ x_dir' = CASE x = LEFT_EDGE -> 1 [] caught -> -1 [] OTHER -> x_dir
      /\ missed' = (missed \/ (x = RIGHT_EDGE /\ ~caught))

\* ball_move: each coordinate when its ticks are used up, then the edges.
BallMove ==
  LET moves_y == y_ttg = 1
      moves_x == x_ttg = 1
  IN  /\ game = "on" /\ served /\ x_pos < RIGHT_EDGE + Outside
      /\ y_pos' = IF moves_y THEN y_pos + y_dir ELSE y_pos
      /\ y_ttg' = IF moves_y THEN Y_TTM ELSE y_ttg - 1
      /\ x_pos' = IF moves_x THEN x_pos + x_dir ELSE x_pos
      /\ x_ttg' = IF moves_x THEN X_TTM ELSE x_ttg - 1
      /\ IF moves_x \/ moves_y THEN BounceOrLose(x_pos', y_pos') ELSE UNCHANGED <<x_dir, y_dir, missed>>
      /\ UNCHANGED <<racket, served, game>>

BounceInit ==
  /\ racket = TOP_ROW + 2 /\ y_pos = racket /\ x_pos = RIGHT_EDGE - 1
  /\ x_dir = 1 /\ y_dir = 1 /\ x_ttg = X_TTM /\ y_ttg = Y_TTM
  /\ served = FALSE /\ game = "on" /\ missed = FALSE

BounceNext == MoveRacket(racket - 1) \/ MoveRacket(racket + 1) \/ Serve \/ Quit \/ BallMove

BounceSpec == BounceInit /\ [][BounceNext]_bounceVars

BounceTypeOK ==
  /\ racket \in TOP_ROW..BOT_ROW
  /\ x_pos \in Int /\ y_pos \in Int
  /\ x_dir \in {-1, 1} /\ y_dir \in {-1, 1}
  /\ x_ttg \in 1..X_TTM /\ y_ttg \in 1..Y_TTM
  /\ served \in BOOLEAN /\ missed \in BOOLEAN /\ game \in {"on", "over"}

\* The ball stays between the walls, and gets past the racket's edge only after a
\* miss: also when it is served along the bottom wall towards it, where only the
\* bounce of an earlier horizontal move turns it (ball_move, bounce_or_lose).
BallInCourt ==
  /\ y_pos \in TOP_ROW..BOT_ROW
  /\ LEFT_EDGE <= x_pos
  /\ x_pos > RIGHT_EDGE => missed
=============================================================================
