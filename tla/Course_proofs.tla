--------------------------- MODULE Course_proofs ---------------------------
(* Proofs about the small programs: the one variable of IfOneVar does what the two
   of IfTwoVars did, the ball of Bounce2d stays in its court, the numbers of Tickets
   are unique, the children of BackgroundShell add up, the handler of ChildCounter
   counts them all, and in a Pipeline no process holds an end that would keep its
   neighbours from ending, and nobody waits for everybody.                    *)
EXTENDS IfOneVar, Bounce2d, Tickets, BackgroundShell, ChildCounter, Pipeline,
        FiniteSetTheorems, WellFoundedInduction, TLAPS

-----------------------------------------------------------------------------
(* IfOneVar implements IfTwoVars: initial states map to initial states, and every
   line has the same step in both.                                            *)

LEMMA StatusRange == ASSUME NEW l \in TwoVars!Lines, l.word = "if"
                     PROVE TwoVars!Status(l) \in {-1, 0, 1}
<1>1. l.again \in BOOLEAN /\ l.rest \in {"succeeds", "fails", "nothing", "keyword"}
  BY DEF TwoVars!Lines
<1>2. QED BY <1>1 DEF TwoVars!Status

\* What a line leaves to be seen is of its type.
LEMMA DoneTyped ==
  ASSUME NEW l \in TwoVars!Lines, NEW r \in BOOLEAN, NEW e \in BOOLEAN
  PROVE TwoVars!Done(l, r, e) \in
          [line : TwoVars!Lines \cup {TwoVars!Nothing.line}, ran : BOOLEAN, error : BOOLEAN]
BY DEF TwoVars!Done

\* A step reads one line, whose first word decides which of the five it is.
LEMMA LineCases ==
  ASSUME IfNext
  PROVE \E l \in TwoVars!Lines :
          (l.word = "if" /\ If(l)) \/ Then(l) \/ Else(l) \/ Fi(l) \/ Command(l)
<1>1. \A l \in TwoVars!Lines : l.word \in {"if", "then", "else", "fi", "command"}
  BY DEF TwoVars!Lines
<1>2. QED BY <1>1 DEF IfNext

LEMMA IfTypeStep == IfTypeOK /\ [IfNext]_ifVars => IfTypeOK'
<1> SUFFICES ASSUME IfTypeOK, [IfNext]_ifVars PROVE IfTypeOK'
  OBVIOUS
<1> USE DEF IfTypeOK, States
<1>1. CASE UNCHANGED ifVars
  BY <1>1 DEF ifVars
<1>2. ASSUME NEW l \in TwoVars!Lines, l.word = "if", If(l) PROVE IfTypeOK'
  <2>1. CASE if_state # "NEUTRAL"
    BY <1>2, <2>1, DoneTyped DEF If, SynErr
  <2>2. CASE if_state = "NEUTRAL"
    <3>1. (l.rest \in {"succeeds", "fails"}) \in BOOLEAN /\ (l.rest = "keyword") \in BOOLEAN
      OBVIOUS
    <3>2. done' = TwoVars!Done(l, l.rest \in {"succeeds", "fails"}, l.rest = "keyword")
      BY <1>2, <2>2 DEF If, TwoVars!DoneIf
    <3>3. done' \in [line : TwoVars!Lines \cup {TwoVars!Nothing.line}, ran : BOOLEAN, error : BOOLEAN]
      BY <3>1, <3>2, DoneTyped
    <3>4. QED BY <1>2, <2>2, <3>3, StatusRange DEF If
  <2>3. QED BY <2>1, <2>2
<1>3. ASSUME NEW l \in TwoVars!Lines, Then(l) PROVE IfTypeOK'
  BY <1>3, DoneTyped DEF Then, Move, SynErr
<1>4. ASSUME NEW l \in TwoVars!Lines, Else(l) PROVE IfTypeOK'
  BY <1>4, DoneTyped DEF Else, Move, SynErr
<1>5. ASSUME NEW l \in TwoVars!Lines, Fi(l) PROVE IfTypeOK'
  BY <1>5, DoneTyped DEF Fi, Move, SynErr
<1>6. ASSUME NEW l \in TwoVars!Lines, Command(l) PROVE IfTypeOK'
  BY <1>6, DoneTyped DEF Command, ok_to_execute, SynErr
<1>7. CASE IfNext
  BY <1>2, <1>3, <1>4, <1>5, <1>6, <1>7, LineCases
<1>8. QED BY <1>1, <1>7

\* The state of 9.07 is one of its seven and last_stat one of the statuses
\* process() returns.
THEOREM IfTypes == IfSpec => []IfTypeOK
<1>1. IfInit => IfTypeOK
  BY DEF IfInit, IfTypeOK, States, TwoVars!Nothing, TwoVars!Done
<1>2. QED BY <1>1, IfTypeStep, PTL DEF IfSpec

\* The states that follow a condition remember how it ended, which 9.06 keeps in
\* if_result: without it a line of 9.07 could run what 9.06 skips.
Remembers ==
  /\ if_state \in {"IF_SUCCEEDED", "DOING_THEN", "SKIPPING_ELSE"} => last_stat = 0
  /\ if_state \in {"IF_FAILED", "SKIPPING_THEN", "DOING_ELSE"} => last_stat # 0

\* Every line keeps the state and last_stat together.
LEMMA RemembersStep == Remembers /\ [IfNext]_ifVars => Remembers'
<1> SUFFICES ASSUME Remembers, [IfNext]_ifVars PROVE Remembers'
  OBVIOUS
<1> USE DEF Remembers
<1>1. CASE UNCHANGED ifVars
  BY <1>1 DEF ifVars
<1>2. CASE IfNext
  BY <1>2, LineCases DEF If, Then, Else, Fi, Command, Move, SynErr
<1>3. QED BY <1>1, <1>2

\* One line of 9.07 is the same line of 9.06, under the mapping of the states.
LEMMA StepRefines == IfTypeOK /\ Remembers /\ [IfNext]_ifVars => 
  [TwoVars!Next]_<<Block, IF last_stat = 0 THEN "SUCCESS" ELSE "FAIL", done>>
<1> DEFINE R == IF last_stat = 0 THEN "SUCCESS" ELSE "FAIL"
<1> SUFFICES ASSUME IfTypeOK, Remembers, [IfNext]_ifVars
             PROVE TwoVars!Next \/ UNCHANGED <<Block, R, done>>
  OBVIOUS
<1> USE DEF IfTypeOK, States, Block
<1>1. CASE UNCHANGED ifVars
  BY <1>1 DEF ifVars
<1>2. ASSUME NEW l \in TwoVars!Lines, l.word = "if", If(l) PROVE TwoVars!If(l)
  <2>1. CASE if_state # "NEUTRAL"
    BY <1>2, <2>1 DEF If, SynErr, TwoVars!If, TwoVars!SynErr
  <2>2. CASE if_state = "NEUTRAL"
    BY <1>2, <2>2 DEF If, TwoVars!If
  <2>3. QED BY <2>1, <2>2
<1>3. ASSUME NEW l \in TwoVars!Lines, Then(l) PROVE TwoVars!Then(l)
  BY <1>3 DEF Then, Move, SynErr, TwoVars!Then, TwoVars!Move, TwoVars!SynErr
<1>4. ASSUME NEW l \in TwoVars!Lines, Else(l) PROVE TwoVars!Else(l)
  BY <1>4 DEF Else, Move, SynErr, TwoVars!Else, TwoVars!Move, TwoVars!SynErr
<1>5. ASSUME NEW l \in TwoVars!Lines, Fi(l) PROVE TwoVars!Fi(l)
  BY <1>5 DEF Fi, Move, SynErr, TwoVars!Fi, TwoVars!Move, TwoVars!SynErr
<1>6. ASSUME NEW l \in TwoVars!Lines, Command(l) PROVE TwoVars!Command(l)
  <2>1. CASE if_state \in {"IF_SUCCEEDED", "IF_FAILED"}
    BY <1>6, <2>1 DEF Command, SynErr, TwoVars!Command, TwoVars!SynErr
  <2>2. CASE if_state \notin {"IF_SUCCEEDED", "IF_FAILED"}
    <3>1. ok_to_execute = TwoVars!ok_to_execute
      BY <2>2 DEF Remembers, ok_to_execute, TwoVars!ok_to_execute
    <3>2. done' = TwoVars!Done(l, TwoVars!ok_to_execute, FALSE) /\ UNCHANGED <<if_state, last_stat>>
      BY <1>6, <2>2, <3>1 DEF Command
    <3>3. Block # "WANT_THEN"
      BY <2>2
    <3>4. QED BY <3>2, <3>3 DEF TwoVars!Command
  <2>3. QED BY <2>1, <2>2
<1>7. CASE IfNext
  <2> PICK l \in TwoVars!Lines : CASE l.word = "if" -> If(l)
                                   [] l.word = "then" -> Then(l)
                                   [] l.word = "else" -> Else(l)
                                   [] l.word = "fi" -> Fi(l)
                                   [] l.word = "command" -> Command(l)
    BY <1>7 DEF IfNext
  <2>1. l.word \in {"if", "then", "else", "fi", "command"}
    BY DEF TwoVars!Lines
  <2>2. QED BY <2>1, <1>2, <1>3, <1>4, <1>5, <1>6 DEF TwoVars!Next
<1>8. QED BY <1>1, <1>7

\* Whatever lines are typed, the one variable of 9.07 does with them what the
\* two variables of 9.06 do.
THEOREM OneVarIsEnough == IfSpec => IsTwoVarIf
<1>1. IfInit => TwoVars!Init
  BY DEF IfInit, TwoVars!Init, Block
<1>2. IfInit => Remembers
  BY DEF IfInit, Remembers
<1>3. QED BY <1>1, <1>2, IfTypes, RemembersStep, StepRefines, PTL DEF IfSpec, IsTwoVarIf, TwoVars!Spec

-----------------------------------------------------------------------------
(* Bounce2d. Before the serve the ball may wait on the bottom row although it
   heads down: then its next horizontal move, which turns it, comes first.    *)

Waiting == ~served => /\ y_pos = racket /\ x_pos = RIGHT_EDGE - 1 /\ x_dir = 1 /\ y_dir = 1
                      /\ x_ttg = X_TTM /\ y_ttg = Y_TTM

AtRows == /\ y_pos \in TOP_ROW..BOT_ROW
          /\ y_pos = TOP_ROW => y_dir = 1
          /\ y_pos = BOT_ROW /\ y_dir = 1 => x_ttg < y_ttg

AtEdges == /\ LEFT_EDGE <= x_pos
           /\ x_pos = LEFT_EDGE => x_dir = 1
           /\ x_pos = RIGHT_EDGE /\ x_dir = 1 => missed
           /\ x_pos > RIGHT_EDGE => missed /\ x_dir = 1

BounceInv == BounceTypeOK /\ Waiting /\ AtRows /\ AtEdges

LEMMA BounceStarts == BounceInit => BounceInv
<1> SUFFICES ASSUME BounceInit PROVE BounceInv
  OBVIOUS
<1> USE CourtAssumption DEF BounceInit
<1>1. BounceTypeOK
  <2>1. racket \in TOP_ROW..BOT_ROW /\ x_pos \in Int /\ y_pos \in Int /\ x_dir \in {-1, 1} /\ y_dir \in {-1, 1}
    OBVIOUS
  <2>2. x_ttg \in 1..X_TTM /\ y_ttg \in 1..Y_TTM
    OBVIOUS
  <2>3. served \in BOOLEAN /\ missed \in BOOLEAN /\ game \in {"on", "over"}
    BY Zenon
  <2> QED
    BY <2>1, <2>2, <2>3 DEF BounceTypeOK
<1>2. Waiting
  BY DEF Waiting
<1>3. AtRows
  BY DEF AtRows
<1>4. AtEdges
  BY DEF AtEdges
<1> QED
  BY <1>1, <1>2, <1>3, <1>4 DEF BounceInv

\* bounce_or_lose turns the ball at every row and edge that a move has led to.
LEMMA BallTurns ==
  ASSUME BounceInv, BallMove
  PROVE  BounceInv'
<1> USE CourtAssumption
<1> DEFINE moves == x_ttg = 1 \/ y_ttg = 1
<1>1. /\ served /\ served' /\ racket' = racket /\ game' = game /\ racket \in TOP_ROW..BOT_ROW
      /\ game \in {"on", "over"} /\ served \in BOOLEAN
      /\ x_pos \in Int /\ y_pos \in Int /\ x_ttg \in 1..X_TTM /\ y_ttg \in 1..Y_TTM
      /\ x_dir \in {-1, 1} /\ y_dir \in {-1, 1} /\ missed \in BOOLEAN
  BY DEF BounceInv, BounceTypeOK, BallMove
<1>2. /\ y_pos' = (IF y_ttg = 1 THEN y_pos + y_dir ELSE y_pos)
      /\ y_ttg' = (IF y_ttg = 1 THEN Y_TTM ELSE y_ttg - 1)
      /\ x_pos' = (IF x_ttg = 1 THEN x_pos + x_dir ELSE x_pos)
      /\ x_ttg' = (IF x_ttg = 1 THEN X_TTM ELSE x_ttg - 1)
  BY DEF BallMove
<1>3. x_pos' \in Int /\ y_pos' \in Int /\ x_ttg' \in 1..X_TTM /\ y_ttg' \in 1..Y_TTM
  BY <1>1, <1>2
<1>4. y_pos' \in TOP_ROW..BOT_ROW /\ LEFT_EDGE <= x_pos'
  BY <1>1, <1>2 DEF BounceInv, AtRows, AtEdges
<1>5. CASE moves
  <2>1. BounceOrLose(x_pos', y_pos')
    BY <1>5 DEF BallMove
  <2>2. y_dir' = (IF y_pos' = TOP_ROW THEN 1 ELSE IF y_pos' = BOT_ROW THEN -1 ELSE y_dir)
    BY <2>1, <1>3 DEF BounceOrLose
  <2>3. x_pos' = LEFT_EDGE => x_dir' = 1
    BY <2>1 DEF BounceOrLose
  <2> DEFINE caught == y_pos' \in (racket - 1)..(racket + 1)
  <2>4. x_pos' = RIGHT_EDGE => x_dir' = -1 \/ missed'
    <3>1. ASSUME x_pos' = RIGHT_EDGE, caught PROVE x_dir' = -1
      BY <2>1, <3>1 DEF BounceOrLose
    <3>2. ASSUME x_pos' = RIGHT_EDGE, ~caught PROVE missed'
      BY <2>1, <3>2, Zenon DEF BounceOrLose
    <3> QED
      BY <3>1, <3>2, Zenon
  <2>5. x_pos' > RIGHT_EDGE => x_dir' = x_dir
    BY <2>1, <1>3 DEF BounceOrLose
  <2>6. x_dir' \in {-1, 1} /\ missed' \in BOOLEAN /\ (missed => missed')
    BY <2>1, <1>1 DEF BounceOrLose
  <2>7. x_pos' > RIGHT_EDGE => missed /\ x_dir = 1
    BY <1>1, <1>2 DEF BounceInv, AtEdges
  <2>8. AtRows'
    BY <1>1, <1>4, <2>2 DEF AtRows
  <2>9. AtEdges'
    BY <1>1, <1>3, <1>4, <2>3, <2>4, <2>5, <2>6, <2>7 DEF AtEdges
  <2>10. BounceTypeOK'
    BY <1>1, <1>3, <2>2, <2>6 DEF BounceTypeOK
  <2> QED
    BY <1>1, <2>8, <2>9, <2>10 DEF BounceInv, Waiting
<1>6. CASE ~moves
  <2>1. UNCHANGED <<x_dir, y_dir, missed, x_pos, y_pos>> /\ x_ttg' = x_ttg - 1 /\ y_ttg' = y_ttg - 1
    BY <1>6, <1>2 DEF BallMove
  <2>2. AtRows' /\ AtEdges'
    BY <1>1, <2>1 DEF BounceInv, AtRows, AtEdges
  <2> QED
    BY <1>1, <1>3, <2>1, <2>2 DEF BounceInv, BounceTypeOK, Waiting
<1> QED
  BY <1>5, <1>6

LEMMA BounceSteps == BounceInv /\ [BounceNext]_bounceVars => BounceInv'
<1> SUFFICES ASSUME BounceInv, [BounceNext]_bounceVars PROVE BounceInv'
  OBVIOUS
<1>1. ASSUME NEW y \in Int, MoveRacket(y) PROVE BounceInv'
  BY <1>1, CourtAssumption DEF MoveRacket, BounceInv, BounceTypeOK, Waiting, AtRows, AtEdges
<1>2. CASE Serve
  BY <1>2, CourtAssumption DEF Serve, ballVars, BounceInv, BounceTypeOK, Waiting, AtRows, AtEdges
<1>3. CASE Quit
  BY <1>3 DEF Quit, ballVars, BounceInv, BounceTypeOK, Waiting, AtRows, AtEdges
<1>4. CASE BallMove
  BY <1>4, BallTurns
<1>5. CASE UNCHANGED bounceVars
  BY <1>5 DEF bounceVars, ballVars, BounceInv, BounceTypeOK, Waiting, AtRows, AtEdges
<1>6. racket - 1 \in Int /\ racket + 1 \in Int
  BY CourtAssumption DEF BounceInv, BounceTypeOK
<1> QED
  BY <1>1, <1>2, <1>3, <1>4, <1>5, <1>6 DEF BounceNext

\* Whatever the size of the court, and for all speeds with X_TTM < Y_TTM (bounce.h has 5
\* and 8; with others a ball served along the bottom wall leaves), the ball stays
\* between the walls and passes the racket only when it was missed (ball_move).
THEOREM BallStaysInCourt == BounceSpec => []BallInCourt
<1>1. BounceInv => BallInCourt
  BY DEF BounceInv, AtRows, AtEdges, BallInCourt
<1> QED
  BY BounceStarts, BounceSteps, <1>1, PTL DEF BounceSpec

-----------------------------------------------------------------------------
(* Tickets. A number may be given again only while nobody can have all of it:
   the pieces out for a connection are never more than write_all has counted. *)

Out(c) == rn[c] + wire[c]

Untouched == \A c \in Clients :
               /\ c \in queue => client[c] # "idle"
               /\ client[c] = "idle" \/ c \in queue => c # serving /\ rn[c] = 0 /\ wire[c] = 0

BeingServed == server = "write_all" => Out(serving) <= total /\ net_no[serving] = <<life, que_no>>

Bounded == \A c \in Clients : Out(c) <= Parts /\ net_no[c][1] <= life

\* A number that is out in full is below the counter, but for the one being written.
Behind == \A c \in Clients :
            server # "down" /\ c # serving /\ Out(c) = Parts /\ net_no[c][1] = life => net_no[c][2] < que_no

Distinct == \A c, d \in Clients : c # d /\ Out(c) = Parts /\ Out(d) = Parts => net_no[c] # net_no[d]

TicketInv == TicketTypeOK /\ Untouched /\ BeingServed /\ Bounded /\ Behind /\ Distinct

LEMMA TicketsStart == TicketInit => TicketInv
<1> SUFFICES ASSUME TicketInit PROVE TicketInv
  OBVIOUS
<1>1. TicketTypeOK
  BY TicketAssumption DEF TicketInit, TicketTypeOK
<1>2. Untouched /\ BeingServed /\ Bounded /\ Behind /\ Distinct
  BY TicketAssumption DEF TicketInit, Untouched, BeingServed, Bounded, Behind, Distinct, Out
<1> QED
  BY <1>1, <1>2 DEF TicketInv

\* Steps that leave the server and the numbers as they are and send nothing.
LEMMA OthersKeepTickets ==
  ASSUME TicketInv, TicketTypeOK', Untouched',
         UNCHANGED <<server, que_no, life, serving, total, net_no>>,
         \A c \in Clients : Out(c)' <= Out(c)
  PROVE  TicketInv'
<1>1. \A c \in Clients : Out(c)' \in Nat /\ Out(c) \in Nat /\ Out(c) <= Parts
  BY TicketAssumption DEF TicketInv, TicketTypeOK, Out, Bounded
<1>2. BeingServed' /\ Bounded' /\ Behind' /\ Distinct'
  BY <1>1, TicketAssumption DEF TicketInv, TicketTypeOK, BeingServed, Bounded, Behind, Distinct
<1> QED
  BY <1>2 DEF TicketInv

LEMMA ConnectKeeps == ASSUME TicketInv, NEW e \in Clients, Connect(e) PROVE TicketInv'
<1>1. TicketTypeOK' /\ Untouched'
  BY TicketAssumption DEF Connect, TicketInv, TicketTypeOK, Untouched
<1> QED
  BY <1>1, OthersKeepTickets DEF Connect, Out, TicketInv, TicketTypeOK

\* The pieces that a read moves from the wire to the client stay out.
LEMMA ReadKeeps ==
  ASSUME TicketInv, NEW e \in Clients, NEW n \in 1..Parts, ReadPieces(e, n)
  PROVE  TicketInv'
<1>1. /\ wire' = [wire EXCEPT ![e] = @ - n] /\ rn' = [rn EXCEPT ![e] = @ + n] /\ n \in 1..wire[e]
      /\ wire[e] \in 0..Parts /\ rn[e] \in 0..Parts /\ rn[e] + wire[e] <= Parts
  BY DEF ReadPieces, TicketInv, TicketTypeOK, Bounded, Out
<1>2. wire'[e] \in 0..Parts /\ rn'[e] \in 0..Parts /\ Out(e)' = Out(e)
  BY <1>1, TicketAssumption DEF Out, TicketInv, TicketTypeOK
<1>3. \A c \in Clients \ {e} : wire'[c] = wire[c] /\ rn'[c] = rn[c]
  BY <1>1 DEF TicketInv, TicketTypeOK
<1>4. client[e] = "read_all" /\ client' \in [Clients -> {"idle", "read_all", "printed", "left"}]
      /\ \A c \in Clients : client'[c] = "idle" => client[c] = "idle"
  BY DEF ReadPieces, TicketInv, TicketTypeOK
<1>5. TicketTypeOK'
  BY <1>1, <1>2, <1>3, <1>4 DEF ReadPieces, TicketInv, TicketTypeOK
<1>6. e \notin queue
  BY <1>1 DEF TicketInv, Untouched
<1>7. Untouched'
  BY <1>3, <1>4, <1>6 DEF ReadPieces, TicketInv, Untouched
<1>8. \A c \in Clients : Out(c)' <= Out(c)
  BY <1>2, <1>3 DEF Out, TicketInv, TicketTypeOK
<1> QED
  BY <1>5, <1>7, <1>8, OthersKeepTickets DEF ReadPieces

LEMMA EndsKeep ==
  ASSUME TicketInv, NEW e \in Clients, ReadEnds(e) \/ ClientLeaves(e) \/ LinkBreaks(e)
  PROVE  TicketInv'
<1>1. TicketTypeOK' /\ Untouched'
  <2>1. CASE ReadEnds(e)
    BY <2>1, TicketAssumption DEF ReadEnds, TicketInv, TicketTypeOK, Untouched
  <2>2. CASE ClientLeaves(e)
    <3>1. wire' \in [Clients -> 0..Parts] /\ \A c \in Clients : wire[c] = 0 => wire'[c] = 0
      BY <2>2, TicketAssumption DEF ClientLeaves, TicketInv, TicketTypeOK
    <3>2. TicketTypeOK'
      BY <2>2, <3>1 DEF ClientLeaves, TicketInv, TicketTypeOK
    <3> QED
      BY <2>2, <3>1, <3>2 DEF ClientLeaves, TicketInv, TicketTypeOK, Untouched
  <2>3. CASE LinkBreaks(e)
    BY <2>3, TicketAssumption DEF LinkBreaks, TicketInv, TicketTypeOK, Untouched
  <2> QED
    BY <2>1, <2>2, <2>3
<1>2. \A c \in Clients : Out(c)' <= Out(c)
  BY TicketAssumption DEF ReadEnds, ClientLeaves, LinkBreaks, Out, TicketInv, TicketTypeOK
<1> QED
  BY <1>1, <1>2, OthersKeepTickets DEF ReadEnds, ClientLeaves, LinkBreaks

\* Nothing is out for a connection that has not been accepted.
LEMMA AcceptKeeps == ASSUME TicketInv, NEW e \in Clients, AcceptClient(e) PROVE TicketInv'
<1>1. /\ rn[e] = 0 /\ wire[e] = 0 /\ serving' = e /\ total' = 0 /\ Out(e)' = 0
      /\ server = "accept" /\ server' = "write_all" /\ serving = Nobody
  BY DEF AcceptClient, TicketInv, TicketTypeOK, Untouched, Out
<1>2. net_no'[e] = <<life, que_no>> /\ \A c \in Clients \ {e} : net_no'[c] = net_no[c]
  BY DEF AcceptClient, TicketInv, TicketTypeOK
<1>3. \A c \in Clients : Out(c)' = Out(c)
  BY DEF AcceptClient, Out
<1>4. TicketTypeOK'
  BY <1>1, TicketAssumption DEF AcceptClient, TicketInv, TicketTypeOK
<1>5. Untouched'
  BY TicketAssumption DEF AcceptClient, TicketInv, TicketTypeOK, Untouched
<1>6. BeingServed' /\ Bounded'
  BY <1>1, <1>2, <1>3, TicketAssumption DEF AcceptClient, TicketInv, TicketTypeOK, BeingServed, Bounded
<1>7. Behind' /\ Distinct'
  BY <1>1, <1>2, <1>3, TicketAssumption DEF AcceptClient, TicketInv, TicketTypeOK, Behind, Distinct
<1> QED
  BY <1>4, <1>5, <1>6, <1>7 DEF TicketInv

\* A write adds no more to what is out than to total; what completes a number is
\* the newest, which differs from all that are behind the counter.
LEMMA WriteKeeps == ASSUME TicketInv, NEW n \in 1..Parts, WritePieces(n) PROVE TicketInv'
<1>1. /\ server = "write_all" /\ serving \in Clients /\ total' = total + n /\ total \in 0..Parts
      /\ n <= Parts - total /\ Out(serving) <= total /\ net_no[serving] = <<life, que_no>>
      /\ client[serving] # "idle" /\ serving \notin queue
      /\ UNCHANGED <<server, que_no, life, queue, serving, client, net_no, rn, closed, broken>>
  BY TicketAssumption DEF WritePieces, TicketInv, TicketTypeOK, BeingServed, Untouched
<1>2. /\ rn[serving] \in 0..Parts /\ wire[serving] \in 0..Parts
      /\ wire'[serving] = wire[serving] + n \/ wire'[serving] = wire[serving]
      /\ wire' \in [Clients -> Int]
      /\ \A c \in Clients \ {serving} : wire'[c] = wire[c] /\ Out(c)' = Out(c)
  BY <1>1, TicketAssumption DEF WritePieces, TicketInv, TicketTypeOK, Out
<1>3. Out(serving)' \in Nat /\ Out(serving)' <= total' /\ total' \in 0..Parts /\ wire'[serving] \in 0..Parts
  BY <1>1, <1>2, TicketAssumption DEF Out
<1>4. wire' \in [Clients -> 0..Parts]
  BY <1>2, <1>3 DEF TicketInv, TicketTypeOK
<1>5. TicketTypeOK'
  BY <1>1, <1>3, <1>4 DEF TicketInv, TicketTypeOK
<1>6. Untouched' /\ BeingServed'
  BY <1>1, <1>2, <1>3 DEF TicketInv, Untouched, BeingServed
<1>7. Bounded' /\ Behind'
  BY <1>1, <1>2, <1>3, TicketAssumption DEF TicketInv, TicketTypeOK, Bounded, Behind
<1>8. \A c \in Clients \ {serving} : Out(c) = Parts => net_no[c] # net_no[serving]
  BY <1>1 DEF TicketInv, TicketTypeOK, Behind
<1>9. Distinct'
  BY <1>1, <1>2, <1>8 DEF TicketInv, Distinct
<1> QED
  BY <1>5, <1>6, <1>7, <1>9 DEF TicketInv

\* After a failed write the number was not complete, so it may be given again.
LEMMA ServedKeeps == ASSUME TicketInv, WriteFails \/ AllWritten PROVE TicketInv'
<1>1. /\ server = "write_all" /\ serving \in Clients /\ serving' = Nobody /\ server' = "accept"
      /\ UNCHANGED <<life, queue, total, client, net_no, wire, rn, broken>>
      /\ Out(serving) <= total /\ total \in 0..Parts /\ net_no[serving] = <<life, que_no>>
  BY DEF WriteFails, AllWritten, Served, TicketInv, TicketTypeOK, BeingServed
<1>2. \A c \in Clients : Out(c)' = Out(c) /\ Out(c) \in Nat
  BY <1>1, TicketAssumption DEF Out, TicketInv, TicketTypeOK
<1>3. que_no' \in Nat \ {0} /\ ((que_no' = que_no /\ total < Parts) \/ que_no' = que_no + 1)
  BY DEF WriteFails, AllWritten, TicketInv, TicketTypeOK
<1>4. TicketTypeOK'
  <2>1. closed' \in [Clients -> BOOLEAN]
    BY DEF WriteFails, AllWritten, Served, TicketInv, TicketTypeOK
  <2> QED
    BY <1>1, <1>3, <2>1, TicketAssumption DEF TicketInv, TicketTypeOK
<1>5. Untouched' /\ BeingServed' /\ Bounded' /\ Distinct'
  BY <1>1, <1>2, TicketAssumption DEF TicketInv, Untouched, BeingServed, Bounded, Distinct
<1>6. Behind'
  <2> SUFFICES ASSUME NEW c \in Clients, Out(c) = Parts, net_no[c][1] = life
               PROVE  net_no[c][2] < que_no'
    BY <1>1, <1>2, Zenon DEF Behind
  <2>1. CASE c = serving
    BY <1>1, <1>2, <1>3, <2>1, TicketAssumption DEF TicketInv, TicketTypeOK
  <2>2. CASE c # serving
    BY <1>1, <1>3, <2>2 DEF TicketInv, TicketTypeOK, Behind
  <2> QED
    BY <2>1, <2>2
<1> QED
  BY <1>4, <1>5, <1>6 DEF TicketInv

\* A server that starts again counts from 1, in a life of its own.
LEMMA RestartKeeps == ASSUME TicketInv, ServerDies \/ ServerStarts PROVE TicketInv'
<1>1. \A c \in Clients : Out(c)' = Out(c)
  BY DEF ServerDies, ServerStarts, Out
<1>2. CASE ServerDies
  <2>1. TicketTypeOK'
    BY <1>2, TicketAssumption DEF ServerDies, TicketInv, TicketTypeOK
  <2> QED
    BY <1>1, <1>2, <2>1, TicketAssumption
    DEF ServerDies, TicketInv, Untouched, BeingServed, Bounded, Behind, Distinct
<1>3. CASE ServerStarts
  <2>1. TicketTypeOK'
    BY <1>3 DEF ServerStarts, TicketInv, TicketTypeOK
  <2>2. Bounded' /\ Behind'
    BY <1>1, <1>3 DEF ServerStarts, TicketInv, TicketTypeOK, Bounded, Behind
  <2> QED
    BY <1>1, <1>3, <2>1, <2>2 DEF ServerStarts, TicketInv, Untouched, BeingServed, Distinct
<1> QED
  BY <1>2, <1>3

LEMMA TicketSteps == TicketInv /\ [TicketNext]_ticketVars => TicketInv'
<1> SUFFICES ASSUME TicketInv, [TicketNext]_ticketVars PROVE TicketInv'
  OBVIOUS
<1>1. CASE UNCHANGED ticketVars
  BY <1>1 DEF ticketVars, TicketInv, TicketTypeOK, Untouched, BeingServed, Bounded, Behind, Distinct, Out
<1> QED
  BY <1>1, ConnectKeeps, ReadKeeps, EndsKeep, AcceptKeeps, WriteKeeps, ServedKeeps, RestartKeeps DEF TicketNext

\* Of one run of the server no two clients hold the same whole number, for any
\* number of clients, pieces, restarts and breaks (pan_serv.c: main, write_all).
THEOREM TicketsAreUnique == TicketSpec => []UniqueTickets
<1>1. TicketInv => UniqueTickets
  <2> SUFFICES ASSUME TicketInv, NEW c \in Clients, NEW d \in Clients, c # d, rn[c] = Parts, rn[d] = Parts
               PROVE  net_no[c] # net_no[d]
    BY DEF UniqueTickets
  <2>1. Out(c) = Parts /\ Out(d) = Parts
    BY TicketAssumption DEF TicketInv, TicketTypeOK, Bounded, Out
  <2> QED
    BY <2>1 DEF TicketInv, Distinct
<1> QED
  BY TicketsStart, TicketSteps, <1>1, PTL DEF TicketSpec

-----------------------------------------------------------------------------
(* BackgroundShell. Whoever is waited for, as many children are left as were
   started with "&", and one more while main waits. Commands are 1..MaxCommands
   and forked in that order, so the newest is the number of those forked.     *)

Forked == {c \in Commands : kid[c] # "none"}
Unreaped == {c \in Commands : kid[c] \in {"running", "ended"}}
Background == Forked \ foreground

\* The child just forked is there as long as main waits, since each wait takes one.
NewestWaits ==
  \E n \in 0..MaxCommands :
    /\ Forked = 1..n
    /\ smsh = "wait" => n \in Unreaped
    /\ smsh # "wait" /\ Background = {} /\ reported # 0 => reported = n

AddUp == Cardinality(Unreaped) = Cardinality(Background) + (IF smsh = "wait" THEN 1 ELSE 0)

SmshInv == SmshTypeOK /\ foreground \subseteq Forked /\ NewestWaits /\ AddUp

LEMMA CommandSets ==
  ASSUME NEW S \in SUBSET Commands
  PROVE  IsFiniteSet(S) /\ Cardinality(S) \in Nat
<1>1. IsFiniteSet(Commands)
  <2>1. 1 \in Int /\ MaxCommands \in Int
    BY CommandsAssumption
  <2> QED
    BY <2>1, FS_Interval DEF Commands
<1>2. IsFiniteSet(S)
  BY <1>1, FS_Subset
<1> QED
  BY <1>2, FS_CardinalityType

LEMMA CommandNumbers ==
  /\ Cardinality(Forked) \in Nat /\ IsFiniteSet(Forked)
  /\ Cardinality(Unreaped) \in Nat /\ IsFiniteSet(Unreaped)
  /\ Cardinality(Background) \in Nat /\ IsFiniteSet(Background)
<1>1. Forked \in SUBSET Commands /\ Unreaped \in SUBSET Commands /\ Background \in SUBSET Commands
  BY DEF Forked, Unreaped, Background
<1> QED
  BY <1>1, CommandSets

LEMMA SmshStarts == SmshInit => SmshInv
<1> SUFFICES ASSUME SmshInit PROVE SmshInv
  OBVIOUS
<1>1. Forked = {} /\ Unreaped = {} /\ Background = {} /\ foreground = {} /\ smsh = "prompt"
  BY DEF SmshInit, Forked, Unreaped, Background
<1>2. SmshTypeOK
  BY DEF SmshInit, SmshTypeOK
<1>3. NewestWaits
  BY <1>1, CommandsAssumption DEF SmshInit, NewestWaits
<1>4. AddUp
  BY <1>1, FS_EmptySet DEF AddUp
<1> QED
  BY <1>1, <1>2, <1>3, <1>4 DEF SmshInv

\* The number of the next command follows that of the newest.
LEMMA NextCommand ==
  ASSUME SmshInv, NEW c \in Commands, Fresh(c), kid' = [kid EXCEPT ![c] = "running"]
  PROVE  /\ c \notin Forked /\ c \notin Unreaped
         /\ Forked' = Forked \cup {c} /\ Forked' = 1..c /\ Unreaped' = Unreaped \cup {c}
<1>1. kid \in [Commands -> {"none", "running", "ended", "reaped"}]
  BY DEF SmshInv, SmshTypeOK
<1>2. c \notin Forked /\ c \notin Unreaped
  BY DEF Fresh, Forked, Unreaped
<1>3. Forked' = Forked \cup {c} /\ Unreaped' = Unreaped \cup {c}
  BY <1>1 DEF Forked, Unreaped
<1>4. PICK n \in 0..MaxCommands : Forked = 1..n
  BY DEF SmshInv, NewestWaits
<1>5. c = n + 1
  <2>1. c \in 1..MaxCommands /\ n \in 0..MaxCommands
    BY DEF Commands
  <2>2. ~(c <= n)
    BY <1>2, <1>4, <2>1, CommandsAssumption
  <2>3. ~(n + 1 < c)
    <3> SUFFICES ASSUME n + 1 < c PROVE FALSE
      OBVIOUS
    <3>1. n + 1 \in 1..(c - 1) /\ n + 1 \in Commands
      BY <2>1, CommandsAssumption DEF Commands
    <3>2. n + 1 \in Forked
      BY <3>1 DEF Fresh, Forked
    <3> QED
      BY <1>4, <3>2, CommandsAssumption
  <2> QED
    BY <2>1, <2>2, <2>3, CommandsAssumption
<1>6. 1..c = 1..n \cup {c}
  BY <1>5, CommandsAssumption
<1> QED
  BY <1>2, <1>3, <1>4, <1>6

LEMMA ForkAddsUp ==
  ASSUME SmshInv, NEW c \in Commands, ExecuteAndWait(c) \/ ExecuteInBackground(c)
  PROVE  SmshInv'
<1>1. Fresh(c) /\ kid' = [kid EXCEPT ![c] = "running"] /\ smsh = "prompt" /\ reported' = 0
  BY DEF ExecuteAndWait, ExecuteInBackground
<1>2. /\ c \notin Forked /\ c \notin Unreaped
      /\ Forked' = Forked \cup {c} /\ Forked' = 1..c /\ Unreaped' = Unreaped \cup {c}
  BY <1>1, NextCommand
<1>3. foreground \subseteq Forked /\ Cardinality(Unreaped) = Cardinality(Background)
  BY <1>1, CommandNumbers DEF SmshInv, AddUp
<1>4. Cardinality(Unreaped') = Cardinality(Unreaped) + 1
  BY <1>2, CommandNumbers, FS_AddElement
<1>5. SmshTypeOK'
  BY <1>1 DEF ExecuteAndWait, ExecuteInBackground, SmshInv, SmshTypeOK
<1>6. NewestWaits'
  <2>1. c \in 0..MaxCommands
    BY CommandsAssumption DEF Commands
  <2> QED
    BY <1>1, <1>2, <2>1 DEF NewestWaits
<1>7. CASE ExecuteAndWait(c)
  <2>1. foreground' = foreground \cup {c} /\ smsh' = "wait"
    BY <1>7 DEF ExecuteAndWait
  <2>2. Background' = Background
    BY <1>2, <2>1 DEF Background
  <2>3. AddUp'
    BY <1>3, <1>4, <2>1, <2>2, CommandNumbers DEF AddUp
  <2> QED
    BY <1>2, <1>3, <1>5, <1>6, <2>1, <2>3 DEF SmshInv
<1>8. CASE ExecuteInBackground(c)
  <2>1. foreground' = foreground /\ smsh' = "prompt"
    BY <1>1, <1>8 DEF ExecuteInBackground
  <2>2. Background' = Background \cup {c} /\ c \notin Background
    BY <1>2, <1>3, <2>1 DEF Background
  <2>3. Cardinality(Background') = Cardinality(Background) + 1
    BY <2>2, CommandNumbers, FS_AddElement
  <2>4. AddUp'
    BY <1>3, <1>4, <2>1, <2>3, CommandNumbers DEF AddUp
  <2> QED
    BY <1>2, <1>3, <1>5, <1>6, <2>1, <2>4 DEF SmshInv
<1> QED
  BY <1>7, <1>8

\* Without a child in the background the one that wait finds is the newest.
LEMMA WaitAddsUp ==
  ASSUME SmshInv, NEW c \in Commands, Wait(c)
  PROVE  SmshInv'
<1>1. /\ smsh = "wait" /\ smsh' = "prompt" /\ kid[c] = "ended" /\ kid' = [kid EXCEPT ![c] = "reaped"]
      /\ reported' = c /\ foreground' = foreground
  BY DEF Wait
<1>2. Forked' = Forked /\ Unreaped' = Unreaped \ {c} /\ c \in Unreaped /\ Background' = Background
  BY <1>1 DEF SmshInv, SmshTypeOK, Forked, Unreaped, Background
<1>3. Cardinality(Unreaped) = Cardinality(Background) + 1
  BY <1>1 DEF SmshInv, AddUp
<1>4. Cardinality(Unreaped') = Cardinality(Unreaped) - 1
  BY <1>2, CommandNumbers, FS_RemoveElement
<1>5. AddUp'
  BY <1>1, <1>2, <1>3, <1>4, CommandNumbers DEF AddUp
<1>6. PICK n \in 0..MaxCommands : Forked = 1..n /\ n \in Unreaped
  BY <1>1 DEF SmshInv, NewestWaits
<1>7. Background = {} => c = n
  <2> SUFFICES ASSUME Background = {} PROVE c = n
    OBVIOUS
  <2>1. Cardinality(Unreaped) = 1
    BY <1>3, FS_EmptySet
  <2>2. \E x : Unreaped = {x}
    BY <2>1, CommandNumbers, FS_Singleton
  <2> QED
    BY <1>2, <1>6, <2>2
<1>8. NewestWaits'
  BY <1>1, <1>2, <1>6, <1>7 DEF NewestWaits
<1>9. SmshTypeOK'
  BY <1>1 DEF SmshInv, SmshTypeOK
<1> QED
  BY <1>1, <1>2, <1>5, <1>8, <1>9 DEF SmshInv

LEMMA SmshSteps == SmshInv /\ [SmshNext]_smshVars => SmshInv'
<1> SUFFICES ASSUME SmshInv, [SmshNext]_smshVars PROVE SmshInv'
  OBVIOUS
<1>1. ASSUME Forked' = Forked, Unreaped' = Unreaped, SmshTypeOK', UNCHANGED foreground,
             UNCHANGED smsh \/ (smsh = "prompt" /\ smsh' = "exited"),
             UNCHANGED reported \/ reported' = 0
      PROVE  SmshInv'
  BY <1>1 DEF SmshInv, NewestWaits, AddUp, Background
<1>2. ASSUME NEW c \in Commands, CommandEnds(c) PROVE SmshInv'
  <2>1. Forked' = Forked /\ Unreaped' = Unreaped /\ SmshTypeOK'
    BY <1>2 DEF CommandEnds, SmshInv, SmshTypeOK, Forked, Unreaped
  <2> QED
    BY <1>1, <1>2, <2>1 DEF CommandEnds
<1>3. CASE ExecuteNothing \/ Exit \/ UNCHANGED smshVars
  <2>1. kid' = kid /\ SmshTypeOK'
    BY <1>3 DEF ExecuteNothing, Exit, smshVars, SmshInv, SmshTypeOK
  <2>2. Forked' = Forked /\ Unreaped' = Unreaped
    BY <2>1 DEF Forked, Unreaped
  <2> QED
    BY <1>1, <1>3, <2>1, <2>2 DEF ExecuteNothing, Exit, smshVars
<1> QED
  BY <1>2, <1>3, ForkAddsUp, WaitAddsUp DEF SmshNext

\* However many commands run in the background, at the prompt as many children are
\* left as were started there, and a shell that never saw "&" reports the status
\* of the command it has just run (smsh1.c, execute.c).
THEOREM ShellsChildrenAddUp == SmshSpec => []ChildrenAddUp
<1>1. SmshInv => ChildrenAddUp
  <2> SUFFICES ASSUME SmshInv, smsh # "wait"
               PROVE  /\ Cardinality(InState("running") \cup InState("ended")) = Cardinality(Background)
                      /\ Background = {} /\ reported # 0 => reported = Cardinality(Forked)
    BY DEF ChildrenAddUp, Background, Forked
  <2>1. InState("running") \cup InState("ended") = Unreaped
    BY DEF InState, Unreaped
  <2>2. PICK n \in 0..MaxCommands :
          Forked = 1..n /\ (Background = {} /\ reported # 0 => reported = n)
    BY DEF SmshInv, NewestWaits
  <2>3. Cardinality(Forked) = n
    <3>1. 1 \in Int /\ n \in Int /\ (IF 1 > n THEN 0 ELSE n - 1 + 1) = n
      BY CommandsAssumption
    <3>2. Cardinality(1..n) = n
      BY <3>1, FS_Interval
    <3> QED
      BY <2>2, <3>2
  <2> QED
    <3>1. Cardinality(Unreaped) = Cardinality(Background)
      BY CommandNumbers DEF SmshInv, AddUp
    <3> QED
      BY <2>1, <2>2, <2>3, <3>1
<1> QED
  BY SmshStarts, SmshSteps, <1>1, PTL DEF SmshSpec

-----------------------------------------------------------------------------
(* ChildCounter. Signals that coalesce lose no child: the handler is sure to run
   again as long as there is a zombie.                                        *)

SignalForZombies == Zombies # {} => sigchld \/ in_handler

\* Only children that were forked have a state.
NotYetForked == \A c \in Children : c > tried => child[c] = "none"

CountIsExact == sigchld_counter = Cardinality(Reaped)

CounterInv == CounterTypeOK /\ NotYetForked /\ SignalForZombies /\ CountIsExact

LEMMA ReapedNumbers ==
  /\ IsFiniteSet(Children) /\ Cardinality(Children) = NumOfChild
  /\ IsFiniteSet(Reaped) /\ Cardinality(Reaped) \in 0..NumOfChild
  /\ Cardinality(Reaped) = NumOfChild => Reaped = Children
<1>1. 1 \in Int /\ NumOfChild \in Int /\ (IF 1 > NumOfChild THEN 0 ELSE NumOfChild - 1 + 1) = NumOfChild
  BY NumOfChildAssumption
<1>2. IsFiniteSet(Children) /\ Cardinality(Children) = NumOfChild
  BY <1>1, FS_Interval DEF Children
<1>3. Reaped \in SUBSET Children
  BY DEF Reaped
<1>4. /\ IsFiniteSet(Reaped) /\ Cardinality(Reaped) <= Cardinality(Children)
      /\ Cardinality(Reaped) = Cardinality(Children) => Reaped = Children
  BY <1>2, <1>3, FS_Subset
<1>5. Cardinality(Reaped) \in Nat
  BY <1>4, FS_CardinalityType
<1> QED
  BY <1>2, <1>4, <1>5, NumOfChildAssumption

LEMMA CounterStarts == CounterInit => CounterInv
<1> SUFFICES ASSUME CounterInit PROVE CounterInv
  OBVIOUS
<1>1. Zombies = {} /\ Reaped = {}
  BY DEF CounterInit, Zombies, Reaped
<1>2. CounterTypeOK /\ NotYetForked
  <2>1. sigchld \in BOOLEAN /\ in_handler \in BOOLEAN
    BY Zenon DEF CounterInit
  <2> QED
    BY <2>1, NumOfChildAssumption DEF CounterInit, CounterTypeOK, NotYetForked
<1>3. CountIsExact
  BY <1>1, FS_EmptySet DEF CounterInit, CountIsExact
<1> QED
  BY <1>1, <1>2, <1>3 DEF CounterInv, SignalForZombies

LEMMA ParentKeepsCount ==
  ASSUME CounterInv, Parent
  PROVE  CounterInv'
<1> USE NumOfChildAssumption DEF CounterInv, CounterTypeOK
<1>1. UNCHANGED <<sigchld, in_handler, sigchld_counter>>
  BY DEF Parent, ForkChild, AfterForks, ParentEnds
<1>2. CounterTypeOK' /\ NotYetForked' /\ Zombies' = Zombies /\ Reaped' = Reaped
  <2>1. ASSUME NEW ok \in BOOLEAN, ForkChild(ok)
        PROVE  CounterTypeOK' /\ NotYetForked' /\ Zombies' = Zombies /\ Reaped' = Reaped
    <3>1. /\ tried' = tried + 1 /\ tried' \in Children /\ child[tried'] = "none"
          /\ child' = child \/ child' = [child EXCEPT ![tried'] = "asleep"]
      BY <2>1 DEF ForkChild, NotYetForked, Children
    <3>2. CounterTypeOK'
      BY <2>1, <3>1 DEF ForkChild
    <3>3. NotYetForked'
      BY <3>1 DEF NotYetForked, Children
    <3>4. Zombies' = Zombies /\ Reaped' = Reaped
      BY <3>1 DEF Zombies, Reaped
    <3> QED
      BY <3>2, <3>3, <3>4
  <2>2. CASE AfterForks \/ ParentEnds
    BY <2>2 DEF AfterForks, ParentEnds, NotYetForked, Zombies, Reaped
  <2> QED
    BY <2>1, <2>2 DEF Parent
<1>3. SignalForZombies' /\ CountIsExact'
  BY <1>1, <1>2 DEF SignalForZombies, CountIsExact
<1> QED
  BY <1>2, <1>3

LEMMA HandlerKeepsCount ==
  ASSUME CounterInv, Handler
  PROVE  CounterInv'
<1> USE NumOfChildAssumption DEF CounterInv
<1>1. CASE Deliver \/ HandlerReturns
  <2>1. UNCHANGED <<parent, newpid, tried, child, sigchld_counter>>
        /\ (in_handler' \/ Zombies = {}) /\ in_handler' \in BOOLEAN /\ sigchld' \in BOOLEAN
    BY <1>1 DEF Deliver, HandlerReturns, CounterTypeOK
  <2>2. Zombies' = Zombies /\ Reaped' = Reaped
    BY <2>1 DEF Zombies, Reaped
  <2>3. CounterTypeOK' /\ NotYetForked' /\ CountIsExact'
    BY <2>1, <2>2 DEF CounterTypeOK, NotYetForked, CountIsExact
  <2>4. SignalForZombies'
    BY <2>1, <2>2, Zenon DEF SignalForZombies
  <2> QED
    BY <2>3, <2>4
<1>2. ASSUME NEW c \in Children, Reap(c) PROVE CounterInv'
  <2>1. /\ in_handler /\ child[c] = "zombie" /\ child' = [child EXCEPT ![c] = "reaped"]
        /\ sigchld_counter' = sigchld_counter + 1
        /\ UNCHANGED <<parent, newpid, tried, sigchld, in_handler>>
    BY <1>2 DEF Reap, Zombies
  <2>2. c \notin Reaped /\ Reaped' = Reaped \cup {c}
    BY <2>1 DEF CounterTypeOK, Reaped
  <2>3. Cardinality(Reaped') = Cardinality(Reaped) + 1 /\ Cardinality(Reaped') \in 0..NumOfChild
    <3>1. Cardinality(Reaped') = Cardinality(Reaped) + 1
      BY <2>2, ReapedNumbers, FS_AddElement
    <3>2. Reaped' \in SUBSET Children
      BY DEF Reaped
    <3>3. Cardinality(Reaped') <= Cardinality(Children)
      BY <3>2, ReapedNumbers, FS_Subset
    <3> QED
      BY <3>1, <3>3, ReapedNumbers
  <2>4. CountIsExact'
    BY <2>1, <2>3 DEF CountIsExact
  <2>5. CounterTypeOK' /\ NotYetForked'
    BY <2>1, <2>3, <2>4 DEF CounterTypeOK, NotYetForked, CountIsExact
  <2>6. SignalForZombies'
    BY <2>1, Zenon DEF SignalForZombies
  <2> QED
    BY <2>4, <2>5, <2>6
<1> QED
  BY <1>1, <1>2 DEF Handler

LEMMA CounterSteps == CounterInv /\ [CounterNext]_counterVars => CounterInv'
<1> SUFFICES ASSUME CounterInv, [CounterNext]_counterVars PROVE CounterInv'
  OBVIOUS
<1>1. ASSUME NEW c \in Children, ChildExits(c) PROVE CounterInv'
  <2>1. /\ child[c] = "asleep" /\ child' = [child EXCEPT ![c] = "zombie"] /\ sigchld'
        /\ UNCHANGED <<parent, newpid, tried, in_handler, sigchld_counter>>
    BY <1>1 DEF ChildExits
  <2>2. sigchld' \in BOOLEAN
    BY <1>1 DEF ChildExits
  <2>3. Reaped' = Reaped
    BY <2>1 DEF CounterInv, CounterTypeOK, Reaped
  <2>4. CounterTypeOK' /\ NotYetForked' /\ CountIsExact'
    BY <2>1, <2>2, <2>3 DEF CounterInv, CounterTypeOK, NotYetForked, CountIsExact
  <2> QED
    BY <2>1, <2>4, Zenon DEF CounterInv, SignalForZombies
<1>2. CASE UNCHANGED counterVars
  BY <1>2 DEF counterVars, CounterInv, CounterTypeOK, NotYetForked, SignalForZombies, CountIsExact,
              Zombies, Reaped
<1> QED
  BY <1>1, <1>2, ParentKeepsCount, HandlerKeepsCount DEF CounterNext

\* However the signals of the children coalesce, the counter is the number of those
\* that were collected, and while there is a zombie the handler runs or will run
\* (waitdemo_sigchld2.c: sigchld_handler).
THEOREM ChildrenAreCounted == CounterSpec => [](CountIsExact /\ SignalForZombies)
<1>1. CounterInv => CountIsExact /\ SignalForZombies
  BY DEF CounterInv
<1> QED
  BY CounterStarts, CounterSteps, <1>1, PTL DEF CounterSpec

\* parent_code returns when every child has been collected, and not before.
THEOREM ParentWaitsForAll ==
  CounterSpec => [][parent = "parent_code" /\ parent' = "ended" => Reaped = Children]_counterVars
<1>1. ASSUME CounterInv, [CounterNext]_counterVars
      PROVE  [parent = "parent_code" /\ parent' = "ended" => Reaped = Children]_counterVars
  <2> SUFFICES ASSUME parent = "parent_code", parent' = "ended" PROVE Reaped = Children
    OBVIOUS
  <2>1. sigchld_counter >= NumOfChild
    BY <1>1 DEF CounterNext, Parent, Handler, ForkChild, AfterForks, ParentEnds, Deliver, Reap,
                HandlerReturns, ChildExits, counterVars
  <2>2. sigchld_counter = Cardinality(Reaped)
    BY <1>1 DEF CounterInv, CountIsExact
  <2> QED
    BY <2>1, <2>2, ReapedNumbers, NumOfChildAssumption
<1> QED
  BY CounterStarts, CounterSteps, <1>1, PTL DEF CounterSpec

-----------------------------------------------------------------------------
(* Pipeline. Who holds which end of a pipe.                                   *)

OwnEnds(c) == {<<c - 1, "r">>, <<c, "w">>}

HoldsOwn ==
  /\ \A c \in Procs : proc[c] \in {"none", "zombie", "reaped"} => holds[c] = {}
  /\ \A c \in Procs : proc[c] = "runs" => holds[c] \subseteq OwnEnds(c)
  /\ main = "wait" => holds[0] = {}
  /\ \A c \in Procs : c > forks => proc[c] = "none"

PipelineInv == PipelineTypeOK /\ HoldsOwn

LEMMA PipelineStarts == PipelineInit => PipelineInv
  BY PipelineAssumption
  DEF PipelineInit, PipelineInv, PipelineTypeOK, HoldsOwn, Procs, Ends, Forever

LEMMA MainKeepsEnds ==
  ASSUME PipelineInv, MainStep
  PROVE  PipelineInv'
<1> USE PipelineAssumption DEF PipelineInv, PipelineTypeOK, HoldsOwn, Procs
<1>1. CASE PipeFails \/ WaitFails
  BY <1>1 DEF PipeFails, WaitFails
<1>2. ASSUME NEW ok \in BOOLEAN, ForkCommand(ok) PROVE PipelineInv'
  <2>1. /\ main = "fork" /\ forks' = forks + 1 /\ forks' \in Procs /\ proc[forks'] = "none"
        /\ UNCHANGED <<main, pipe, has, left>>
    BY <1>2 DEF ForkCommand
  <2>2. CASE ok
    <3>1. proc' = [proc EXCEPT ![forks'] = "forked"] /\ holds' = [holds EXCEPT ![forks'] = holds[0]]
      BY <1>2, <2>2 DEF ForkCommand
    <3>2. PipelineTypeOK'
      BY <2>1, <3>1
    <3>3. HoldsOwn'
      BY <2>1, <3>1 DEF OwnEnds
    <3> QED
      BY <3>2, <3>3
  <2>3. CASE ~ok
    BY <1>2, <2>1, <2>3 DEF ForkCommand
  <2> QED
    BY <2>2, <2>3
<1>3. CASE ParentCloses
  <2>1. PipelineTypeOK'
    BY <1>3 DEF ParentCloses
  <2>2. HoldsOwn'
    BY <1>3 DEF ParentCloses
  <2> QED
    BY <2>1, <2>2
<1>4. ASSUME NEW c \in Procs, WaitForOne(c) PROVE PipelineInv'
  BY <1>4 DEF WaitForOne
<1> QED
  BY <1>1, <1>2, <1>3, <1>4 DEF MainStep

LEMMA CommandKeepsEnds ==
  ASSUME PipelineInv, NEW c \in Procs, CommandStep(c)
  PROVE  PipelineInv'
<1> USE PipelineAssumption DEF PipelineInv, PipelineTypeOK, HoldsOwn, Procs
<1>1. CASE close_pipes(c)
  <2>1. /\ proc[c] = "forked" /\ proc' = [proc EXCEPT ![c] = "runs"]
        /\ holds'[c] \subseteq OwnEnds(c) /\ holds'[c] \subseteq Ends
        /\ \A p \in 0..N : p # c => holds'[p] = holds[p]
        /\ holds' \in [0..N -> SUBSET Ends]
        /\ UNCHANGED <<main, forks, pipe, has, left>>
    BY <1>1 DEF close_pipes, OwnEnds
  <2> QED
    BY <2>1
<1>2. CASE Ended(c) /\ proc[c] = "runs"
  <2>1. /\ proc' = [proc EXCEPT ![c] = "zombie"] /\ holds' = [holds EXCEPT ![c] = {}]
        /\ UNCHANGED <<main, forks, pipe, has, left>>
    BY <1>2 DEF Ended
  <2> QED
    BY <1>2, <2>1
<1>3. CASE ReadItem(c)
  <2>1. pipe' \in [1..(N - 1) -> 0..Cap] /\ has' \in [Procs -> BOOLEAN]
    BY <1>3 DEF ReadItem
  <2> QED
    BY <1>3, <2>1 DEF ReadItem
<1>4. CASE WriteItem(c)
  <2>1. pipe' \in [1..(N - 1) -> 0..Cap] /\ has' \in [Procs -> BOOLEAN]
    BY <1>4 DEF WriteItem
  <2>2. left' \in [Procs -> 0..Forever]
    BY <1>4 DEF WriteItem, CanWrite, Wants, Forever
  <2> QED
    BY <1>4, <2>1, <2>2 DEF WriteItem
<1> QED
  BY <1>1, <1>2, <1>3, <1>4
  DEF CommandStep, EndOfFile, SigPipe, Finish, Wants, CanWrite

LEMMA PipelineSteps == PipelineInv /\ [PipelineNext]_pipelineVars => PipelineInv'
<1>1. PipelineInv /\ UNCHANGED pipelineVars => PipelineInv'
  BY DEF pipelineVars, PipelineInv, PipelineTypeOK, HoldsOwn
<1> QED
  BY <1>1, MainKeepsEnds, CommandKeepsEnds DEF PipelineNext

\* An end is held by no other process than the one that uses it: a reader learns of
\* the end of its input, a writer that nobody reads it, as soon as its neighbour ends.
EndsAreUsed ==
  main = "wait" /\ (\A c \in Procs : proc[c] # "forked") =>
    \A i \in 1..(N - 1) : /\ HeldByAny(<<i, "w">>) => proc[i] = "runs"
                          /\ HeldByAny(<<i, "r">>) => proc[i + 1] = "runs"

\* Once main waits and all commands run, no process keeps an end that its neighbours
\* could wait for, however many commands there are (main, close_pipes).
THEOREM NoStrayEnds == PipelineSpec => []EndsAreUsed
<1>1. PipelineInv => EndsAreUsed
  <2> SUFFICES ASSUME PipelineInv, main = "wait", \A c \in Procs : proc[c] # "forked",
                      NEW i \in 1..(N - 1), NEW p \in 0..N
               PROVE  /\ <<i, "w">> \in holds[p] => proc[i] = "runs"
                      /\ <<i, "r">> \in holds[p] => proc[i + 1] = "runs"
    BY DEF EndsAreUsed, HeldByAny
  <2>1. p # 0 \/ holds[p] = {}
    BY DEF PipelineInv, HoldsOwn
  <2>2. ASSUME p # 0
        PROVE  (proc[p] = "runs" /\ holds[p] \subseteq OwnEnds(p)) \/ holds[p] = {}
    <3>1. p \in Procs
      BY <2>2, PipelineAssumption DEF Procs
    <3> QED
      BY <3>1 DEF PipelineInv, PipelineTypeOK, HoldsOwn
  <2> QED
    BY <2>1, <2>2, PipelineAssumption DEF OwnEnds
<1> QED
  BY PipelineStarts, PipelineSteps, <1>1, PTL DEF PipelineSpec

-----------------------------------------------------------------------------
(* In a pipeline nobody waits for everybody. A command waits to read from the one
   before it or to write to the one behind it; what is stated are the guards of the
   steps of Pipeline, since the provers know nothing of ENABLED.              *)

Reads(c) == Wants(c) /\ c > 1 /\ ~has[c]

GoesOn(c) ==
  \/ proc[c] = "forked"
  \/ proc[c] = "runs" /\ left[c] = 0
  \/ Reads(c) /\ (pipe[c - 1] > 0 \/ ~HeldByAny(<<c - 1, "w">>))
  \/ CanWrite(c) /\ (c < N /\ HeldByAny(<<c, "r">>) => pipe[c] < Cap)

MainGoesOn ==
  \/ main = "fork"
  \/ main = "wait" /\ \E c \in Procs : proc[c] = "zombie"
  \/ main = "wait" /\ \A c \in Procs : proc[c] \in {"none", "reaped"}

SomebodyGoesOn == main # "ended" => MainGoesOn \/ \E c \in Procs : GoesOn(c)

\* A command that runs has not lost the ends it needs.
HoldsNeeded == \A c \in Procs : proc[c] = "runs" => OwnEnds(c) \cap Ends \subseteq holds[c]

LEMMA HoldsNeededStep == PipelineInv /\ HoldsNeeded /\ [PipelineNext]_pipelineVars => HoldsNeeded'
<1> SUFFICES ASSUME PipelineInv, HoldsNeeded, [PipelineNext]_pipelineVars PROVE HoldsNeeded'
  OBVIOUS
<1> USE PipelineAssumption DEF PipelineInv, PipelineTypeOK, HoldsNeeded, Procs
<1>1. CASE PipeFails \/ WaitFails \/ ParentCloses \/ UNCHANGED pipelineVars
  BY <1>1 DEF PipeFails, WaitFails, ParentCloses, pipelineVars
<1>2. ASSUME NEW ok \in BOOLEAN, ForkCommand(ok) PROVE HoldsNeeded'
  <2>1. forks' \in Procs /\ proc[forks'] = "none"
    BY <1>2 DEF ForkCommand, HoldsOwn
  <2>2. \A c \in Procs : proc'[c] = "runs" => proc[c] = "runs" /\ c # forks'
    BY <1>2, <2>1 DEF ForkCommand
  <2>3. \A c \in Procs : c # forks' => holds'[c] = holds[c]
    BY <1>2, <2>1 DEF ForkCommand
  <2> QED
    BY <2>2, <2>3
<1>3. ASSUME NEW c \in Procs, WaitForOne(c) PROVE HoldsNeeded'
  BY <1>3 DEF WaitForOne
<1>4. ASSUME NEW c \in Procs, close_pipes(c) PROVE HoldsNeeded'
  BY <1>4 DEF close_pipes, OwnEnds
<1>5. ASSUME NEW c \in Procs, Ended(c) PROVE HoldsNeeded'
  BY <1>5 DEF Ended
<1>6. ASSUME NEW c \in Procs, ReadItem(c) \/ WriteItem(c) PROVE HoldsNeeded'
  <2>1. proc' = proc /\ holds' = holds
    BY <1>6 DEF ReadItem, WriteItem
  <2> QED
    BY <2>1
<1> QED
  BY <1>1, <1>2, <1>3, <1>4, <1>5, <1>6
  DEF PipelineNext, MainStep, CommandStep, EndOfFile, SigPipe, Finish

LEMMA Least ==
  ASSUME NEW T \in SUBSET Nat, T # {}
  PROVE  \E x \in T : \A y \in T : x <= y
<1> DEFINE Less == OpToRel(<, Nat)
<1>1. IsWellFoundedOn(Less, Nat) /\ T \subseteq Nat
  BY NatLessThanWellFounded
<1> HIDE DEF Less
<1>2. PICK x \in T : \A y \in T : ~ (<<y, x>> \in Less)
  BY <1>1, WFMin
<1>3. \A y \in T : y < x => <<y, x>> \in Less
  BY DEF Less, OpToRel
<1>4. \A y \in T : ~ (y < x)
  BY <1>2, <1>3, Zenon
<1>5. x \in Nat /\ \A y \in T : y \in Nat
  OBVIOUS
<1> QED
  BY <1>4, <1>5

LEMMA Greatest ==
  ASSUME NEW T \in SUBSET Procs, T # {}
  PROVE  \E x \in T : \A y \in T : y <= x
<1> USE PipelineAssumption DEF Procs
<1> DEFINE D == {N - y : y \in T}
<1>1. \A y \in T : N - y \in D /\ N - y \in Nat
  OBVIOUS
<1>2. D \in SUBSET Nat /\ D # {}
  BY <1>1
<1> HIDE DEF D
<1>3. PICK z \in D : \A y \in D : z <= y
  BY <1>2, Least
<1>4. PICK x \in T : z = N - x
  BY <1>3 DEF D
<1>5. \A y \in T : N - x <= N - y
  BY <1>1, <1>3, <1>4
<1> QED
  BY <1>5

\* The last command with something to write goes on, for nobody behind it waits to
\* write; if there is none, the first that runs has nobody before it to wait for.
LEMMA ChainGoesOn ==
  ASSUME PipelineInv, HoldsNeeded, EndsAreUsed, main = "wait",
         \A c \in Procs : proc[c] # "forked",
         NEW r \in Procs, proc[r] = "runs"
  PROVE  \E c \in Procs : GoesOn(c)
<1> USE PipelineAssumption DEF Procs
<1>0. \A i \in 1..(N - 1) : /\ HeldByAny(<<i, "w">>) => proc[i] = "runs"
                            /\ HeldByAny(<<i, "r">>) => proc[i + 1] = "runs"
  BY Zenon DEF EndsAreUsed
<1> DEFINE W == {c \in Procs : CanWrite(c)}
           R == {c \in Procs : proc[c] = "runs"}
<1>1. \A c \in R : left[c] = 0 \/ Wants(c)
  BY DEF PipelineInv, PipelineTypeOK, Wants
<1>2. CASE W # {}
  <2>1. PICK c \in W : \A d \in W : d <= c
    BY <1>2, Greatest
  <2>2. c \in Procs /\ CanWrite(c)
    BY <2>1
  <2>3. CASE c < N /\ HeldByAny(<<c, "r">>) /\ ~(pipe[c] < Cap)
    <3>1. c + 1 \in Procs /\ proc[c + 1] = "runs" /\ ~CanWrite(c + 1)
      <4>1. c \in 1..(N - 1) /\ c + 1 \in Procs /\ ~(c + 1 <= c)
        BY <2>2, <2>3
      <4>2. proc[c + 1] = "runs"
        BY <1>0, <2>3, <4>1, Zenon
      <4>3. c + 1 \notin W
        BY <2>1, <4>1
      <4> QED
        BY <4>1, <4>2, <4>3
    <3>2. CASE left[c + 1] = 0
      BY <3>1, <3>2 DEF GoesOn
    <3>3. CASE Wants(c + 1)
      <4>1. Reads(c + 1)
        BY <3>1, <3>3 DEF Reads, CanWrite
      <4>2. pipe[(c + 1) - 1] > 0
        BY <2>2, <2>3 DEF PipelineInv, PipelineTypeOK
      <4> QED
        BY <3>1, <4>1, <4>2 DEF GoesOn
    <3> QED
      BY <1>1, <3>1, <3>2, <3>3
  <2> QED
    BY <2>2, <2>3 DEF GoesOn
<1>3. CASE W = {}
  <2>1. R \in SUBSET Nat /\ R # {}
    OBVIOUS
  <2>2. PICK c \in R : \A d \in R : c <= d
    BY <2>1, Least
  <2>3. c \in Procs /\ proc[c] = "runs" /\ ~CanWrite(c)
    BY <1>3, <2>2
  <2>4. CASE left[c] = 0
    BY <2>3, <2>4 DEF GoesOn
  <2>5. CASE Wants(c)
    <3>1. Reads(c)
      BY <2>3, <2>5 DEF Reads, CanWrite
    <3>2. ~HeldByAny(<<c - 1, "w">>)
      <4>1. c - 1 \in 1..(N - 1) /\ c - 1 \in Procs
        BY <2>3, <3>1 DEF Reads
      <4>2. proc[c - 1] # "runs"
        BY <2>2, <4>1
      <4> DEFINE i == c - 1
      <4>3. i \in 1..(N - 1) /\ proc[i] # "runs"
        BY <4>1, <4>2
      <4> HIDE DEF i
      <4>4. ~HeldByAny(<<i, "w">>)
        BY <1>0, <4>3, Zenon
      <4> QED
        BY <4>4 DEF i
    <3> QED
      BY <2>3, <3>1, <3>2 DEF GoesOn
  <2> QED
    BY <1>1, <2>2, <2>4, <2>5
<1> QED
  BY <1>2, <1>3

\* As long as main has not ended some process can take a step, whatever commands were
\* started, ended or are stopped by a full or an empty pipe: no circle of processes
\* that wait for each other ever forms, however long the pipeline and however little
\* a pipe takes (main, close_pipes).
THEOREM NobodyWaitsForEverybody == PipelineSpec => []SomebodyGoesOn
<1>1. PipelineInit => HoldsNeeded
  BY DEF PipelineInit, HoldsNeeded
<1>2. PipelineSpec => []HoldsNeeded
  BY PipelineStarts, PipelineSteps, <1>1, HoldsNeededStep, PTL DEF PipelineSpec
<1>3. PipelineInv /\ HoldsNeeded /\ EndsAreUsed => SomebodyGoesOn
  <2> SUFFICES ASSUME PipelineInv, HoldsNeeded, EndsAreUsed, main # "ended", ~MainGoesOn
               PROVE  \E c \in Procs : GoesOn(c)
    BY DEF SomebodyGoesOn
  <2>1. main = "wait"
    BY DEF PipelineInv, PipelineTypeOK, MainGoesOn
  <2>2. PICK c \in Procs : proc[c] \in {"forked", "runs"}
    BY <2>1 DEF PipelineInv, PipelineTypeOK, MainGoesOn
  <2>3. CASE \E d \in Procs : proc[d] = "forked"
    BY <2>3 DEF GoesOn
  <2> QED
    BY <2>1, <2>2, <2>3, ChainGoesOn
<1> QED
  BY PipelineStarts, PipelineSteps, <1>2, <1>3, NoStrayEnds, PTL DEF PipelineSpec

-----------------------------------------------------------------------------
\* Every variable of the small programs has its type in every run of each: the
\* racket stays beside its court, counters and cut numbers stay in their bounds,
\* and no process is in a state its program does not know.
THEOREM TypesOfThePrograms ==
  /\ IfSpec => []IfTypeOK
  /\ BounceSpec => []BounceTypeOK
  /\ TicketSpec => []TicketTypeOK
  /\ SmshSpec => []SmshTypeOK
  /\ CounterSpec => []CounterTypeOK
  /\ PipelineSpec => []PipelineTypeOK
<1>1. /\ BounceInv => BounceTypeOK
      /\ TicketInv => TicketTypeOK
      /\ SmshInv => SmshTypeOK
      /\ CounterInv => CounterTypeOK
      /\ PipelineInv => PipelineTypeOK
  BY DEF BounceInv, TicketInv, SmshInv, CounterInv, PipelineInv
<1>2. BounceSpec => []BounceTypeOK
  BY BounceStarts, BounceSteps, <1>1, PTL DEF BounceSpec
<1>3. TicketSpec => []TicketTypeOK
  BY TicketsStart, TicketSteps, <1>1, PTL DEF TicketSpec
<1>4. SmshSpec => []SmshTypeOK
  BY SmshStarts, SmshSteps, <1>1, PTL DEF SmshSpec
<1>5. CounterSpec => []CounterTypeOK
  BY CounterStarts, CounterSteps, <1>1, PTL DEF CounterSpec
<1>6. PipelineSpec => []PipelineTypeOK
  BY PipelineStarts, PipelineSteps, <1>1, PTL DEF PipelineSpec
<1> QED
  BY <1>2, <1>3, <1>4, <1>5, <1>6, IfTypes
=============================================================================
