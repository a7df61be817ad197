-------------------------- MODULE Programs_proofs --------------------------
(* What holds of each of the small programs holds of the behaviours that the runs
   explore, in which one of them runs and the others stand still.             *)
EXTENDS Programs, Course_proofs, BlockShell_proofs, TLAPS

\* A step of one program is a step of its own specification, and nothing to the
\* others.
LEMMA StepIsOfOne ==
  ASSUME [Next]_programVars
  PROVE  /\ [IfNext]_ifVars /\ [BlockNext]_blockVars /\ [SmshNext]_smshVars /\ [BounceNext]_bounceVars
         /\ [CounterNext]_counterVars /\ [TicketNext]_ticketVars /\ [PipelineNext]_pipelineVars
<1>1. CASE UNCHANGED programVars
  BY <1>1 DEF programVars
<1>2. CASE Next
  <2>1. /\ IfNext \/ UNCHANGED ifVars
        /\ BlockNext \/ UNCHANGED blockVars
        /\ SmshNext \/ UNCHANGED smshVars
        /\ BounceNext \/ UNCHANGED bounceVars
        /\ CounterNext \/ UNCHANGED counterVars
        /\ TicketNext \/ UNCHANGED ticketVars
        /\ PipelineNext \/ UNCHANGED pipelineVars
    BY <1>2 DEF Next, Step
  <2> QED
    BY <2>1
<1> QED
  BY <1>1, <1>2

\* The programs share nothing: every behaviour of the whole is a behaviour of each
\* of them, from its own start.
THEOREM EachByItself ==
  Spec => IfSpec /\ BlockSpec /\ SmshSpec /\ BounceSpec /\ CounterSpec /\ TicketSpec /\ PipelineSpec
<1>1. Init => /\ IfInit /\ BlockInit /\ SmshInit /\ BounceInit /\ CounterInit /\ TicketInit /\ PipelineInit
  BY DEF Init
<1> QED
  BY <1>1, StepIsOfOne, PTL
  DEF Spec, IfSpec, BlockSpec, SmshSpec, BounceSpec, CounterSpec, TicketSpec, PipelineSpec

\* Every variable of every small program keeps its type, and the program that was
\* started is the one that runs.
THEOREM AllTypes == Spec => []TypeOK
<1>1. Init => program \in Names
  BY DEF Init
<1>2. program \in Names /\ [Next]_programVars => (program \in Names)'
  BY DEF Next, Step, programVars
<1>3. Spec => [](program \in Names)
  BY <1>1, <1>2, PTL DEF Spec
<1>4. Spec => []BlockTypeOK
  <2>1. BlockInv => BlockTypeOK
    BY DEF BlockInv
  <2> QED
    BY <2>1, EachByItself, BlockTypes, PTL
<1>5. Spec => [](/\ IfTypeOK /\ SmshTypeOK /\ BounceTypeOK
                 /\ CounterTypeOK /\ TicketTypeOK /\ PipelineTypeOK)
  BY EachByItself, TypesOfThePrograms, PTL
<1>6. /\ program \in Names /\ BlockTypeOK
      /\ IfTypeOK /\ SmshTypeOK /\ BounceTypeOK /\ CounterTypeOK /\ TicketTypeOK /\ PipelineTypeOK
      => TypeOK
  BY DEF TypeOK
<1> QED
  BY <1>3, <1>4, <1>5, <1>6, PTL

\* What was shown of each program holds of the whole: its one "if" is the two of
\* 9.06, blocks run as they read, children add up, the ball stays in its court, no
\* two clients hold the same number, and no process of a pipeline a stray end.
THEOREM PromisesOfThePrograms ==
  Spec => /\ IsTwoVarIf
          /\ [](BlocksRunAsRead /\ ChildrenAddUp /\ BallInCourt /\ UniqueTickets /\ EndsAreUsed)
BY EachByItself, OneVarIsEnough, BlocksAreRunAsRead, ShellsChildrenAddUp, BallStaysInCourt,
   TicketsAreUnique, NoStrayEnds, PTL
=============================================================================
