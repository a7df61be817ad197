------------------------------ MODULE Programs ------------------------------
(* The small programs of the course, each with processes of its own and no
   contact with the others: a behaviour is one of them, from its start.       *)
EXTENDS IfOneVar, BlockShell, BackgroundShell, Bounce2d, ChildCounter, Tickets, Pipeline

VARIABLE program

programVars == <<program, ifVars, blockVars, smshVars, bounceVars, counterVars, ticketVars, pipelineVars>>

Names == {"if", "block", "smsh", "bounce", "counter", "tickets", "pipeline"}

\* Programs that do not run have one initial state.
Init == /\ program \in Names
        /\ IfInit /\ BlockInit /\ SmshInit /\ BounceInit /\ CounterInit /\ TicketInit /\ PipelineInit
        /\ program # "block" => shell = "9.09"
        /\ program # "pipeline" => left = [c \in Procs |-> Forever]

\* A step A of the program called name.
Step(name, A) == program = name /\ A /\ UNCHANGED program

Next ==
  \/ Step("if", IfNext)
     /\ UNCHANGED <<blockVars, smshVars, bounceVars, counterVars, ticketVars, pipelineVars>>
  \/ Step("block", BlockNext)
     /\ UNCHANGED <<ifVars, smshVars, bounceVars, counterVars, ticketVars, pipelineVars>>
  \/ Step("smsh", SmshNext)
     /\ UNCHANGED <<ifVars, blockVars, bounceVars, counterVars, ticketVars, pipelineVars>>
  \/ Step("bounce", BounceNext)
     /\ UNCHANGED <<ifVars, blockVars, smshVars, counterVars, ticketVars, pipelineVars>>
  \/ Step("counter", CounterNext)
     /\ UNCHANGED <<ifVars, blockVars, smshVars, bounceVars, ticketVars, pipelineVars>>
  \/ Step("tickets", TicketNext)
     /\ UNCHANGED <<ifVars, blockVars, smshVars, bounceVars, counterVars, pipelineVars>>
  \/ Step("pipeline", PipelineNext)
     /\ UNCHANGED <<ifVars, blockVars, smshVars, bounceVars, counterVars, ticketVars>>

\* The kernel runs every process that can run and delivers pending signals; a
\* sleeping child wakes. Nobody has to type, connect, fail or stop.
Fairness ==
  /\ WF_counterVars(Step("counter", Parent)) /\ WF_counterVars(Step("counter", Handler))
  /\ \A c \in Children : WF_counterVars(Step("counter", ChildExits(c)))
  /\ WF_pipelineVars(Step("pipeline", MainStep))
  /\ \A c \in Procs : WF_pipelineVars(Step("pipeline", CommandStep(c)))

Spec == Init /\ [][Next]_programVars /\ Fairness

TypeOK ==
  /\ program \in Names
  /\ IfTypeOK /\ BlockTypeOK /\ SmshTypeOK /\ BounceTypeOK /\ CounterTypeOK /\ TicketTypeOK /\ PipelineTypeOK
=============================================================================
