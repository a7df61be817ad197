---------------------------- MODULE ChildCounter ----------------------------
(* A parent that counts its children's deaths in a SIGCHLD handler
   (chapter8/question/8.10/waitdemo_sigchld2.c). The handler runs between any
   two steps of main; while it runs SIGCHLD is blocked and pends at most once. *)
EXTENDS Integers

CONSTANT NumOfChild \* the argument of the program, at least 1

ASSUME NumOfChildAssumption == NumOfChild \in Nat \ {0}

VARIABLES parent, newpid, tried, child, sigchld, in_handler, sigchld_counter

counterVars == <<parent, newpid, tried, child, sigchld, in_handler, sigchld_counter>>

Children == 1..NumOfChild

Zombies == {c \in Children : child[c] = "zombie"}
Reaped == {c \in Children : child[c] = "reaped"}

\* One turn of main's loop; a fork that fails only leaves -1 in newpid.
ForkChild(ok) ==
  /\ parent = "fork" /\ ~in_handler /\ tried < NumOfChild
  /\ tried' = tried + 1
  /\ newpid' = IF ok THEN tried' ELSE -1
  /\ child' = IF ok THEN [child EXCEPT ![tried'] = "asleep"] ELSE child
  /\ UNCHANGED <<parent, sigchld, in_handler, sigchld_counter>>

\* After the loop main waits if its last fork succeeded, and ends otherwise.
AfterForks ==
  /\ parent = "fork" /\ ~in_handler /\ tried = NumOfChild
  /\ parent' = IF newpid = -1 THEN "ended" ELSE "parent_code"
  /\ UNCHANGED <<newpid, tried, child, sigchld, in_handler, sigchld_counter>>

\* parent_code looks every second; the rounds that find too few are no steps.
ParentEnds ==
  /\ parent = "parent_code" /\ ~in_handler /\ sigchld_counter >= NumOfChild
  /\ parent' = "ended"
  /\ UNCHANGED <<newpid, tried, child, sigchld, in_handler, sigchld_counter>>

ChildExits(c) ==
  /\ child[c] = "asleep" /\ child' = [child EXCEPT ![c] = "zombie"]
  /\ sigchld' = TRUE
  /\ UNCHANGED <<parent, newpid, tried, in_handler, sigchld_counter>>

\* Mutant: the handler collects one child and returns.
Reap_one(c) ==
  /\ in_handler /\ c \in Zombies
  /\ child' = [child EXCEPT ![c] = "reaped"]
  /\ sigchld_counter' = sigchld_counter + 1 /\ in_handler' = FALSE
  /\ UNCHANGED <<parent, newpid, tried, sigchld>>

\* sigchld_handler: delivered, one turn of its loop, its end.
Deliver ==
  /\ sigchld /\ ~in_handler /\ parent # "ended"
  /\ in_handler' = TRUE /\ sigchld' = FALSE
  /\ UNCHANGED <<parent, newpid, tried, child, sigchld_counter>>

Reap(c) ==
  /\ in_handler /\ c \in Zombies
  /\ child' = [child EXCEPT ![c] = "reaped"]
  /\ sigchld_counter' = sigchld_counter + 1
  /\ UNCHANGED <<parent, newpid, tried, sigchld, in_handler>>

HandlerReturns ==
  /\ in_handler /\ Zombies = {}
  /\ in_handler' = FALSE
  /\ UNCHANGED <<parent, newpid, tried, child, sigchld, sigchld_counter>>

Parent == (\E ok \in BOOLEAN : ForkChild(ok)) \/ AfterForks \/ ParentEnds

Handler == Deliver \/ (\E c \in Children : Reap(c)) \/ HandlerReturns

CounterInit ==
  /\ parent = "fork" /\ newpid = 0 /\ tried = 0
  /\ child = [c \in Children |-> "none"]
  /\ sigchld = FALSE /\ in_handler = FALSE /\ sigchld_counter = 0

CounterNext == Parent \/ Handler \/ \E c \in Children : ChildExits(c)

CounterSpec == CounterInit /\ [][CounterNext]_counterVars

CounterTypeOK ==
  /\ parent \in {"fork", "parent_code", "ended"}
  /\ tried \in 0..NumOfChild /\ newpid \in -1..NumOfChild
  /\ child \in [Children -> {"none", "asleep", "zombie", "reaped"}]
  /\ sigchld \in BOOLEAN /\ in_handler \in BOOLEAN
  /\ sigchld_counter \in 0..NumOfChild

\* When all its forks succeed, main ends some day and not before it has collected
\* every child, although children that end together raise one signal and some end
\* while the handler is reaping others (main, sigchld_handler).
AllForked == parent = "parent_code" /\ \A c \in Children : child[c] # "none"

EveryChildCounted == AllForked ~> (parent = "ended" /\ Reaped = Children)
=============================================================================
