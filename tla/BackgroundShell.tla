-------------------------- MODULE BackgroundShell --------------------------
(* smsh1 with "&" (chapter9/question/9.08): execute() forks, and waits unless
   the last word is "&". Commands are numbered in the order they are forked.  *)
EXTENDS Naturals, FiniteSets

CONSTANT MaxCommands \* bound: commands forked by one shell

ASSUME CommandsAssumption == MaxCommands \in Nat

VARIABLES smsh,      \* where main is
          kid,       \* the state of each child
          foreground,\* the children that execute() was to wait for
          reported   \* the child whose status the last wait returned, 0 if none

smshVars == <<smsh, kid, foreground, reported>>

Commands == 1..MaxCommands

InState(s) == {c \in Commands : kid[c] = s}

Fresh(c) == kid[c] = "none" /\ \A d \in 1..(c - 1) : kid[d] # "none"

\* A command without "&": fork, then wait for a child.
ExecuteAndWait(c) ==
  /\ smsh = "prompt" /\ Fresh(c)
  /\ kid' = [kid EXCEPT ![c] = "running"]
  /\ foreground' = foreground \cup {c} /\ reported' = 0 /\ smsh' = "wait"

\* A command with "&" leaves at once, child_info as it was initialised.
ExecuteInBackground(c) ==
  /\ smsh = "prompt" /\ Fresh(c)
  /\ kid' = [kid EXCEPT ![c] = "running"]
  /\ reported' = 0 /\ UNCHANGED <<smsh, foreground>>

\* Mutant: wait is called although fork has failed.
ExecuteNothing_waits == smsh = "prompt" /\ reported' = 0 /\ smsh' = "wait" /\ UNCHANGED <<kid, foreground>>

\* fork fails, there is nothing before "&", or "exit" has a word that is no number.
ExecuteNothing == smsh = "prompt" /\ reported' = 0 /\ UNCHANGED <<smsh, kid, foreground>>

\* wait(&child_info): any child that has ended, not just the one forked last.
Wait(c) ==
  /\ smsh = "wait" /\ kid[c] = "ended"
  /\ kid' = [kid EXCEPT ![c] = "reaped"]
  /\ reported' = c /\ smsh' = "prompt" /\ UNCHANGED foreground

\* "exit", or the end of the input.
Exit == smsh = "prompt" /\ smsh' = "exited" /\ UNCHANGED <<kid, foreground, reported>>

CommandEnds(c) == kid[c] = "running" /\ kid' = [kid EXCEPT ![c] = "ended"] /\ UNCHANGED <<smsh, foreground, reported>>

SmshInit == smsh = "prompt" /\ kid = [c \in Commands |-> "none"] /\ foreground = {} /\ reported = 0

SmshNext ==
  \/ \E c \in Commands : ExecuteAndWait(c) \/ ExecuteInBackground(c) \/ Wait(c) \/ CommandEnds(c)
  \/ ExecuteNothing \/ Exit

SmshSpec == SmshInit /\ [][SmshNext]_smshVars

SmshTypeOK ==
  /\ smsh \in {"prompt", "wait", "exited"}
  /\ kid \in [Commands -> {"none", "running", "ended", "reaped"}]
  /\ foreground \subseteq Commands
  /\ reported \in {0} \cup Commands

\* At the prompt there are as many children not waited for as were started with
\* "&": each wait takes one child for the one it forked, although it may be another.
\* Nothing ever waits for the rest, and only a shell that never saw "&" may
\* take what wait returned for the status of its command (execute.c).
ChildrenAddUp ==
  LET background == {c \in Commands : kid[c] # "none"} \ foreground
      newest == Cardinality({c \in Commands : kid[c] # "none"})
  IN  smsh # "wait" =>
        /\ Cardinality(InState("running") \cup InState("ended")) = Cardinality(background)
        /\ background = {} /\ reported # 0 => reported = newest
=============================================================================
