------------------------------ MODULE Pipeline ------------------------------
(* command 1 | ... | command N (chapter10/question/10.14/pipe4.c; pipe3.c of 10.13
   is N = 3 written out). Pipe i leads from command i to command i + 1; an end is
   held by every process that has inherited it and not closed it.             *)
EXTENDS Integers

CONSTANTS N,       \* commands
          Cap,     \* items a pipe takes before its writer blocks
          Items    \* bound: items a command that ends by itself passes on

ASSUME PipelineAssumption == N \in Nat /\ N >= 2 /\ Cap \in Nat \ {0} /\ Items \in Nat

VARIABLES main, forks,
          proc,    \* each command's process
          holds,   \* the ends each process holds; 0 is the parent
          pipe,    \* items in each pipe
          has,     \* the command has read an item it has not written
          left     \* items after which the command ends by itself, or Forever

pipelineVars == <<main, forks, proc, holds, pipe, has, left>>

Procs == 1..N
Ends == (1..(N - 1)) \X {"r", "w"}
Forever == Items + 1

HeldByAny(e) == \E p \in 0..N : e \in holds[p]

\* The pipes are made before the first fork.
PipeFails == main = "fork" /\ forks = 0 /\ main' = "ended" /\ UNCHANGED <<forks, proc, holds, pipe, has, left>>

\* A fork that fails is taken for one that has made a child.
ForkCommand(ok) ==
  /\ main = "fork" /\ forks < N
  /\ forks' = forks + 1
  /\ proc' = IF ok THEN [proc EXCEPT ![forks'] = "forked"] ELSE proc
  /\ holds' = IF ok THEN [holds EXCEPT ![forks'] = holds[0]] ELSE holds
  /\ UNCHANGED <<main, pipe, has, left>>

ParentCloses ==
  /\ main = "fork" /\ forks = N
  /\ main' = "wait" /\ holds' = [holds EXCEPT ![0] = {}]
  /\ UNCHANGED <<forks, proc, pipe, has, left>>

WaitForOne(c) ==
  /\ main = "wait" /\ proc[c] = "zombie"
  /\ proc' = [proc EXCEPT ![c] = "reaped"]
  /\ UNCHANGED <<main, forks, holds, pipe, has, left>>

WaitFails ==
  /\ main = "wait" /\ \A c \in Procs : proc[c] \in {"none", "reaped"}
  /\ main' = "ended"
  /\ UNCHANGED <<forks, proc, holds, pipe, has, left>>

MainStep == PipeFails \/ (\E ok \in BOOLEAN : ForkCommand(ok)) \/ ParentCloses
            \/ (\E c \in Procs : WaitForOne(c)) \/ WaitFails

\* Mutant: the child does not close the pipes it has inherited.
close_pipes_kept(c) ==
  /\ proc[c] = "forked" /\ proc' = [proc EXCEPT ![c] = "runs"]
  /\ UNCHANGED <<main, forks, holds, pipe, has, left>>

\* dup2, close_pipes and exec: the child keeps one end of each pipe beside it.
close_pipes(c) ==
  /\ proc[c] = "forked" /\ proc' = [proc EXCEPT ![c] = "runs"]
  /\ holds' = [holds EXCEPT ![c] = {e \in Ends : e = <<c - 1, "r">> \/ e = <<c, "w">>}]
  /\ UNCHANGED <<main, forks, pipe, has, left>>

Ended(c) ==
  /\ proc' = [proc EXCEPT ![c] = "zombie"] /\ holds' = [holds EXCEPT ![c] = {}]
  /\ UNCHANGED <<main, forks, pipe, has, left>>

\* What the commands do: read an item and write it; the first makes its own.
Wants(c) == proc[c] = "runs" /\ left[c] > 0
CanWrite(c) == Wants(c) /\ (c = 1 \/ has[c])

ReadItem(c) ==
  /\ Wants(c) /\ c > 1 /\ ~has[c] /\ pipe[c - 1] > 0
  /\ pipe' = [pipe EXCEPT ![c - 1] = @ - 1] /\ has' = [has EXCEPT ![c] = TRUE]
  /\ UNCHANGED <<main, forks, proc, holds, left>>

WriteItem(c) ==
  /\ CanWrite(c)
  /\ c < N => pipe[c] < Cap /\ HeldByAny(<<c, "r">>)
  /\ pipe' = IF c < N THEN [pipe EXCEPT ![c] = @ + 1] ELSE pipe
  /\ has' = [has EXCEPT ![c] = FALSE]
  /\ left' = IF left[c] = Forever THEN left ELSE [left EXCEPT ![c] = @ - 1]
  /\ UNCHANGED <<main, forks, proc, holds>>

EndOfFile(c) == /\ Wants(c) /\ c > 1 /\ ~has[c] /\ pipe[c - 1] = 0 /\ ~HeldByAny(<<c - 1, "w">>)
                /\ Ended(c)

SigPipe(c) == CanWrite(c) /\ c < N /\ ~HeldByAny(<<c, "r">>) /\ Ended(c)

\* A command that has passed on enough, or that exec did not find.
Finish(c) == proc[c] = "runs" /\ left[c] = 0 /\ Ended(c)

CommandStep(c) == close_pipes(c) \/ ReadItem(c) \/ WriteItem(c) \/ EndOfFile(c) \/ SigPipe(c) \/ Finish(c)

PipelineInit ==
  /\ main = "fork" /\ forks = 0
  /\ proc = [c \in Procs |-> "none"]
  /\ holds = [p \in 0..N |-> IF p = 0 THEN Ends ELSE {}]
  /\ pipe = [p \in 1..(N - 1) |-> 0] /\ has = [c \in Procs |-> FALSE]
  /\ left \in [Procs -> 0..Forever]

PipelineNext == MainStep \/ \E c \in Procs : CommandStep(c)

PipelineSpec == PipelineInit /\ [][PipelineNext]_pipelineVars

PipelineTypeOK ==
  /\ main \in {"fork", "wait", "ended"} /\ forks \in 0..N
  /\ proc \in [Procs -> {"none", "forked", "runs", "zombie", "reaped"}]
  /\ holds \in [0..N -> SUBSET Ends]
  /\ pipe \in [1..(N - 1) -> 0..Cap] /\ has \in [Procs -> BOOLEAN] /\ left \in [Procs -> 0..Forever]

\* As soon as one command ends by itself, or was never started, all of them end and
\* wait returns -1: those before it by SIGPIPE, those behind it by the end of their
\* input, because no process keeps an end it does not use (main, close_pipes).
PipelineEnds ==
  main = "wait" /\ (\E c \in Procs : left[c] # Forever \/ proc[c] = "none") ~> main = "ended"
=============================================================================
