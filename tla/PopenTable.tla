----------------------------- MODULE PopenTable -----------------------------
(***************************************************************************)
(* popen and pclose of exercise 11.08 (popen.c): a table remembers which   *)
(* child stands behind which stream, so that pclose can wait for it.       *)
(*                                                                         *)
(* The k-th popen makes pipe k and child k.  A descriptor is a pair of a   *)
(* pipe and one of its ends; fork copies the parent's set of descriptors,  *)
(* the streams of earlier popens included.  Streams (FILE pointers) are    *)
(* used again after fclose; process numbers are not used again.            *)
(***************************************************************************)
EXTENDS Naturals, FiniteSets

CONSTANTS
  Streams, Null,   \* FILE pointers the library hands out; the null pointer
  MAX_TABLE,       \* slots of proc_table
  MaxOpens,        \* bound on the calls of popen in one run
  EndsItself,      \* modes in which a command may end although its pipe is held
  MaxFailures,     \* bound on the calls a failing system call cuts short
  WaitedElsewhere  \* children another wait of the program may collect first

ASSUME StreamsAssumption == Null \notin Streams
ASSUME TableAssumption == MAX_TABLE \in Nat /\ MaxOpens \in Nat /\ MaxFailures \in Nat

Opens == 1..MaxOpens
ASSUME ElsewhereAssumption == WaitedElsewhere \subseteq Opens
Slots == 1..MAX_TABLE
Ends  == {"read", "write"}
Modes == {"r", "w"}

VARIABLES
  table,   \* proc_table: slot to [fp, pid]
  stream,  \* the popen whose pipe is behind an open FILE, 0 when it is free
  fds,     \* descriptors the caller holds
  held,    \* descriptors each child holds
  life,    \* unborn, forked, running, zombie, reaped
  mode,    \* second argument of popen
  endless, \* the command stops only when its pipe is released
  opened,  \* calls of popen so far
  pc,      \* the caller: idle, popen (after fork), wait or collect
  pid,     \* the child it waits for, 0 outside of the calls
  cut      \* history: children whose call a failing system call cut short

vars == <<table, stream, fds, held, life, mode, endless, opened, pc, pid, cut>>

\* READ and WRITE of the source: the end of pipe k the caller keeps, and the
\* one the child puts in place of its standard input or output.
parent_end(k) == IF mode[k] = "r" THEN "read" ELSE "write"
child_end(k)  == IF mode[k] = "r" THEN "write" ELSE "read"

TypeOK ==
  /\ table \in [Slots -> [fp : Streams \cup {Null}, pid : 0..MaxOpens]]
  /\ stream \in [Streams -> 0..MaxOpens]
  /\ fds \in SUBSET (Opens \X Ends)
  /\ held \in [Opens -> SUBSET (Opens \X Ends)]
  /\ life \in [Opens -> {"unborn", "forked", "running", "zombie", "reaped"}]
  /\ mode \in [Opens -> Modes]
  /\ endless \in [Opens -> BOOLEAN]
  /\ opened \in 0..MaxOpens
  /\ pc \in {"idle", "popen", "wait", "collect"}
  /\ pid \in 0..MaxOpens
  /\ cut \subseteq Opens

\* proc_table is static, hence zero.
Init ==
  /\ table = [i \in Slots |-> [fp |-> Null, pid |-> 0]]
  /\ stream = [f \in Streams |-> 0]
  /\ fds = {}
  /\ held = [k \in Opens |-> {}]
  /\ life = [k \in Opens |-> "unborn"]
  /\ mode = [k \in Opens |-> "r"]
  /\ endless = [k \in Opens |-> FALSE]
  /\ opened = 0
  /\ pc = "idle"
  /\ pid = 0
  /\ cut = {}

-----------------------------------------------------------------------------
\* Both loops over proc_table stop at the first slot that matches.
FirstSlot(i, f) == table[i].fp = f /\ \A j \in 1..(i - 1) : table[j].fp # f

Full == \A i \in Slots : table[i].fp # Null

\* Mutant: takes the last slot, used or not.
regist_process_last(i, f, k) ==
  /\ i = MAX_TABLE /\ ~Full
  /\ table' = [table EXCEPT ![i] = [fp |-> f, pid |-> k]]

regist_process(i, f, k) ==
  /\ FirstSlot(i, Null)
  /\ table' = [table EXCEPT ![i] = [fp |-> f, pid |-> k]]

\* Mutant: the slot stays taken.
remove_process_kept(i, f) ==
  /\ FirstSlot(i, f)
  /\ UNCHANGED table

\* Mutant: the freed slot gets a pid no child has.
remove_process_none(i, f) ==
  /\ FirstSlot(i, f)
  /\ table' = [table EXCEPT ![i] = [fp |-> Null, pid |-> MaxOpens + 1]]

\* The pid stays in the slot it frees.
remove_process(i, f) ==
  /\ FirstSlot(i, f)
  /\ table' = [table EXCEPT ![i].fp = Null]

-----------------------------------------------------------------------------
(* popen.  A failing pipe or fork undoes itself and changes nothing.       *)

PopenFork(m, e) ==
  LET k    == opened + 1
      both == fds \cup {<<k, "read">>, <<k, "write">>}
  IN /\ pc = "idle" /\ opened < MaxOpens
     /\ e \/ m \in EndsItself
     /\ opened' = k
     /\ mode' = [mode EXCEPT ![k] = m]
     /\ endless' = [endless EXCEPT ![k] = e]
     /\ fds' = both
     /\ held' = [held EXCEPT ![k] = both]
     /\ life' = [life EXCEPT ![k] = "forked"]
     /\ pc' = "popen"
     /\ UNCHANGED <<table, stream, pid, cut>>

\* Mutant: the child keeps the caller's end of its own pipe.
ChildExec_open(k) ==
  /\ life[k] = "forked"
  /\ life' = [life EXCEPT ![k] = "running"]
  /\ UNCHANGED <<table, stream, fds, held, mode, endless, opened, pc, pid, cut>>

\* The child closes the caller's end of its own pipe, and of no other.
ChildExec(k) ==
  /\ life[k] = "forked"
  /\ life' = [life EXCEPT ![k] = "running"]
  /\ held' = [held EXCEPT ![k] = @ \ {<<k, parent_end(k)>>}]
  /\ UNCHANGED <<table, stream, fds, mode, endless, opened, pc, pid, cut>>

\* The caller's branch, when fdopen gives a stream and the table has room.
PopenRegister(f) ==
  /\ pc = "popen" /\ stream[f] = 0
  /\ \E i \in Slots : regist_process(i, f, opened)
  /\ stream' = [stream EXCEPT ![f] = opened]
  /\ fds' = fds \ {<<opened, child_end(opened)>>}
  /\ pc' = "idle"
  /\ UNCHANGED <<held, life, mode, endless, opened, pid, cut>>

\* Mutant: a full table is reported without closing the stream.
PopenFull_leak ==
  /\ pc = "popen" /\ Full
  /\ fds' = fds \ {<<opened, child_end(opened)>>}
  /\ pc' = "collect"
  /\ pid' = opened
  /\ UNCHANGED <<table, stream, held, life, mode, endless, opened, cut>>

\* The table is full: fclose, and waitpid collects the child.
PopenFull ==
  /\ pc = "popen" /\ Full
  /\ fds' = fds \ {<<opened, "read">>, <<opened, "write">>}
  /\ pc' = "collect"
  /\ pid' = opened
  /\ UNCHANGED <<table, stream, held, life, mode, endless, opened, cut>>

CutShort(k) == Cardinality(cut) < MaxFailures /\ cut' = cut \cup {k}

\* close of the child's end fails (close releases the descriptor even so), or
\* fdopen does: the other end is closed, popen returns NULL, the child is forgotten.
PopenFails ==
  /\ pc = "popen"
  /\ fds' = fds \ {<<opened, "read">>, <<opened, "write">>}
  /\ pc' = "idle"
  /\ CutShort(opened)
  /\ UNCHANGED <<table, stream, held, life, mode, endless, opened, pid>>

\* What waitpid and wait4 do: collect the child, or fail if another wait has.
Collected ==
  \/ life[pid] = "zombie" /\ life' = [life EXCEPT ![pid] = "reaped"]
  \/ life[pid] = "reaped" /\ UNCHANGED life

\* popen's waitpid, called once: a signal handler may interrupt it while the child
\* runs, and popen returns NULL all the same.
waitpid ==
  /\ pc = "collect"
  /\ \/ Collected /\ UNCHANGED cut
     \/ life[pid] \in {"forked", "running"} /\ CutShort(pid) /\ UNCHANGED life
  /\ pc' = "idle" /\ pid' = 0
  /\ UNCHANGED <<table, stream, fds, held, mode, endless, opened>>

-----------------------------------------------------------------------------
(* pclose of an open stream.  Of any other it returns -1 and changes       *)
(* nothing, unless it is the null pointer, which no caller may pass.       *)

\* fclose gives stream and descriptor back also when it fails to write out what was
\* left.
Closing(f) ==
  /\ pc = "idle" /\ stream[f] # 0
  /\ stream' = [stream EXCEPT ![f] = 0]
  /\ fds' = fds \ {<<stream[f], parent_end(stream[f])>>}
  /\ UNCHANGED <<held, life, mode, endless, opened>>

Pclose(f) ==
  /\ Closing(f)
  /\ \E i \in Slots : remove_process(i, f) /\ pid' = table[i].pid
  /\ pc' = "wait"
  /\ UNCHANGED cut

\* fclose fails: pclose returns -1 without waiting.
PcloseFails(f) ==
  /\ Closing(f)
  /\ \E i \in Slots : remove_process(i, f) /\ CutShort(table[i].pid)
  /\ UNCHANGED <<pc, pid>>

\* Mutant: waits for whatever child ends, as wait(2) would.
wait4_any ==
  /\ pc = "wait"
  /\ \E k \in Opens : life[k] = "zombie" /\ life' = [life EXCEPT ![k] = "reaped"]
  /\ pc' = "idle" /\ pid' = 0
  /\ UNCHANGED <<table, stream, fds, held, mode, endless, opened, cut>>

\* pclose's wait4, repeated when a signal interrupts it.
wait4 ==
  /\ pc = "wait" /\ Collected
  /\ pc' = "idle" /\ pid' = 0
  /\ UNCHANGED <<table, stream, fds, held, mode, endless, opened, cut>>

\* A wait elsewhere in the program, a SIGCHLD handler's say, takes any child.
OtherWait(k) ==
  /\ k \in WaitedElsewhere /\ life[k] = "zombie"
  /\ life' = [life EXCEPT ![k] = "reaped"]
  /\ UNCHANGED <<table, stream, fds, held, mode, endless, opened, pc, pid, cut>>

-----------------------------------------------------------------------------
(* The command, as the caller depends on it: one kind ends by itself; the  *)
(* other reads to the end of file or writes until its pipe breaks, which   *)
(* happens when nobody holds the other end any more.                       *)

Released(k) ==
  LET far == <<k, parent_end(k)>>
  IN far \notin fds /\ \A j \in Opens : far \notin held[j]

\* A child that cannot redirect or start the command exits at once.
ChildExit(k) ==
  /\ \/ life[k] = "forked"
     \/ life[k] = "running" /\ (endless[k] => Released(k))
  /\ life' = [life EXCEPT ![k] = "zombie"]
  /\ held' = [held EXCEPT ![k] = {}]
  /\ UNCHANGED <<table, stream, fds, mode, endless, opened, pc, pid, cut>>

CallerStep ==
  \/ \E f \in Streams : PopenRegister(f)
  \/ PopenFull \/ PopenFails \/ waitpid \/ wait4

ChildStep(k) == ChildExec(k) \/ ChildExit(k)

Next ==
  \/ \E m \in Modes, e \in BOOLEAN : PopenFork(m, e)
  \/ \E f \in Streams : Pclose(f) \/ PcloseFails(f)
  \/ CallerStep
  \/ \E k \in Opens : ChildStep(k) \/ OtherWait(k)

Spec == Init /\ [][Next]_vars

\* A call that started goes on, a command that can end does; nobody has to
\* call popen or pclose.
FairSpec == Spec /\ WF_vars(CallerStep) /\ \A k \in Opens : WF_vars(ChildStep(k))

-----------------------------------------------------------------------------
(* Properties.                                                             *)

\* proc_table and the open streams describe each other: a slot in use names an
\* open stream and the child behind it, no stream has two slots, every open
\* stream has one.  Freed slots and reused FILE pointers must not break this.
TableExact ==
  /\ \A i \in Slots : table[i].fp # Null =>
       table[i].pid # 0 /\ stream[table[i].fp] = table[i].pid
  /\ \A i, j \in Slots : table[i].fp = table[j].fp /\ table[i].fp # Null => i = j
  /\ \A f \in Streams : stream[f] # 0 => \E i \in Slots : table[i].fp = f
  /\ \A f, g \in Streams : stream[f] = stream[g] /\ stream[f] # 0 => f = g

\* pclose waits for the child of the stream it was given, and for no other,
\* whatever other children ended in the meantime (11.08.md:6).
PcloseWaitsForOwn ==
  [][\A f \in Streams : pc = "idle" /\ pc' = "wait" /\ stream[f] # stream'[f]
       => pid' = stream[f]]_vars

OpenStreams == {f \in Streams : stream[f] # 0}
CallersEnds == {<<stream[f], parent_end(stream[f])>> : f \in OpenStreams}
\* When no call is under way the caller holds one descriptor for each open
\* stream: every way out of popen and pclose closed the others.
NoDescriptorLeak == pc = "idle" => fds = CallersEnds

\* When no call is under way every child not yet waited for can still be
\* reached through the table, unless its call failed in one of four places: close or
\* fdopen in popen, fclose in pclose, and popen's waitpid interrupted.  No call that
\* succeeded, and none that found the table full, forgot anybody, in whatever order
\* the streams were closed and whichever children ended.
NoLostChild ==
  pc = "idle" => \A k \in Opens \ cut :
    life[k] \notin {"unborn", "reaped"} => \E i \in Slots : table[i].fp # Null /\ table[i].pid = k

\* Another child inherited the caller's end of pipe k and has it still.
Inherited(k) == \E j \in Opens \ {k} : <<k, parent_end(k)>> \in held[j]

\* 11.08.md:157 to 159: pclose waits for the end of the process and returns its
\* status, whatever else the caller has open.
PcloseAlwaysReturns == pc = "wait" ~> pc = "idle"

\* Both calls return: pclose if no younger child holds the caller's end of the pipe,
\* for the command it waits for learns that its pipe was closed; popen even when the
\* table is full, for the child it collects is the youngest, whose pipe nobody
\* inherited.
CallsReturn ==
  /\ pc = "wait" /\ ~Inherited(pid) ~> pc = "idle"
  /\ pc = "collect" ~> pc = "idle"
=============================================================================
