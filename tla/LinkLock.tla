------------------------------ MODULE LinkLock ------------------------------
(***************************************************************************)
(* A lock on /etc/passwd made with link(2), as two programs use it:        *)
(* addtext (exercise 5.24) waits until it can make the link, lockpasswd2   *)
(* (exercise 5.25) also removes a link that looks abandoned and touches    *)
(* its own with a timer so that it does not.                               *)
(*                                                                         *)
(* The link is another name of the file, so stat and utime on the link     *)
(* read and set the modification time of the file: making the link leaves  *)
(* it as it was.  Times are ages in seconds, which stop counting one past  *)
(* Seconds, the only value they are compared with.                         *)
(***************************************************************************)
EXTENDS Naturals

CONSTANTS
  Adders,    \* processes that run addtext
  Breakers,  \* processes that run lockpasswd2
  Denied,    \* processes without permission in the directory
  NoProc,
  Seconds    \* argument of lock_passwd and of start_timer

Procs == Adders \cup Breakers

ASSUME ProcsAssumption ==
  /\ Adders \cap Breakers = {}
  /\ Denied \subseteq Procs
  /\ NoProc \notin Procs
ASSUME SecondsAssumption == Seconds \in Nat \ {0}

VARIABLES
  pc,      \* where each process is
  owner,   \* the process whose link is there, or NoProc when there is none
  age,     \* seconds since the file was modified
  seen,    \* st.st_mtime of a process between stat and time, as an age too
  timer,   \* seconds to the next SIGALRM, or 0 when no timer runs
  alarm,   \* the processes with a SIGALRM that its handler has not run for
  warmed,  \* history: the processes whose handler ran while they held the lock
  slipped  \* history: somebody entered without a link, or lost a link it needed

vars == <<pc, owner, age, seen, timer, alarm, warmed, slipped>>

Old  == Seconds + 1
Ages == 0..Old

Pcs == {"off", "link", "stat", "judge", "unlink", "timer", "inside", "unlock",
        "done", "failed", "killed"}
Within == {"timer", "inside", "unlock"}

TypeOK ==
  /\ pc \in [Procs -> Pcs]
  /\ owner \in Procs \cup {NoProc}
  /\ age \in Ages
  /\ seen \in [Procs -> Ages]
  /\ timer \in [Procs -> 0..Seconds]
  /\ alarm \in SUBSET Procs
  /\ warmed \in SUBSET Procs
  /\ slipped \in BOOLEAN

\* The file may have been modified at any time before.
Init ==
  /\ pc = [p \in Procs |-> "off"]
  /\ owner = NoProc
  /\ age \in Ages
  /\ seen = [p \in Procs |-> 0]
  /\ timer = [p \in Procs |-> 0]
  /\ alarm = {}
  /\ warmed = {}
  /\ slipped = FALSE

Goto(p, label) == pc' = [pc EXCEPT ![p] = label]

\* Somebody starts the program.
Start(p) ==
  /\ pc[p] = "off"
  /\ Goto(p, "link")
  /\ UNCHANGED <<owner, age, seen, timer, alarm, warmed, slipped>>

\* Mutant: open with O_CREAT and without O_EXCL instead of link.
Link_shared(p) ==
  /\ pc[p] = "link" /\ p \notin Denied
  /\ owner' = p
  /\ Goto(p, IF p \in Breakers THEN "timer" ELSE "inside")
  /\ UNCHANGED <<age, seen, timer, alarm, warmed, slipped>>

\* The link is made.
Link(p) ==
  /\ pc[p] = "link" /\ p \notin Denied
  /\ owner = NoProc
  /\ owner' = p
  /\ Goto(p, IF p \in Breakers THEN "timer" ELSE "inside")
  /\ UNCHANGED <<age, seen, timer, alarm, warmed, slipped>>

\* EEXIST, which comes before any look at permissions.  addtext sleeps and tries
\* again, which changes nothing.
LinkExists(p) ==
  /\ pc[p] = "link" /\ p \in Breakers
  /\ owner # NoProc
  /\ Goto(p, "stat")
  /\ UNCHANGED <<owner, age, seen, timer, alarm, warmed, slipped>>

\* Any other error: lock_passwd returns 2, which main does not look at.
\* addtext tries again without end.
LinkDenied(p) ==
  /\ pc[p] = "link" /\ p \in Breakers \cap Denied
  /\ owner = NoProc
  /\ Goto(p, "timer")
  /\ slipped' = TRUE
  /\ UNCHANGED <<owner, age, seen, timer, alarm, warmed>>

Stat(p) ==
  /\ pc[p] = "stat" /\ owner # NoProc
  /\ seen' = [seen EXCEPT ![p] = age]
  /\ Goto(p, "judge")
  /\ UNCHANGED <<owner, age, timer, alarm, warmed, slipped>>

\* The link is gone again: lock_passwd returns 1, and main does not look.
StatFails(p) ==
  /\ pc[p] = "stat" /\ owner = NoProc
  /\ Goto(p, "timer")
  /\ slipped' = TRUE
  /\ UNCHANGED <<owner, age, seen, timer, alarm, warmed>>

\* Mutant: the difference of the times taken the wrong way round.
Judge_reversed(p) ==
  /\ pc[p] = "judge"
  /\ Goto(p, IF seen[p] > Old THEN "unlink" ELSE "link")
  /\ seen' = [seen EXCEPT ![p] = 0]
  /\ UNCHANGED <<owner, age, timer, alarm, warmed, slipped>>

Judge(p) ==
  /\ pc[p] = "judge"
  /\ Goto(p, IF seen[p] > Seconds THEN "unlink" ELSE "link")
  /\ seen' = [seen EXCEPT ![p] = 0]
  /\ UNCHANGED <<owner, age, timer, alarm, warmed, slipped>>

\* unlink, whoever's link it is by now.
Break(p) ==
  /\ pc[p] = "unlink"
  /\ owner' = IF p \in Denied THEN owner ELSE NoProc
  /\ slipped' = (slipped \/ (owner' # owner /\ pc[owner] \in Within))
  /\ Goto(p, "link")
  /\ UNCHANGED <<age, seen, timer, alarm, warmed>>

StartTimerWith(p, interval) ==
  /\ pc[p] = "timer"
  /\ timer' = [timer EXCEPT ![p] = IF p \in Denied THEN 0 ELSE interval]
  /\ Goto(p, "inside")
  /\ UNCHANGED <<owner, age, seen, alarm, warmed, slipped>>

\* Mutant: the interval one second too long.
StartTimer_longer(p) == StartTimerWith(p, Seconds + 1)

\* The timer of a process without permission is left out: its utime fails.
StartTimer(p) == StartTimerWith(p, Seconds)

\* What the process does with the file when its input has come.  addtext
\* appends a line; lockpasswd2 leaves the file alone.
Work(p) ==
  /\ pc[p] = "inside"
  /\ age' = IF p \in Adders THEN 0 ELSE age
  /\ Goto(p, "unlock")
  /\ UNCHANGED <<owner, seen, timer, alarm, warmed, slipped>>

\* The kernel drops the timer and the signals of a process that ends.
Leave(p, label) ==
  /\ Goto(p, label)
  /\ timer' = [timer EXCEPT ![p] = 0]
  /\ alarm' = alarm \ {p}
  /\ warmed' = warmed \ {p}

\* unlink, whoever's link it is; lockpasswd2 exits with 1 when there is none.
Unlock(p) ==
  /\ pc[p] = "unlock"
  /\ owner' = IF p \in Denied THEN owner ELSE NoProc
  /\ Leave(p, IF p \in Breakers /\ (p \in Denied \/ owner = NoProc) THEN "failed" ELSE "done")
  /\ UNCHANGED <<age, seen, slipped>>

\* Control-C or an error ends the process; a link of its own stays behind.
Kill(p) ==
  /\ pc[p] \notin {"off", "done", "failed", "killed"}
  /\ Leave(p, "killed")
  /\ seen' = [seen EXCEPT ![p] = 0]
  /\ UNCHANGED <<owner, age, slipped>>

-----------------------------------------------------------------------------
(* The clock, the timers and the handler, which runs when its process gets  *)
(* to run: in the second its signal is due, or any number of seconds later. *)

Due(p) == timer[p] = 1

Older(a) == IF a = Old THEN Old ELSE a + 1

SecondWith(reload) ==
  /\ age' = Older(age)
  /\ seen' = [p \in Procs |-> IF pc[p] = "judge" THEN Older(seen[p]) ELSE 0]
  /\ timer' = [p \in Procs |->
       IF timer[p] = 0 THEN 0 ELSE IF Due(p) THEN reload ELSE timer[p] - 1]
  /\ alarm' = alarm \cup {p \in Procs : Due(p)}
  /\ UNCHANGED <<pc, owner, warmed, slipped>>

\* Mutant: it_interval is zero, so the timer fires once.
Second_once == SecondWith(0)

\* A second passes.  Timers that are due send SIGALRM, which is pending at most
\* once, and start again.
Second == SecondWith(Seconds)

\* The handler: utime sets the time of the file if the link is there.
UpdateLocktime(p) ==
  /\ p \in alarm
  /\ alarm' = alarm \ {p}
  /\ age' = IF owner # NoProc THEN 0 ELSE age
  /\ warmed' = IF owner = p THEN warmed \cup {p} ELSE warmed
  /\ UNCHANGED <<pc, owner, seen, timer, slipped>>

Step(p) ==
  \/ Link(p) \/ LinkExists(p) \/ LinkDenied(p) \/ Stat(p) \/ StatFails(p)
  \/ Judge(p) \/ Break(p) \/ StartTimer(p) \/ Work(p) \/ Unlock(p)

Next ==
  \/ \E p \in Procs : Start(p) \/ Step(p) \/ UpdateLocktime(p) \/ Kill(p)
  \/ Second

Spec == Init /\ [][Next]_vars

\* Processes run, input comes, time passes.  Nobody has to start or to be
\* killed, and a handler may be late for ever.
FairSpec == Spec /\ WF_vars(Second) /\ \A p \in Procs : WF_vars(Step(p))

-----------------------------------------------------------------------------
\* As long as nobody took the lock for abandoned, and nobody went on without
\* it because stat found it gone or link was not allowed, at most one process
\* is between its lock and its unlock, the one whose link is there; a link
\* that nobody is behind was left by a process that was killed.
MutualExclusion ==
  ~slipped =>
    /\ \A p, q \in Procs : pc[p] \in Within /\ pc[q] \in Within => p = q
    /\ \A p \in Procs : pc[p] \in Within => owner = p
    /\ owner # NoProc => pc[owner] \in Within \cup {"killed"}

\* Once its handler has run, the lock of a process that runs looks old only while
\* another SIGALRM waits for that handler: a timer whose period is the interval
\* itself is enough for everybody who is in time, however late it was before,
\* and for nobody else.
StaysWarm ==
  \A p \in warmed : owner = p => age <= Seconds \/ p \in alarm

\* Whoever wants the lock gets it, whatever the order of the others: lockpasswd2 even
\* that of a process that was killed (unless it is killed itself), addtext while
\* nobody has been.
WaitersGetIn ==
  /\ \A p \in Breakers \ Denied : pc[p] = "link" ~> pc[p] \in {"inside", "killed"}
  /\ \A p \in Adders \ Denied :
       pc[p] = "link" ~> pc[p] # "link" \/ \E q \in Procs : pc[q] = "killed"

\* 5.25.md: a lock older than the interval is one of a process that crashed, so
\* it may be removed.
OnlyCrashedAreBroken ==
  [][\A p \in Procs : owner = p /\ pc[p] \in Within /\ owner' # p => pc'[p] # pc[p]]_vars
=============================================================================
