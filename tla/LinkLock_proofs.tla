--------------------------- MODULE LinkLock_proofs ---------------------------
(***************************************************************************)
(* Proofs about LinkLock, for any number of processes of each kind and any *)
(* interval: type correctness, and mutual exclusion until somebody slips   *)
(* past the lock.                                                          *)
(***************************************************************************)
EXTENDS LinkLock, TLAPS

\* Who is past the lock alone has a timer. While no signal of it waits for its
\* handler, the file is at most Seconds old when it is due again.
Warmth ==
  /\ \A p \in Procs : timer[p] # 0 => pc[p] \in {"inside", "unlock"}
  /\ \A p \in alarm \cup warmed : timer[p] # 0
  /\ \A p \in warmed \ alarm : owner = p => age + timer[p] <= Seconds

\* The lock is only ever made by who is allowed to, so its maker can remove it.
IInv == TypeOK /\ MutualExclusion /\ owner \notin Denied /\ Warmth

LEMMA Bounds == 0 \in Ages /\ 0 \in 0..Seconds /\ Seconds \in 0..Seconds
  BY SecondsAssumption DEF Ages, Old

LEMMA InitIInv == Init => IInv
<1> SUFFICES ASSUME Init PROVE IInv
  OBVIOUS
<1> USE ProcsAssumption, Bounds DEF Init
<1>1. TypeOK
  BY DEF TypeOK, Pcs
<1>2. MutualExclusion /\ owner \notin Denied /\ Warmth
  BY DEF MutualExclusion, Within, Warmth
<1> QED BY <1>1, <1>2 DEF IInv

LEMMA LinkStep ==
  ASSUME IInv, NEW p \in Procs, Link(p)
  PROVE  IInv'
<1> USE ProcsAssumption, Bounds DEF IInv, Link, Goto
<1>1. TypeOK'
  BY DEF TypeOK, Pcs
<1>2. owner' \notin Denied
  OBVIOUS
<1>3. MutualExclusion'
  BY DEF TypeOK, MutualExclusion, Within
<1>4. Warmth'
  BY SecondsAssumption DEF TypeOK, Warmth, Ages, Old
<1> QED BY <1>1, <1>2, <1>3, <1>4

\* The steps that leave the lock alone: who goes on without it has slipped.
LEMMA OutsideStep ==
  ASSUME IInv, NEW p \in Procs,
         \/ Start(p) \/ LinkExists(p) \/ LinkDenied(p) \/ Stat(p)
         \/ StatFails(p) \/ Judge(p)
  PROVE  IInv'
<1> USE ProcsAssumption, Bounds
    DEF IInv, Start, LinkExists, LinkDenied, Stat, StatFails, Judge, Goto
<1>1. TypeOK'
  <2>1. CASE Start(p) \/ LinkExists(p) \/ LinkDenied(p) \/ StatFails(p)
    BY <2>1 DEF TypeOK, Pcs
  <2>2. CASE Stat(p)
    BY <2>2 DEF TypeOK, Pcs
  <2>3. CASE Judge(p)
    BY <2>3 DEF TypeOK, Pcs
  <2> QED BY <2>1, <2>2, <2>3
<1>2. owner' \notin Denied
  OBVIOUS
<1>3. MutualExclusion'
  BY DEF TypeOK, MutualExclusion, Within
<1>4. Warmth'
  BY SecondsAssumption DEF TypeOK, Warmth, Ages, Old
<1> QED BY <1>1, <1>2, <1>3, <1>4

\* A broken lock was nobody's any more, or the process that breaks it slips.
LEMMA BreakStep ==
  ASSUME IInv, NEW p \in Procs, Break(p)
  PROVE  IInv'
<1> USE ProcsAssumption, Bounds DEF IInv, Break, Goto
<1>1. TypeOK'
  BY DEF TypeOK, Pcs
<1>2. owner' \notin Denied
  BY DEF TypeOK
<1>3. MutualExclusion'
  <2>1. CASE owner' = owner
    BY <2>1 DEF TypeOK, MutualExclusion, Within
  <2>2. CASE owner' # owner
    BY <2>2 DEF TypeOK, MutualExclusion, Within
  <2> QED BY <2>1, <2>2
<1>4. Warmth'
  BY SecondsAssumption DEF TypeOK, Warmth, Ages, Old
<1> QED BY <1>1, <1>2, <1>3, <1>4

\* Inside the lock nobody else is, so what is unlocked is the process's own.
LEMMA InsideStep ==
  ASSUME IInv, NEW p \in Procs, StartTimer(p) \/ Work(p) \/ Unlock(p) \/ Kill(p)
  PROVE  IInv'
<1> USE ProcsAssumption, Bounds
    DEF IInv, StartTimer, StartTimerWith, Work, Unlock, Kill, Leave, Goto
<1>1. TypeOK'
  BY DEF TypeOK, Pcs
<1>2. owner' \notin Denied
  BY DEF TypeOK
<1>3. MutualExclusion'
  <2>1. CASE StartTimer(p) \/ Work(p)
    BY <2>1 DEF TypeOK, MutualExclusion, Within
  <2>2. CASE Unlock(p)
    BY <2>2 DEF TypeOK, MutualExclusion, Within
  <2>3. CASE Kill(p)
    BY <2>3 DEF TypeOK, MutualExclusion, Within
  <2> QED BY <2>1, <2>2, <2>3
<1>4. Warmth'
  BY SecondsAssumption DEF TypeOK, Warmth, Ages, Old
<1> QED BY <1>1, <1>2, <1>3, <1>4

\* A second takes one from a timer and adds at most one to the age; a timer
\* that is due leaves its signal pending.
LEMMA SecondStep ==
  ASSUME IInv, Second
  PROVE  IInv'
<1> USE ProcsAssumption, SecondsAssumption, Bounds DEF IInv, Second, SecondWith
<1>1. \A a \in Ages : Older(a) \in Ages /\ Older(a) <= a + 1
  BY DEF Ages, Older, Old
<1>2. age' \in Ages /\ seen' \in [Procs -> Ages]
  BY <1>1 DEF TypeOK
<1>3. timer' \in [Procs -> 0..Seconds]
  BY DEF TypeOK, Due
<1>4. TypeOK'
  BY <1>2, <1>3 DEF TypeOK
<1>5. MutualExclusion' /\ owner' \notin Denied
  BY DEF MutualExclusion
<1>6. Warmth'
  <2>1. \A p \in Procs : timer'[p] # 0 => pc'[p] \in {"inside", "unlock"}
    BY DEF TypeOK, Warmth
  <2>2. \A p \in Procs : timer[p] # 0 => timer'[p] # 0
    BY DEF TypeOK, Due
  <2>3. \A p \in alarm' \cup warmed' : timer'[p] # 0
    BY <2>2 DEF TypeOK, Warmth, Due
  <2>4. ASSUME NEW p \in warmed' \ alarm', owner' = p
        PROVE  age' + timer'[p] <= Seconds
    <3>1. p \in Procs /\ timer[p] \in 1..Seconds /\ timer[p] # 1
      BY <2>4 DEF TypeOK, Warmth, Due
    <3>2. timer'[p] = timer[p] - 1
      BY <3>1 DEF Due
    <3>3. age \in Nat /\ age' \in Nat /\ age' <= age + 1
      BY <1>1, <1>2 DEF TypeOK, Ages, Old
    <3>4. age + timer[p] <= Seconds
      BY <2>4 DEF Warmth
    <3> QED BY <3>1, <3>2, <3>3, <3>4
  <2> QED BY <2>1, <2>3, <2>4 DEF Warmth
<1> QED BY <1>4, <1>5, <1>6

\* The handler makes the file young, whoever's link is there by then.
LEMMA HandlerStep ==
  ASSUME IInv, NEW p \in Procs, UpdateLocktime(p)
  PROVE  IInv'
<1> USE ProcsAssumption, Bounds DEF IInv, UpdateLocktime
<1>1. TypeOK'
  BY DEF TypeOK
<1>2. MutualExclusion' /\ owner' \notin Denied
  BY DEF MutualExclusion
<1>3. Warmth'
  <2>1. ASSUME NEW q \in warmed' \ alarm', owner' = q
        PROVE  age' + timer'[q] <= Seconds
    BY <2>1, SecondsAssumption DEF TypeOK
  <2>2. \A q \in alarm' \cup warmed' : timer'[q] # 0
    BY DEF Warmth
  <2> QED BY <2>1, <2>2 DEF Warmth
<1> QED BY <1>1, <1>2, <1>3

LEMMA Inductive == Spec => []IInv
<1>1. IInv /\ [Next]_vars => IInv'
  <2> SUFFICES ASSUME IInv, [Next]_vars PROVE IInv'
    OBVIOUS
  <2>1. ASSUME NEW p \in Procs, Start(p) \/ Step(p) \/ UpdateLocktime(p) \/ Kill(p)
        PROVE  IInv'
    BY <2>1, LinkStep, OutsideStep, BreakStep, InsideStep, HandlerStep DEF Step
  <2>2. CASE Second
    BY <2>2, SecondStep
  <2>3. CASE UNCHANGED vars
    BY <2>3 DEF vars, IInv, TypeOK, MutualExclusion, Warmth
  <2> QED BY <2>1, <2>2, <2>3 DEF Next
<1> QED BY InitIInv, <1>1, PTL DEF Spec

-----------------------------------------------------------------------------
\* Every variable keeps its type: timers never run past the interval.
THEOREM TypeCorrect == Spec => []TypeOK
<1>1. IInv => TypeOK
  BY DEF IInv
<1> QED BY <1>1, Inductive, PTL

\* Between lock_passwd and unlock_passwd of one process there is no other, from
\* the start until some process takes a live lock for an abandoned one or goes
\* on without a lock, crashes and recoveries included.
THEOREM OneInside == Spec => []MutualExclusion
<1>1. IInv => MutualExclusion
  BY DEF IInv
<1> QED BY <1>1, Inductive, PTL

\* Once its handler (update_locktime) has run, the lock of a process that runs looks
\* old to others only while a further SIGALRM waits for that handler. So the timer's
\* period is right as long as handlers run in the second they are due, and lateness
\* does not add up; a handler that is late by more leaves the lock open to be broken.
THEOREM LockStaysWarm == Spec => []StaysWarm
<1>1. IInv => StaysWarm
  <2> SUFFICES ASSUME IInv, NEW p \in warmed \ alarm, owner = p
               PROVE  age <= Seconds
    BY DEF StaysWarm
  <2>1. age \in Nat /\ timer[p] \in Nat /\ age + timer[p] <= Seconds
    BY SecondsAssumption DEF IInv, TypeOK, Warmth, Ages, Old
  <2> QED BY <2>1, SecondsAssumption
<1> QED BY <1>1, Inductive, PTL

\* Whose link is there.
OwnerIsThere == owner # NoProc => pc[owner] \in Within \cup {"killed"}

\* Whatever process slipped past the lock, and whoever's link was removed by
\* whom: a link that keeps others out is one of a process that is inside or was
\* killed. Who leaves by unlock_passwd leaves none behind, although it does not
\* look whose link it removes, so addtext waits for nobody who is done.
THEOREM NoLinkLeftBehind == Spec => []OwnerIsThere
<1>1. Init => OwnerIsThere
  BY DEF Init, OwnerIsThere
<1>2. IInv /\ OwnerIsThere /\ [Next]_vars => OwnerIsThere'
  <2> SUFFICES ASSUME IInv, OwnerIsThere, [Next]_vars, owner' # NoProc
               PROVE  pc'[owner'] \in Within \cup {"killed"}
    BY DEF OwnerIsThere
  <2> USE ProcsAssumption DEF IInv, TypeOK, OwnerIsThere, Within, Goto
  <2>1. ASSUME NEW p \in Procs, Start(p) \/ LinkExists(p) \/ LinkDenied(p) \/ Stat(p) \/ StatFails(p) \/ Judge(p)
        PROVE  pc'[owner'] \in Within \cup {"killed"}
    BY <2>1 DEF Start, LinkExists, LinkDenied, Stat, StatFails, Judge
  <2>2. ASSUME NEW p \in Procs, Link(p) \/ Break(p)
        PROVE  pc'[owner'] \in Within \cup {"killed"}
    BY <2>2 DEF Link, Break
  <2>3. ASSUME NEW p \in Procs, StartTimer(p) \/ Work(p) \/ Kill(p) \/ Unlock(p)
        PROVE  pc'[owner'] \in Within \cup {"killed"}
    BY <2>3 DEF StartTimer, StartTimerWith, Work, Kill, Unlock, Leave
  <2>4. CASE Second \/ (\E p \in Procs : UpdateLocktime(p)) \/ UNCHANGED vars
    BY <2>4 DEF Second, SecondWith, UpdateLocktime, vars
  <2> QED
    BY <2>1, <2>2, <2>3, <2>4 DEF Next, Step
<1> QED BY <1>1, <1>2, Inductive, PTL DEF Spec
=============================================================================
