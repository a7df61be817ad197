------------------------- MODULE PopenTable_proofs -------------------------
(***************************************************************************)
(* Proofs about PopenTable for every number of streams, slots and calls:   *)
(* the table is exact, pclose waits for its own child, no call leaks a     *)
(* descriptor, a child is lost only by a call that a failing system call    *)
(* cut short, and only inherited descriptors can hold up a call.           *)
(***************************************************************************)
EXTENDS PopenTable, TLAPS

USE DEF Opens, Slots, Ends, Modes

\* Between fork and the registration the new child stands behind no stream and
\* the caller holds both ends of its pipe; at all other times it holds what the
\* open streams need.
CallShape ==
  /\ \A f \in Streams : stream[f] <= opened
  /\ pc = "popen" => opened > 0 /\ \A f \in Streams : stream[f] < opened
  /\ pc \in {"wait", "collect"} => pid \in Opens
  /\ fds = CallersEnds \cup
       (IF pc = "popen" THEN {<<opened, "read">>, <<opened, "write">>} ELSE {})

IInv == TypeOK /\ TableExact /\ CallShape

-----------------------------------------------------------------------------
\* A descriptor the caller needs stays what it is while the mode of the popens
\* behind the open streams does.
LEMMA SameEnds ==
  ASSUME TypeOK, stream' = stream,
         \A f \in Streams : stream[f] # 0 => mode'[stream[f]] = mode[stream[f]]
  PROVE  CallersEnds' = CallersEnds
  BY DEF CallersEnds, OpenStreams, parent_end

\* Registering a stream adds its end, closing it removes that end.
LEMMA EndsAfterRegister ==
  ASSUME TypeOK, NEW f \in Streams, stream[f] = 0, opened > 0, mode' = mode,
         stream' = [stream EXCEPT ![f] = opened]
  PROVE  CallersEnds' = CallersEnds \cup {<<opened, parent_end(opened)>>}
  BY DEF TypeOK, CallersEnds, OpenStreams, parent_end

LEMMA EndsAfterClose ==
  ASSUME TypeOK, TableExact, NEW f \in Streams, stream[f] # 0, mode' = mode,
         stream' = [stream EXCEPT ![f] = 0]
  PROVE  CallersEnds' = CallersEnds \ {<<stream[f], parent_end(stream[f])>>}
  <1>1. OpenStreams' = OpenStreams \ {f}
    BY DEF TypeOK, OpenStreams
  <1>2. \A g \in OpenStreams' :
          /\ stream'[g] = stream[g] /\ stream[g] # stream[f]
          /\ parent_end(stream[g])' = parent_end(stream[g])
    BY <1>1 DEF TypeOK, TableExact, OpenStreams, parent_end
  <1> QED
    BY <1>1, <1>2 DEF CallersEnds, OpenStreams

-----------------------------------------------------------------------------
LEMMA InitIInv == Init => IInv
  <1> SUFFICES ASSUME Init PROVE IInv
    OBVIOUS
  <1>1. TypeOK
    BY TableAssumption DEF Init, TypeOK
  <1>2. TableExact
    BY DEF Init, TableExact
  <1>3. CallShape
    BY DEF Init, CallShape, CallersEnds, OpenStreams
  <1> QED
    BY <1>1, <1>2, <1>3 DEF IInv

\* A wait that returns collected its child, found that another wait of the program had,
\* or was interrupted and forgets it.
WaitReturn ==
  /\ pc \in {"wait", "collect"} /\ pc' = "idle" /\ pid' = 0
  /\ UNCHANGED <<table, stream, fds, held, mode, endless, opened>>
  /\ \/ life[pid] = "zombie" /\ life' = [life EXCEPT ![pid] = "reaped"] /\ cut' = cut
     \/ life[pid] = "reaped" /\ life' = life /\ cut' = cut
     \/ life' = life /\ cut' = cut \cup {pid}

LEMMA WaitReturns == waitpid \/ wait4 => WaitReturn
  <1>1. wait4 => WaitReturn
    BY DEF wait4, Collected, WaitReturn
  <1>2. waitpid => WaitReturn
    BY DEF waitpid, Collected, CutShort, WaitReturn
  <1> QED
    BY <1>1, <1>2

LEMMA TypeStep == IInv /\ [Next]_vars => TypeOK'
  <1> SUFFICES ASSUME TypeOK, TableExact, CallShape, [Next]_vars PROVE TypeOK'
    BY DEF IInv
  <1> USE TableAssumption DEF TypeOK
  <1>1. ASSUME NEW m \in Modes, NEW e \in BOOLEAN, PopenFork(m, e) PROVE TypeOK'
    BY <1>1 DEF PopenFork
  <1>2. ASSUME NEW f \in Streams, Pclose(f) PROVE TypeOK'
    BY <1>2 DEF Pclose, Closing, remove_process
  <1>3. ASSUME NEW f \in Streams, PopenRegister(f) PROVE TypeOK'
    BY <1>3 DEF PopenRegister, regist_process
  <1>4. CASE PopenFull
    BY <1>4 DEF PopenFull
  <1>5. CASE PopenFails
    <2>1. opened \in Opens
      BY <1>5 DEF PopenFails, CallShape
    <2> QED
      BY <1>5, <2>1 DEF PopenFails, CutShort
  <1>6. CASE waitpid \/ wait4
    <2>1. WaitReturn
      BY <1>6, WaitReturns, Zenon
    <2>2. pid \in Opens
      BY <2>1 DEF WaitReturn, CallShape
    <2> QED
      <3>1. life' \in [Opens -> {"unborn", "forked", "running", "zombie", "reaped"}]
        BY <2>1 DEF WaitReturn
      <3>2. cut' \subseteq Opens
        BY <2>1, <2>2 DEF WaitReturn
      <3>3. /\ UNCHANGED <<table, stream, fds, held, mode, endless, opened>>
            /\ pc' = "idle" /\ pid' = 0
        BY <2>1 DEF WaitReturn
      <3> QED
        BY <3>1, <3>2, <3>3
  <1>7. ASSUME NEW k \in Opens, ChildStep(k) \/ OtherWait(k) PROVE TypeOK'
    <2>1. CASE ChildExec(k)
      BY <2>1 DEF ChildExec
    <2>2. CASE ChildExit(k)
      BY <2>2 DEF ChildExit
    <2>3. CASE OtherWait(k)
      BY <2>3 DEF OtherWait
    <2> QED
      BY <1>7, <2>1, <2>2, <2>3 DEF ChildStep
  <1>8. CASE UNCHANGED vars
    BY <1>8 DEF vars
  <1>9. ASSUME NEW f \in Streams, PcloseFails(f) PROVE TypeOK'
    <2>1. PICK i \in Slots : remove_process(i, f) /\ cut' = cut \cup {table[i].pid}
      BY <1>9 DEF PcloseFails, CutShort
    <2>2. table[i].pid \in Opens
      BY <1>9, <2>1, StreamsAssumption DEF PcloseFails, Closing, remove_process, FirstSlot, TableExact
    <2> QED
      BY <1>9, <2>1, <2>2 DEF PcloseFails, Closing, remove_process
  <1> QED
    BY <1>1, <1>2, <1>3, <1>4, <1>5, <1>6, <1>7, <1>8, <1>9 DEF Next, CallerStep

\* A slot or a stream changes only in PopenRegister and in pclose.
LEMMA TableStep ==
  ASSUME IInv, [Next]_vars
  PROVE  TableExact'
  <1> USE TableAssumption, StreamsAssumption DEF IInv, TypeOK
  <1>1. ASSUME NEW f \in Streams, PopenRegister(f) PROVE TableExact'
    <2> PICK i \in Slots : regist_process(i, f, opened)
      BY <1>1 DEF PopenRegister
    <2>1. /\ table[i].fp = Null
          /\ table' = [table EXCEPT ![i] = [fp |-> f, pid |-> opened]]
          /\ stream[f] = 0 /\ stream' = [stream EXCEPT ![f] = opened]
          /\ opened > 0 /\ \A g \in Streams : stream[g] < opened
      BY <1>1 DEF PopenRegister, regist_process, FirstSlot, CallShape
    <2>2. \A j \in Slots : table[j].fp # f
      BY <2>1, StreamsAssumption DEF TableExact
    <2>3. /\ table'[i] = [fp |-> f, pid |-> opened] /\ f # Null
          /\ \A j \in Slots \ {i} : table'[j] = table[j] /\ table[j].fp # f
          /\ stream'[f] = opened /\ \A g \in Streams \ {f} : stream'[g] = stream[g]
          /\ opened # 0 /\ \A g \in Streams : stream[g] # opened
      BY <2>1, <2>2
    <2>4. TableExact
      OBVIOUS
    <2>5. \A j \in Slots : table'[j].fp # Null =>
            table'[j].pid # 0 /\ stream'[table'[j].fp] = table'[j].pid
      <3> SUFFICES ASSUME NEW j \in Slots, table'[j].fp # Null
                   PROVE  table'[j].pid # 0 /\ stream'[table'[j].fp] = table'[j].pid
        OBVIOUS
      <3>1. CASE j = i
        BY <2>3, <3>1
      <3>2. CASE j # i
        <4>1. table'[j] = table[j] /\ table[j].fp # f
          BY <2>3, <3>2
        <4>2. table[j].fp \in Streams \ {f}
          BY <4>1
        <4> QED
          BY <2>3, <2>4, <4>1, <4>2 DEF TableExact
      <3> QED
        BY <3>1, <3>2
    <2>6. \A j, k \in Slots : table'[j].fp = table'[k].fp /\ table'[j].fp # Null => j = k
      BY <2>3, <2>4 DEF TableExact
    <2>7. \A g \in Streams : stream'[g] # 0 => \E j \in Slots : table'[j].fp = g
      <3> SUFFICES ASSUME NEW g \in Streams, stream'[g] # 0
                   PROVE  \E j \in Slots : table'[j].fp = g
        OBVIOUS
      <3>1. CASE g = f
        BY <2>3, <3>1
      <3>2. CASE g # f
        <4> PICK j \in Slots : table[j].fp = g
          BY <2>3, <2>4, <3>2 DEF TableExact
        <4>1. j # i
          BY <2>1, StreamsAssumption
        <4> QED
          BY <2>3, <4>1
      <3> QED
        BY <3>1, <3>2
    <2>8. \A g, h \in Streams : stream'[g] = stream'[h] /\ stream'[g] # 0 => g = h
      BY <2>3, <2>4 DEF TableExact
    <2> QED
      BY <2>5, <2>6, <2>7, <2>8 DEF TableExact
  <1>2. ASSUME NEW f \in Streams, Pclose(f) \/ PcloseFails(f) PROVE TableExact'
    <2> PICK i \in Slots : remove_process(i, f)
      BY <1>2 DEF Pclose, PcloseFails
    <2>1. /\ table[i].fp = f
          /\ table' = [table EXCEPT ![i].fp = Null]
          /\ stream' = [stream EXCEPT ![f] = 0]
      BY <1>2 DEF Pclose, PcloseFails, Closing, remove_process, FirstSlot
    <2>2. table'[i].fp = Null /\ \A j \in Slots \ {i} : table'[j] = table[j]
      BY <2>1
    <2>3. \A j \in Slots \ {i} : table[j].fp # f
      BY <2>1 DEF TableExact
    <2>4. stream'[f] = 0 /\ \A g \in Streams \ {f} : stream'[g] = stream[g]
      BY <2>1
    <2>5. \A j \in Slots : table'[j].fp # Null => j # i /\ table'[j].fp \in Streams \ {f}
      BY <2>2, <2>3
    <2> QED
      BY <2>1, <2>2, <2>4, <2>5 DEF TableExact
  <1>3. CASE UNCHANGED <<table, stream>>
    BY <1>3 DEF TableExact
  <1>4. ASSUME NEW m \in Modes, NEW e \in BOOLEAN, PopenFork(m, e)
        PROVE  UNCHANGED <<table, stream>>
    BY <1>4 DEF PopenFork
  <1>5. PopenFull \/ PopenFails \/ waitpid \/ wait4 \/ UNCHANGED vars
          => UNCHANGED <<table, stream>>
    BY DEF PopenFull, PopenFails, waitpid, wait4, vars
  <1>6. ASSUME NEW k \in Opens, ChildStep(k) \/ OtherWait(k) PROVE UNCHANGED <<table, stream>>
    BY <1>6 DEF ChildStep, ChildExec, ChildExit, OtherWait
  <1> QED
    BY <1>1, <1>2, <1>3, <1>4, <1>5, <1>6 DEF Next, CallerStep

LEMMA CallStep ==
  ASSUME IInv, [Next]_vars
  PROVE  CallShape'
  <1>1. TypeOK /\ TableExact /\ CallShape
    BY DEF IInv
  <1>2. \A k \in Opens : parent_end(k) \in Ends /\ child_end(k) \in Ends
                         /\ parent_end(k) # child_end(k)
    BY DEF parent_end, child_end
  <1>3. \A f \in Streams : <<opened, child_end(opened)>> # <<stream[f], parent_end(stream[f])>>
    BY <1>1 DEF TypeOK, CallShape, parent_end, child_end
  <1>4. ASSUME NEW m \in Modes, NEW e \in BOOLEAN, PopenFork(m, e) PROVE CallShape'
    <2>1. \A f \in Streams : stream[f] \in Nat /\ stream[f] < opened + 1
      BY <1>1, TableAssumption DEF TypeOK, CallShape
    <2>2. \A f \in Streams : stream[f] # 0 => mode'[stream[f]] = mode[stream[f]]
      BY <1>1, <1>4, <2>1 DEF PopenFork, TypeOK
    <2>3. CallersEnds' = CallersEnds
      BY <1>1, <1>4, <2>2, SameEnds DEF PopenFork
    <2>4. /\ fds = CallersEnds
          /\ fds' = fds \cup {<<opened', "read">>, <<opened', "write">>}
          /\ opened' = opened + 1 /\ opened' > 0 /\ stream' = stream /\ pc' = "popen"
      BY <1>1, <1>4, TableAssumption DEF PopenFork, CallShape, TypeOK
    <2>5. \A f \in Streams : stream'[f] <= opened' /\ stream'[f] < opened'
      BY <2>1, <2>4
    <2> QED
      BY <2>3, <2>4, <2>5 DEF CallShape
  <1>5. ASSUME NEW f \in Streams, PopenRegister(f) PROVE CallShape'
    <2>1. opened > 0 /\ \A g \in Streams : stream[g] < opened
      BY <1>1, <1>5 DEF PopenRegister, CallShape
    <2>2. CallersEnds' = CallersEnds \cup {<<opened, parent_end(opened)>>}
      BY <1>1, <1>5, <2>1, EndsAfterRegister DEF PopenRegister
    <2>3. <<opened, child_end(opened)>> \notin CallersEnds
      BY <1>1, <2>1, TableAssumption DEF CallersEnds, OpenStreams, TypeOK
    <2>4. {parent_end(opened), child_end(opened)} = {"read", "write"}
          /\ parent_end(opened) # child_end(opened)
      BY DEF parent_end, child_end
    <2>5. fds = CallersEnds \cup {<<opened, parent_end(opened)>>, <<opened, child_end(opened)>>}
      BY <1>1, <1>5, <2>4 DEF PopenRegister, CallShape
    <2>6. fds' = CallersEnds'
      BY <1>5, <2>2, <2>3, <2>4, <2>5 DEF PopenRegister
    <2>7. \A g \in Streams : stream'[g] <= opened'
      BY <1>1, <1>5, <2>1, TableAssumption DEF PopenRegister, TypeOK
    <2> QED
      BY <1>5, <2>6, <2>7 DEF PopenRegister, CallShape
  <1>6. CASE PopenFull \/ PopenFails
    <2>1. opened > 0 /\ opened \in Opens /\ \A g \in Streams : stream[g] < opened
      BY <1>1, <1>6, TableAssumption DEF PopenFull, PopenFails, CallShape, TypeOK
    <2>2. CallersEnds' = CallersEnds
      BY <1>1, <1>6, SameEnds DEF PopenFull, PopenFails
    <2>3. <<opened, "read">> \notin CallersEnds /\ <<opened, "write">> \notin CallersEnds
      BY <1>1, <2>1, TableAssumption DEF CallersEnds, OpenStreams, TypeOK
    <2> QED
      BY <1>1, <1>6, <2>1, <2>2, <2>3 DEF PopenFull, PopenFails, CallShape
  <1>7. ASSUME NEW f \in Streams, Pclose(f) \/ PcloseFails(f) PROVE CallShape'
    <2>1. Closing(f) /\ pc' \in {"wait", "idle"}
      BY <1>7 DEF Pclose, PcloseFails, Closing
    <2>2. CallersEnds' = CallersEnds \ {<<stream[f], parent_end(stream[f])>>}
      BY <1>1, <2>1, EndsAfterClose DEF Closing
    <2>3. pc' = "wait" => pid' \in Opens
      BY <1>1, <1>7, StreamsAssumption, TableAssumption
      DEF Pclose, PcloseFails, Closing, remove_process, FirstSlot, TypeOK, TableExact
    <2>4. \A g \in Streams : stream'[g] <= opened
      BY <1>1, <2>1, TableAssumption DEF Closing, TypeOK, CallShape
    <2> QED
      BY <1>1, <2>1, <2>2, <2>3, <2>4 DEF Closing, CallShape
  <1>8. ASSUME UNCHANGED <<stream, fds, mode, opened>>, pc' = "idle", pc # "popen"
        PROVE  CallShape'
    BY <1>1, <1>8, SameEnds DEF CallShape
  <1>9. ASSUME UNCHANGED <<stream, fds, mode, opened, pc, pid>> PROVE CallShape'
    BY <1>1, <1>9, SameEnds DEF CallShape
  <1>10. CASE waitpid \/ wait4
    BY <1>8, <1>10 DEF waitpid, wait4
  <1>11. ASSUME NEW k \in Opens, ChildStep(k) \/ OtherWait(k) PROVE CallShape'
    BY <1>9, <1>11 DEF ChildStep, ChildExec, ChildExit, OtherWait
  <1>12. CASE UNCHANGED vars
    BY <1>9, <1>12 DEF vars
  <1> QED
    BY <1>4, <1>5, <1>6, <1>7, <1>10, <1>11, <1>12 DEF Next, CallerStep

\* The inductive invariant.
LEMMA IInvHolds == Spec => []IInv
  <1>1. IInv /\ [Next]_vars => IInv'
    BY TypeStep, TableStep, CallStep DEF IInv
  <1> QED
    BY InitIInv, <1>1, PTL DEF Spec

-----------------------------------------------------------------------------
\* The variables have their types.
THEOREM TypeCorrect == Spec => []TypeOK
  <1>1. IInv => TypeOK
    BY DEF IInv
  <1> QED
    BY IInvHolds, <1>1, PTL

\* proc_table and the open streams describe each other at all times.
THEOREM TableIsExact == Spec => []TableExact
  <1>1. IInv => TableExact
    BY DEF IInv
  <1> QED
    BY IInvHolds, <1>1, PTL

\* No way out of popen or pclose leaks a descriptor of the caller.
THEOREM DescriptorsBalance == Spec => []NoDescriptorLeak
  <1>1. IInv => NoDescriptorLeak
    BY DEF IInv, CallShape, NoDescriptorLeak
  <1> QED
    BY IInvHolds, <1>1, PTL

\* pclose waits for the child behind its own stream.
THEOREM PcloseWaits == Spec => PcloseWaitsForOwn
  <1> DEFINE Own == \A f \in Streams :
        pc = "idle" /\ pc' = "wait" /\ stream[f] # stream'[f] => pid' = stream[f]
  <1>1. ASSUME IInv, [Next]_vars PROVE [Own]_vars
    <2> SUFFICES ASSUME NEW f \in Streams, pc = "idle", pc' = "wait", stream[f] # stream'[f]
                 PROVE  pid' = stream[f]
      OBVIOUS
    <2>1. PICK g \in Streams : Pclose(g)
      BY <1>1 DEF Next, CallerStep, ChildStep, PopenFork, PopenRegister, PopenFull, PopenFails,
                  PcloseFails, waitpid, wait4, ChildExec, ChildExit, OtherWait, vars
    <2>2. g = f
      BY <2>1, <1>1 DEF Pclose, Closing, IInv, TypeOK
    <2> QED
      BY <1>1, <2>1, <2>2, StreamsAssumption
      DEF Pclose, Closing, remove_process, FirstSlot, IInv, TableExact
  <1> QED
    BY IInvHolds, <1>1, PTL DEF Spec, PcloseWaitsForOwn

-----------------------------------------------------------------------------
(* The children.  While a call is under way the child it is about may be in  *)
(* no slot: popen knows it as the newest, pclose as the one it waits for.    *)

Alive(k) == k \in Opens /\ life[k] \notin {"unborn", "reaped"}

InTable(k) == \E i \in Slots : table[i].fp # Null /\ table[i].pid = k

Remembered ==
  \A k \in Opens \ cut : Alive(k) =>
    \/ InTable(k)
    \/ pc = "popen" /\ k = opened
    \/ pc \in {"wait", "collect"} /\ k = pid

\* A child that another wait of the program may have collected.
Elsewhere(k) == k \in WaitedElsewhere /\ life[k] = "reaped"

\* Conversely, whom the table names or a call is about no call has waited for, and
\* whom the caller waits for is in no slot any more.
Waitable ==
  /\ \A i \in Slots : table[i].fp # Null => Alive(table[i].pid) \/ Elsewhere(table[i].pid)
  /\ pc = "popen" => Alive(opened) \/ Elsewhere(opened)
  /\ pc \in {"wait", "collect"} => (Alive(pid) \/ Elsewhere(pid)) /\ ~InTable(pid)

\* A slot in use names a popen that its own stream is for.
LEMMA SlotFacts ==
  ASSUME IInv, NEW i \in Slots, table[i].fp # Null
  PROVE  /\ table[i].fp \in Streams /\ table[i].pid \in 1..opened
         /\ pc = "popen" => table[i].pid # opened
         /\ \A j \in Slots : table[j].fp # Null /\ table[j].pid = table[i].pid => j = i
  BY TableAssumption DEF IInv, TypeOK, TableExact, CallShape

LEMMA ChildrenStep ==
  ASSUME IInv, Remembered, Waitable, [Next]_vars
  PROVE  Remembered' /\ Waitable'
  <1> USE DEF IInv, TypeOK, Remembered, Waitable, Alive, Elsewhere, InTable
  <1>1. ASSUME NEW m \in Modes, NEW e \in BOOLEAN, PopenFork(m, e)
        PROVE  Remembered' /\ Waitable'
    <2> PICK n \in Opens : n = opened + 1
      BY <1>1, TableAssumption DEF PopenFork
    <2>1. /\ opened' = n /\ pc = "idle" /\ pc' = "popen"
          /\ life' = [life EXCEPT ![n] = "forked"] /\ UNCHANGED <<table, pid, cut>>
      BY <1>1 DEF PopenFork
    <2>2. life'[n] = "forked" /\ \A k \in Opens \ {n} : life'[k] = life[k]
      BY <2>1
    <2>3. \A k : (Alive(k) => Alive(k)') /\ (Alive(k)' => Alive(k) \/ k = n)
      BY <2>1, <2>2
    <2>4. Alive(n)' /\ \A k \in Opens \ {n} : Elsewhere(k) => Elsewhere(k)'
      BY <2>2
    <2>5. \A i \in Slots : table[i].fp # Null => table[i].pid \in Opens \ {n}
      BY SlotFacts, TableAssumption
    <2> HIDE DEF Alive, Elsewhere
    <2> QED
      BY <2>1, <2>3, <2>4, <2>5
  <1>2. ASSUME NEW f \in Streams, PopenRegister(f)
        PROVE  Remembered' /\ Waitable'
    <2>1. PICK i \in Slots :
            table[i].fp = Null /\ table' = [table EXCEPT ![i] = [fp |-> f, pid |-> opened]]
      BY <1>2 DEF PopenRegister, regist_process, FirstSlot
    <2>2. /\ table'[i].fp # Null /\ table'[i].pid = opened
          /\ \A j \in Slots \ {i} : table'[j] = table[j]
          /\ pc = "popen" /\ pc' = "idle" /\ UNCHANGED <<life, cut>>
      BY <1>2, <2>1, StreamsAssumption DEF PopenRegister
    <2> QED
      BY <2>1, <2>2
  <1>3. CASE PopenFull
    BY <1>3, SlotFacts DEF PopenFull
  <1>4. CASE PopenFails
    BY <1>4 DEF PopenFails, CutShort
  <1>5. ASSUME NEW f \in Streams, Pclose(f)
        PROVE  Remembered' /\ Waitable'
    <2>1. PICK i \in Slots :
            /\ table[i].fp = f /\ pid' = table[i].pid
            /\ table' = [table EXCEPT ![i].fp = Null]
      BY <1>5 DEF Pclose, Closing, remove_process, FirstSlot
    <2>2. /\ table[i].fp # Null /\ table'[i].fp = Null
          /\ \A j \in Slots \ {i} : table'[j] = table[j]
          /\ pc = "idle" /\ pc' = "wait" /\ UNCHANGED <<life, cut>>
      BY <1>5, <2>1, StreamsAssumption DEF Pclose, Closing
    <2>3. ~InTable(pid)'
      BY <2>1, <2>2, SlotFacts
    <2> QED
      BY <2>1, <2>2, <2>3
  <1>6. CASE waitpid \/ wait4
    <2>0. WaitReturn
      BY <1>6, WaitReturns, Zenon
    <2>1. /\ pc \in {"wait", "collect"} /\ pc' = "idle" /\ table' = table /\ pid \in Opens
          /\ \A i \in Slots : table[i].fp # Null => table[i].pid # pid
          /\ cut' = cut \/ cut' = cut \cup {pid}
          /\ \/ life' = [life EXCEPT ![pid] = "reaped"]
             \/ life[pid] = "reaped" /\ life' = life
             \/ pid \in cut' /\ life' = life
      BY <2>0 DEF WaitReturn, CallShape
    <2>2. \A k \in Opens \ {pid} : life'[k] = life[k]
      BY <2>1
    <2>3. life'[pid] = "reaped" \/ pid \in cut'
      BY <2>1
    <2>4. \A i \in Slots : table[i].fp # Null => table[i].pid \in Opens \ {pid}
      BY <2>1, SlotFacts
    <2>5. Remembered'
      BY <2>1, <2>2, <2>3
    <2>6. Waitable'
      BY <2>1, <2>2, <2>4
    <2> QED
      BY <2>5, <2>6
  <1>7. ASSUME NEW k \in Opens, ChildStep(k)
        PROVE  Remembered' /\ Waitable'
    <2>1. UNCHANGED <<table, opened, pc, pid, cut>> /\ k \in Opens
          /\ life[k] \in {"forked", "running"} /\ \E l \in {"running", "zombie"} : life' = [life EXCEPT ![k] = l]
      BY <1>7 DEF ChildStep, ChildExec, ChildExit
    <2>2. \A j : (Alive(j)' <=> Alive(j)) /\ (Elsewhere(j)' <=> Elsewhere(j))
      BY <2>1
    <2> HIDE DEF Alive, Elsewhere
    <2> QED
      BY <2>1, <2>2
  <1>8. CASE UNCHANGED vars
    BY <1>8 DEF vars
  <1>9. ASSUME NEW f \in Streams, PcloseFails(f)
        PROVE  Remembered' /\ Waitable'
    <2>1. PICK i \in Slots :
            /\ table[i].fp = f /\ cut' = cut \cup {table[i].pid}
            /\ table' = [table EXCEPT ![i].fp = Null]
      BY <1>9 DEF PcloseFails, Closing, CutShort, remove_process, FirstSlot
    <2>2. /\ table[i].fp # Null /\ table'[i].fp = Null
          /\ \A j \in Slots \ {i} : table'[j] = table[j]
          /\ pc = "idle" /\ pc' = "idle" /\ UNCHANGED life
      BY <1>9, <2>1, StreamsAssumption DEF PcloseFails, Closing
    <2> QED
      BY <2>1, <2>2
  <1>10. ASSUME NEW k \in Opens, OtherWait(k)
         PROVE  Remembered' /\ Waitable'
    <2>1. UNCHANGED <<table, opened, pc, pid, cut>> /\ k \in WaitedElsewhere
          /\ life' = [life EXCEPT ![k] = "reaped"]
      BY <1>10 DEF OtherWait
    <2>2. \A j : /\ Alive(j)' => Alive(j)
                 /\ Alive(j) \/ Elsewhere(j) => Alive(j)' \/ Elsewhere(j)'
      BY <2>1, ElsewhereAssumption
    <2> HIDE DEF Alive, Elsewhere
    <2> QED
      BY <2>1, <2>2
  <1> QED
    BY <1>1, <1>2, <1>3, <1>4, <1>5, <1>6, <1>7, <1>8, <1>9, <1>10 DEF Next, CallerStep

LEMMA ChildrenHold == Spec => [](Remembered /\ Waitable)
  <1>1. Init => Remembered /\ Waitable
    BY DEF Init, Remembered, Waitable, Alive, Elsewhere
  <1> QED
    BY IInvHolds, <1>1, ChildrenStep, PTL DEF Spec

\* A call loses a child only where a failing system call cuts it short: close or
\* fdopen in popen, fclose in pclose, popen's waitpid interrupted.  Whenever no call is
\* under way every other child not yet waited for is found through the table, whatever
\* was opened, closed and refused before and whichever children ended.
THEOREM NobodyIsLost == Spec => []NoLostChild
  <1>1. Remembered => NoLostChild
    BY DEF Remembered, NoLostChild, Alive, InTable
  <1> QED
    BY ChildrenHold, <1>1, PTL

\* wait4 in pclose, and waitpid in popen, have a child to wait for unless another wait
\* of the program took it: no two calls of the library wait for the same child, although
\* its pid stays in a freed slot.
THEOREM WaitsForSomebody ==
  Spec => [](pc \in {"wait", "collect"} => Alive(pid) \/ Elsewhere(pid))
  <1>1. Waitable => (pc \in {"wait", "collect"} => Alive(pid) \/ Elsewhere(pid))
    BY DEF Waitable
  <1> QED
    BY ChildrenHold, <1>1, PTL

-----------------------------------------------------------------------------
(* The descriptors the children inherit. A child has those of the caller at  *)
(* its fork, so of its own pipe and of older ones; what it has of its own it *)
(* gives up before the command starts. A call waits for a child whose pipe   *)
(* the caller itself no longer has, and popen only for the newest child.     *)

Far(k) == <<k, parent_end(k)>>

HeldShape ==
  /\ \A j \in Opens : \A d \in held[j] : d[1] <= j
  /\ \A j \in Opens : life[j] \in {"unborn", "zombie", "reaped"} => held[j] = {}
  /\ \A j \in Opens : j > opened => life[j] = "unborn"
  /\ \A j \in Opens : life[j] = "running" => Far(j) \notin held[j]

LetGo ==
  /\ pc \in {"wait", "collect"} => pid \in Opens /\ Far(pid) \notin fds
  /\ pc = "collect" => pid = opened

\* The caller has descriptors only of pipes it has made.
LEMMA OwnPipes ==
  ASSUME IInv
  PROVE  \A d \in fds : d[1] \in 1..opened
  BY TableAssumption DEF IInv, TypeOK, CallShape, CallersEnds, OpenStreams

LEMMA HeldStep ==
  ASSUME IInv, HeldShape, [Next]_vars
  PROVE  HeldShape'
  <1> USE DEF IInv, TypeOK, HeldShape, Far
  <1>1. ASSUME NEW m \in Modes, NEW e \in BOOLEAN, PopenFork(m, e) PROVE HeldShape'
    <2> DEFINE k == opened + 1
    <2>1. /\ k \in Opens /\ opened' = k /\ opened < k
          /\ life'[k] = "forked" /\ held'[k] = fds \cup {<<k, "read">>, <<k, "write">>}
          /\ \A j \in Opens \ {k} : /\ life'[j] = life[j] /\ held'[j] = held[j]
                                    /\ mode'[j] = mode[j]
      BY <1>1, TableAssumption DEF PopenFork
    <2>2. \A d \in held'[k] : d[1] <= k
      BY <2>1, OwnPipes, TableAssumption
    <2> HIDE DEF k
    <2>3. \A j \in Opens : \A d \in held'[j] : d[1] <= j
      BY <2>1, <2>2
    <2>4. \A j \in Opens : j > k => life'[j] = "unborn"
      <3>1. opened \in Nat /\ k \in Nat
        BY <2>1, TableAssumption
      <3> QED
        BY <2>1, <3>1
    <2>5. \A j \in Opens : life'[j] = "running" => <<j, parent_end(j)'>> \notin held'[j]
      BY <2>1 DEF parent_end
    <2>6. \A j \in Opens : life'[j] \in {"unborn", "zombie", "reaped"} => held'[j] = {}
      BY <2>1
    <2> QED
      BY <2>1, <2>3, <2>4, <2>5, <2>6
  <1>2. ASSUME NEW k \in Opens, ChildStep(k) PROVE HeldShape'
    <2>1. UNCHANGED <<mode, opened>> /\ life[k] \in {"forked", "running"}
      BY <1>2 DEF ChildStep, ChildExec, ChildExit
    <2>2. /\ \A j \in Opens \ {k} : life'[j] = life[j] /\ held'[j] = held[j]
          /\ \/ life'[k] = "running" /\ held'[k] = held[k] \ {Far(k)}
             \/ life'[k] = "zombie" /\ held'[k] = {}
      <3>1. CASE ChildExec(k)
        BY <3>1 DEF ChildExec
      <3>2. CASE ChildExit(k)
        BY <3>2 DEF ChildExit
      <3> QED
        BY <1>2, <3>1, <3>2 DEF ChildStep
    <2> QED
      BY <2>1, <2>2 DEF parent_end
  <1>3. CASE waitpid \/ wait4
    <2>1. WaitReturn
      BY <1>3, WaitReturns, Zenon
    <2> QED
      BY <2>1 DEF WaitReturn, parent_end
  <1>4. CASE UNCHANGED <<held, life, mode, opened>>
    BY <1>4 DEF parent_end
  <1>5. ASSUME NEW k \in Opens, OtherWait(k) PROVE HeldShape'
    BY <1>5 DEF OtherWait, parent_end
  <1> QED
    BY <1>1, <1>2, <1>3, <1>4, <1>5
    DEF Next, CallerStep, PopenRegister, PopenFull, PopenFails, Pclose, PcloseFails, Closing, vars

LEMMA LetGoStep ==
  ASSUME IInv, LetGo, [Next]_vars
  PROVE  LetGo'
  <1> USE DEF IInv, TypeOK, LetGo, Far
  <1>1. ASSUME NEW f \in Streams, Pclose(f) PROVE LetGo'
    <2>1. pid' = stream[f] /\ pc' = "wait" /\ UNCHANGED mode
          /\ stream[f] \in Opens /\ fds' = fds \ {Far(stream[f])}
      BY <1>1, TableAssumption, StreamsAssumption DEF Pclose, Closing, remove_process, FirstSlot, TableExact
    <2> QED
      BY <2>1 DEF parent_end
  <1>2. CASE PopenFull
    <2>1. opened \in Opens
      BY <1>2, TableAssumption DEF PopenFull, CallShape
    <2> QED
      BY <1>2, <2>1 DEF PopenFull, parent_end
  <1>3. ASSUME NEW k \in Opens, ChildStep(k) \/ OtherWait(k) PROVE LetGo'
    BY <1>3 DEF ChildStep, ChildExec, ChildExit, OtherWait, parent_end
  <1>4. CASE UNCHANGED vars
    BY <1>4 DEF vars, parent_end
  <1> QED
    BY <1>1, <1>2, <1>3, <1>4 DEF Next, CallerStep, PopenFork, PopenRegister, PopenFails, PcloseFails, Closing,
                              waitpid, wait4

\* While a call waits, the only one who can keep the command it waits for from
\* learning that its pipe was closed is another child that inherited the end; and
\* popen, when the table is full, waits for a child nobody can keep.
HeldUpByHeirsOnly ==
  pc \in {"wait", "collect"} /\ life[pid] = "running" =>
    /\ Released(pid) \/ Inherited(pid)
    /\ pc = "collect" => Released(pid)

\* A call of the library can only be held up by inherited descriptors: whatever was
\* opened and closed before, neither the caller nor the command itself keeps the
\* pipe (popen.c: the child's close of the other end, fclose before wait4).
THEOREM OnlyHeirsHoldUp == Spec => []HeldUpByHeirsOnly
  <1>1. Init => HeldShape /\ LetGo
    BY TableAssumption DEF Init, HeldShape, LetGo
  <1>2. IInv /\ HeldShape /\ LetGo => HeldUpByHeirsOnly
    <2> SUFFICES ASSUME IInv, HeldShape, LetGo, pc \in {"wait", "collect"}, life[pid] = "running"
                 PROVE  /\ Released(pid) \/ Inherited(pid)
                        /\ pc = "collect" => Released(pid)
      BY DEF HeldUpByHeirsOnly
    <2>1. pid \in Opens /\ Far(pid) \notin fds /\ Far(pid) \notin held[pid]
      BY DEF LetGo, HeldShape
    <2>2. Released(pid) \/ Inherited(pid)
      BY <2>1 DEF Released, Inherited, Far
    <2>3. ASSUME pc = "collect" PROVE \A j \in Opens \ {pid} : Far(pid) \notin held[j]
      <3> SUFFICES ASSUME NEW j \in Opens \ {pid}, Far(pid) \in held[j] PROVE FALSE
        OBVIOUS
      <3>1. pid = opened /\ Far(pid)[1] <= j
        BY <2>3 DEF LetGo, HeldShape
      <3>2. j > opened
        BY <2>1, <3>1, TableAssumption DEF Far
      <3> QED
        BY <3>2 DEF HeldShape
    <2> QED
      BY <2>1, <2>2, <2>3 DEF Inherited, Far
  <1> QED
    BY IInvHolds, <1>1, <1>2, HeldStep, LetGoStep, PTL DEF Spec
=============================================================================
