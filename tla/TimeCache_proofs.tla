--------------------------- MODULE TimeCache_proofs ---------------------------
(***************************************************************************)
(* Proofs about TimeCache for any number of clients, seconds, faults and   *)
(* descriptors: types, that nobody is told an old time or receives parts   *)
(* of two replies, and that the cache saves the calls it is there to save. *)
(***************************************************************************)
EXTENDS TimeCache, SequenceTheorems, TLAPS

\* What has been read of a reply, and what of it is still to be read.
Split(s, t) ==
  \E x \in Seconds, k \in 0..Size, m \in 0..Size :
    k <= m /\ s = SubSeq(Reply(x), 1, k) /\ t = SubSeq(Reply(x), k + 1, m)

NotBefore(s, x) == \A i \in DOMAIN s : s[i].time >= x

\* The clock and main's two times.
Times == rec_time <= current_time /\ current_time <= clock

\* The server has no more part in the link.
Over == Ended \cup {"silent"}

\* The link carries one reply, made after the client was accepted.
Fetching ==
  /\ pc \notin {"read", "save", "exited"} => link = NoLink
  /\ pc = "read" => link.state # "none" /\ Split(cache, link.data)
                   /\ NotBefore(link.data, current_time)
  /\ pc = "read" /\ link.state \notin Over => cache = <<>>
  /\ pc \in {"save", "exited"} => link = NoLink \/ link.state \in Over
  /\ link.state \notin Over => link.data = <<>>
  /\ link.state = "open" => spc \in {"time", "fclose"}
  /\ link.state = "open" /\ spc = "fclose" => thetime >= current_time

\* The cache is part of one reply; its age is known to main.
Cached ==
  /\ cache \in Pieces
  /\ NotBefore(cache, IF pc \in {"read", "save"} THEN current_time ELSE rec_time)
  /\ pc = "connect" => cache = <<>>
  /\ pc = "hit" => rec_time = current_time

Serving == {"connect", "read", "save", "hit", "close"}

\* The client being served has what is in the cache, unless it left.
Given ==
  /\ pc \in Serving => client \in Clients /\ at[client] = current_time /\ cst[client] = "open"
  /\ pc \in {"connect", "hit"} => got[client] = <<>>
  /\ pc = "read" /\ ~left[client] => got[client] = cache
  /\ \A c \in Clients : cst[c] \in {"idle", "queued"} => got[c] = <<>>

IInv == TypeOK /\ Times /\ Fetching /\ Cached /\ Given /\ NotStale /\ OneReply

LEMMA ReplyFacts ==
  ASSUME NEW x \in Seconds
  PROVE  Reply(x) \in Seq(Parts) /\ Len(Reply(x)) = Size
<1>1. \A i \in 1..Size : Part(x, i) \in Parts
  BY DEF Part, Parts
<1> QED BY <1>1, ServerAssumption DEF Reply

\* A slice of a reply, also the empty one.
LEMMA SliceFacts ==
  ASSUME NEW x \in Seconds, NEW i \in 1..(Size + 1), NEW j \in (i - 1)..Size
  PROVE  /\ SubSeq(Reply(x), i, j) \in Seq(Parts)
         /\ Len(SubSeq(Reply(x), i, j)) = j - i + 1
<1>1. \A k \in i..j : Reply(x)[k] \in Parts
  BY ReplyFacts, ServerAssumption
<1>2. i \in Int /\ j \in Int
  BY ServerAssumption
<1> HIDE DEF Reply
<1>3. /\ SubSeq(Reply(x), i, j) \in Seq(Parts)
      /\ Len(SubSeq(Reply(x), i, j)) = IF i <= j THEN j - i + 1 ELSE 0
  BY <1>1, <1>2, SubSeqProperties
<1> QED BY <1>3, ServerAssumption

LEMMA PieceFacts ==
  /\ <<>> \in Pieces
  /\ \A s \in Pieces : s \in Seq(Parts) /\ Len(s) <= Size
<1>1. 0 \in Seconds
  BY ServerAssumption DEF Seconds
<1>2. SubSeq(Reply(0), 1, 0) = <<>>
  BY SubSeqEmpty
<1>3. <<>> \in Pieces
  BY <1>1, <1>2, ServerAssumption DEF Pieces
<1>4. ASSUME NEW s \in Pieces PROVE s \in Seq(Parts) /\ Len(s) <= Size
  <2>1. PICK x \in Seconds, n \in 0..Size : s = SubSeq(Reply(x), 1, n)
    BY DEF Pieces
  <2>2. 1 \in 1..(Size + 1) /\ n \in (1 - 1)..Size /\ n - 1 + 1 = n
    BY ServerAssumption
  <2>3. s \in Seq(Parts) /\ Len(s) = n - 1 + 1
    BY <2>1, <2>2, SliceFacts
  <2> QED BY <2>2, <2>3, ServerAssumption
<1> QED BY <1>3, <1>4

\* A read moves the front of what is left to the end of what was read.
LEMMA SplitStep ==
  ASSUME NEW s, NEW t, Split(s, t), NEW n \in 1..Len(t)
  PROVE  /\ s \o SubSeq(t, 1, n) \in Pieces
         /\ Split(s \o SubSeq(t, 1, n), SubSeq(t, n + 1, Len(t)))
<1>1. PICK x \in Seconds, k \in 0..Size, m \in 0..Size :
        k <= m /\ s = SubSeq(Reply(x), 1, k) /\ t = SubSeq(Reply(x), k + 1, m)
  BY DEF Split
<1>2. Reply(x) \in Seq(Parts) /\ Len(Reply(x)) = Size
  BY ReplyFacts
<1>3. Len(t) = m - k
  BY <1>1, SliceFacts, ServerAssumption
<1>4. SubSeq(t, 1, n) = SubSeq(Reply(x), k + 1, k + n)
  BY <1>1, <1>2, <1>3, ServerAssumption, SubSeqOfSubSeq
<1>5. s \o SubSeq(t, 1, n) = SubSeq(Reply(x), 1, k + n)
  BY <1>1, <1>2, <1>3, <1>4, ServerAssumption, ConcatAdjacentSubSeq
<1>6. SubSeq(t, n + 1, Len(t)) = SubSeq(Reply(x), k + n + 1, m)
  <2>1. CASE n < Len(t)
    BY <1>1, <1>2, <1>3, <2>1, ServerAssumption, SubSeqOfSubSeq
  <2>2. CASE n = Len(t)
    BY <1>3, <2>2, ServerAssumption, SubSeqEmpty
  <2> QED BY <1>3, <2>1, <2>2, ServerAssumption
<1>7. k + n \in 0..Size /\ k + n <= m
  BY <1>3, ServerAssumption
<1>8. s \o SubSeq(t, 1, n) \in Pieces
  BY <1>5, <1>7 DEF Pieces
<1>9. Split(s \o SubSeq(t, 1, n), SubSeq(t, n + 1, Len(t)))
  BY <1>5, <1>6, <1>7 DEF Split
<1> QED BY <1>8, <1>9

\* Of what is left only the beginning may arrive.
LEMMA BreakStep ==
  ASSUME NEW s, NEW t, Split(s, t), NEW n \in 0..Len(t)
  PROVE  Split(s, SubSeq(t, 1, n))
<1>1. PICK x \in Seconds, k \in 0..Size, m \in 0..Size :
        k <= m /\ s = SubSeq(Reply(x), 1, k) /\ t = SubSeq(Reply(x), k + 1, m)
  BY DEF Split
<1>2. Reply(x) \in Seq(Parts) /\ Len(Reply(x)) = Size
  BY ReplyFacts
<1>3. Len(t) = m - k
  BY <1>1, SliceFacts, ServerAssumption
<1>4. SubSeq(t, 1, n) = SubSeq(Reply(x), k + 1, k + n)
  <2>1. CASE n = 0
    BY <2>1, ServerAssumption, SubSeqEmpty
  <2>2. CASE n # 0
    BY <1>1, <1>2, <1>3, <2>2, ServerAssumption, SubSeqOfSubSeq
  <2> QED BY <2>1, <2>2
<1>5. k + n \in 0..Size /\ k <= k + n
  BY <1>3, ServerAssumption
<1> QED BY <1>1, <1>4, <1>5 DEF Split

\* The parts of a piece of a sequence are as young as those of the whole.
LEMMA YoungStep ==
  ASSUME NEW x \in Nat, NEW s \in Seq(Parts), NEW t \in Seq(Parts),
         NotBefore(s, x), NotBefore(t, x), NEW n \in 0..Len(t)
  PROVE  /\ NotBefore(s \o SubSeq(t, 1, n), x)
         /\ NotBefore(SubSeq(t, n + 1, Len(t)), x)
         /\ NotBefore(SubSeq(t, 1, n), x)
  BY DEF NotBefore

LEMMA SplitTypes ==
  ASSUME NEW s, NEW t, Split(s, t)
  PROVE  s \in Pieces /\ t \in Seq(Parts) /\ Len(t) <= Size
<1>1. PICK x \in Seconds, k \in 0..Size, m \in 0..Size :
        k <= m /\ s = SubSeq(Reply(x), 1, k) /\ t = SubSeq(Reply(x), k + 1, m)
  BY DEF Split
<1>2. s \in Pieces
  BY <1>1 DEF Pieces
<1>3. k + 1 \in 1..(Size + 1) /\ m \in (k + 1 - 1)..Size
  BY <1>1, ServerAssumption
<1>4. t \in Seq(Parts) /\ Len(t) = m - (k + 1) + 1
  BY <1>1, <1>3, SliceFacts
<1> QED BY <1>2, <1>3, <1>4, ServerAssumption

\* A whole reply is all still to be read.
LEMMA SplitWhole ==
  ASSUME NEW x \in Seconds
  PROVE  Split(<<>>, Reply(x)) /\ Split(<<>>, <<>>)
<1>1. SubSeq(Reply(x), 1, 0) = <<>>
  BY SubSeqEmpty
<1>2. SubSeq(Reply(x), 1, Size) = Reply(x)
  BY ReplyFacts, SubSeqFull
<1>3. 0 \in 0..Size /\ Size \in 0..Size /\ 0 <= Size /\ 0 + 1 = 1
  BY ServerAssumption
<1> QED BY <1>1, <1>2, <1>3 DEF Split

LEMMA TimeFacts == Seconds \subseteq Nat /\ 0 \in Seconds
  BY ServerAssumption DEF Seconds

LEMMA InitIInv == Init => IInv
<1> SUFFICES ASSUME Init PROVE IInv
  OBVIOUS
<1> USE ServerAssumption, CacheAssumption, TimeFacts, PieceFacts
    DEF Init, ServerInit, NoLink, Ended, Over
<1>1. TypeOK
  BY DEF TypeOK, ServerTypeOK
<1>2. Times /\ Fetching /\ Cached /\ Given /\ NotStale /\ OneReply
  BY DEF Times, Fetching, Cached, Given, NotStale, OneReply, NotBefore, Serving
<1> QED BY <1>1, <1>2 DEF IInv

-----------------------------------------------------------------------------
(* The server and the link.                                                *)

LEMMA ServeStep ==
  ASSUME IInv, SAccept \/ STime \/ SFclose, UNCHANGED <<main, clients>>
  PROVE  IInv'
<1> USE ServerAssumption, TimeFacts DEF IInv, main, clients, Ended, Over
<1>1. CASE SAccept
  <2>1. TypeOK'
    BY <1>1 DEF SAccept, TypeOK, ServerTypeOK
  <2>2. Fetching'
    BY <1>1 DEF SAccept, TypeOK, ServerTypeOK, Fetching, NoLink
  <2>3. Times' /\ Cached' /\ Given' /\ NotStale' /\ OneReply'
    BY <1>1 DEF SAccept, Times, Cached, Given, NotStale, OneReply, NotBefore
  <2> QED BY <2>1, <2>2, <2>3
<1>2. CASE STime
  <2>1. TypeOK'
    BY <1>2 DEF STime, TypeOK, ServerTypeOK
  <2>2. Fetching'
    BY <1>2 DEF STime, TypeOK, ServerTypeOK, Fetching, Times
  <2>3. Times' /\ Cached' /\ Given' /\ NotStale' /\ OneReply'
    BY <1>2 DEF STime, Times, Cached, Given, NotStale, OneReply, NotBefore
  <2> QED BY <2>1, <2>2, <2>3
<1>3. CASE SFclose
  <2>1. thetime \in Seconds
    BY DEF TypeOK, ServerTypeOK
  <2>2. Reply(thetime) \in Seq(Parts) /\ Len(Reply(thetime)) = Size
    BY <2>1, ReplyFacts
  <2>3. TypeOK'
    BY <1>3, <2>2 DEF SFclose, TypeOK, ServerTypeOK
  <2>4. Fetching'
    <3>1. CASE link.state = "open"
      <4>1. link' = [state |-> "eof", data |-> Reply(thetime)]
        BY <1>3, <3>1 DEF SFclose
      <4>2. pc = "read" => cache = <<>> /\ thetime >= current_time
        BY <1>3, <3>1 DEF SFclose, Fetching
      <4>3. thetime >= current_time => NotBefore(Reply(thetime), current_time)
        BY <2>1 DEF NotBefore, Reply, Part
      <4>4. Split(<<>>, Reply(thetime))
        BY <2>1, SplitWhole
      <4> QED BY <1>3, <3>1, <4>1, <4>2, <4>3, <4>4 DEF SFclose, Fetching, NoLink
    <3>2. CASE link.state # "open"
      BY <1>3, <3>2 DEF SFclose, Fetching
    <3> QED BY <3>1, <3>2
  <2>5. Times' /\ Cached' /\ Given' /\ NotStale' /\ OneReply'
    BY <1>3 DEF SFclose, Times, Cached, Given, NotStale, OneReply, NotBefore
  <2> QED BY <2>3, <2>4, <2>5
<1> QED BY <1>1, <1>2, <1>3

LEMMA FaultStep ==
  ASSUME IInv, Fault \/ Tick, UNCHANGED <<main, clients>>
  PROVE  IInv'
<1> USE ServerAssumption, TimeFacts DEF IInv, main, clients, Ended, Over, Fault
<1>1. CASE SKill
  <2>1. faults' \in 0..MaxFaults
    BY <1>1 DEF SKill, TypeOK, ServerTypeOK
  <2>2. link.state \in {"none", "queued", "open", "silent"} \cup Ended /\ link.data \in Seq(Parts)
    BY DEF TypeOK, ServerTypeOK
  <2>3. \/ link.state = "open" /\ link' = [link EXCEPT !.state = "eof"]
        \/ link.state = "queued" /\ link' = [link EXCEPT !.state = "reset"]
        \/ link.state \notin {"open", "queued"} /\ link' = link
    BY <1>1 DEF SKill
  <2>4. link'.data = link.data
    BY <2>3 DEF TypeOK, ServerTypeOK
  <2>5. TypeOK'
    BY <1>1, <2>1, <2>3 DEF SKill, TypeOK, ServerTypeOK
  <2>6. Fetching'
    <3>1. CASE link.state \in {"open", "queued"}
      <4>1. link'.state \in Ended /\ link' # NoLink
        BY <2>3, <3>1 DEF TypeOK, ServerTypeOK, NoLink
      <4>2. pc \in {"read", "save", "exited"}
        BY <3>1 DEF Fetching, NoLink
      <4> QED BY <1>1, <2>4, <4>1, <4>2 DEF SKill, Fetching
    <3>2. CASE link.state \notin {"open", "queued"}
      BY <1>1, <2>3, <3>2 DEF SKill, Fetching
    <3> QED BY <3>1, <3>2
  <2>7. Times' /\ Cached' /\ Given' /\ NotStale' /\ OneReply'
    BY <1>1 DEF SKill, Times, Cached, Given, NotStale, OneReply, NotBefore
  <2> QED BY <2>5, <2>6, <2>7
<1>2. CASE SStart
  <2>1. TypeOK'
    BY <1>2 DEF SStart, TypeOK, ServerTypeOK
  <2>2. Fetching'
    BY <1>2 DEF SStart, TypeOK, ServerTypeOK, Fetching
  <2>3. Times' /\ Cached' /\ Given' /\ NotStale' /\ OneReply'
    BY <1>2 DEF SStart, Times, Cached, Given, NotStale, OneReply, NotBefore
  <2> QED BY <2>1, <2>2, <2>3
<1>3. CASE Break
  <2>1. PICK n \in 0..Len(link.data) :
          link' = [state |-> "reset", data |-> SubSeq(link.data, 1, n)]
    BY <1>3 DEF Break
  <2>2. link.data \in Seq(Parts) /\ Len(link.data) <= Size
    BY DEF TypeOK, ServerTypeOK
  <2>3. SubSeq(link.data, 1, n) \in Seq(Parts) /\ Len(SubSeq(link.data, 1, n)) <= Size
    BY <2>2
  <2>4. TypeOK'
    BY <1>3, <2>1, <2>3 DEF Break, TypeOK, ServerTypeOK
  <2>5. pc = "read" => Split(cache, SubSeq(link.data, 1, n))
    BY BreakStep DEF Fetching
  <2>6. pc = "read" => NotBefore(SubSeq(link.data, 1, n), current_time)
    BY <2>2 DEF Fetching, NotBefore
  <2>7. Fetching'
    BY <1>3, <2>1, <2>5, <2>6 DEF Break, Fetching, NoLink
  <2>8. Times' /\ Cached' /\ Given' /\ NotStale' /\ OneReply'
    BY <1>3 DEF Break, Times, Cached, Given, NotStale, OneReply, NotBefore
  <2> QED BY <2>4, <2>7, <2>8
<1>4. CASE Silence
  <2>1. PICK n \in 0..Len(link.data) :
          link' = [state |-> "silent", data |-> SubSeq(link.data, 1, n)]
    BY <1>4 DEF Silence
  <2>2. link.data \in Seq(Parts) /\ Len(link.data) <= Size
    BY DEF TypeOK, ServerTypeOK
  <2>3. SubSeq(link.data, 1, n) \in Seq(Parts) /\ Len(SubSeq(link.data, 1, n)) <= Size
    BY <2>2
  <2>4. TypeOK'
    BY <1>4, <2>1, <2>3 DEF Silence, TypeOK, ServerTypeOK
  <2>5. pc = "read" => Split(cache, SubSeq(link.data, 1, n))
    BY BreakStep DEF Fetching
  <2>6. pc = "read" => NotBefore(SubSeq(link.data, 1, n), current_time)
    BY <2>2 DEF Fetching, NotBefore
  <2>7. Fetching'
    BY <1>4, <2>1, <2>5, <2>6 DEF Silence, Fetching, NoLink
  <2>8. Times' /\ Cached' /\ Given' /\ NotStale' /\ OneReply'
    BY <1>4 DEF Silence, Times, Cached, Given, NotStale, OneReply, NotBefore
  <2> QED BY <2>4, <2>7, <2>8
<1>5. CASE Tick
  <2>1. TypeOK'
    BY <1>5 DEF Tick, TypeOK, ServerTypeOK, Seconds
  <2>2. Times'
    BY <1>5 DEF Tick, Times, TypeOK, ServerTypeOK
  <2>3. Fetching' /\ Cached' /\ Given' /\ NotStale' /\ OneReply'
    BY <1>5 DEF Tick, Fetching, Cached, Given, NotStale, OneReply, NotBefore
  <2> QED BY <2>1, <2>2, <2>3
<1> QED BY <1>1, <1>2, <1>3, <1>4, <1>5

-----------------------------------------------------------------------------
(* The clients and main.                                                   *)

LEMMA ClientStep ==
  ASSUME IInv, NEW c \in Clients, Call(c) \/ Leave(c)
  PROVE  IInv'
<1> USE DEF IInv, Call, Leave, server, main
<1>1. TypeOK'
  BY DEF TypeOK, ServerTypeOK
<1>2. Fetching' /\ Times' /\ Cached' /\ NotStale' /\ OneReply'
  BY DEF Fetching, Times, Cached, NotStale, OneReply, NotBefore, Split
<1>3. Given'
  <2>1. CASE Call(c)
    BY <2>1 DEF TypeOK, Given, Serving
  <2>2. CASE Leave(c)
    BY <2>2 DEF TypeOK, Given, Serving
  <2> QED BY <2>1, <2>2
<1> QED BY <1>1, <1>2, <1>3

LEMMA AcceptStep ==
  ASSUME IInv, Accept
  PROVE  IInv'
<1> USE ServerAssumption, TimeFacts, PieceFacts, CacheAssumption
    DEF IInv, Accept, AcceptAndThen, Expired, Goto, server
<1>1. TypeOK'
  BY DEF TypeOK, ServerTypeOK
<1>2. Times'
  BY DEF Times, TypeOK, ServerTypeOK
<1>3. Fetching'
  BY DEF Fetching, NoLink, Ended, Over
<1>4. Cached'
  <2>1. CASE clock > rec_time \/ cache = <<>>
    BY <2>1 DEF Cached, NotBefore
  <2>2. CASE ~(clock > rec_time \/ cache = <<>>)
    BY <2>2 DEF Cached, NotBefore, Times, TypeOK, ServerTypeOK
  <2> QED BY <2>1, <2>2
<1>5. PICK c \in Clients :
        /\ cst[c] = "queued" /\ client' = c
        /\ cst' = [cst EXCEPT ![c] = "open"] /\ at' = [at EXCEPT ![c] = clock]
  OBVIOUS
<1>6. got[c] = <<>>
  BY <1>5 DEF Given
<1>7. Given'
  BY <1>5, <1>6 DEF TypeOK, Given, Serving
<1>8. NotStale'
  BY <1>5, <1>6 DEF NotStale, TypeOK
<1>9. OneReply'
  BY DEF OneReply
<1> QED BY <1>1, <1>2, <1>3, <1>4, <1>7, <1>8, <1>9

LEMMA ConnectStep ==
  ASSUME IInv, Connect
  PROVE  IInv'
<1> USE ServerAssumption, TimeFacts, CacheAssumption
    DEF IInv, Connect, Goto, clients
<1>1. TypeOK'
  <2>1. lost' \in 0..(MaxFds - 1)
    BY DEF TypeOK
  <2>2. link' = link \/ link' = [state |-> "queued", data |-> <<>>]
    BY DEF Dial
  <2>3. /\ link' \in [state : {"none", "queued", "open", "silent"} \cup Ended, data : Seq(Parts)]
        /\ Len(link'.data) <= Size
    <3>1. CASE link' = link
      BY <3>1 DEF TypeOK, ServerTypeOK
    <3>2. CASE link' = [state |-> "queued", data |-> <<>>]
      BY <3>2
    <3> QED BY <2>2, <3>1, <3>2
  <2>4. ServerTypeOK'
    BY <2>3 DEF TypeOK, ServerTypeOK
  <2> QED BY <2>1, <2>4 DEF TypeOK
<1>2. Fetching'
  <2>1. cache = <<>> /\ link = NoLink
    BY DEF Cached, Fetching
  <2>2. Split(<<>>, <<>>)
    BY SplitWhole
  <2> QED BY <2>1, <2>2 DEF Fetching, NoLink, Ended, Over, Dial, NotBefore
<1>3. Times' /\ NotStale' /\ OneReply'
  BY DEF Times, NotStale, OneReply
<1>4. Cached'
  BY DEF Cached, NotBefore
<1>5. Given'
  BY DEF Given, Serving, Cached
<1> QED BY <1>1, <1>2, <1>3, <1>4, <1>5

LEMMA ReadStep ==
  ASSUME IInv, Read
  PROVE  IInv'
<1> USE ServerAssumption, TimeFacts DEF IInv, Goto
<1>1. PICK n \in 1..Len(link.data) :
        /\ link' = [link EXCEPT !.data = SubSeq(@, n + 1, Len(@))]
        /\ cache' = cache \o SubSeq(link.data, 1, n)
        /\ \/ /\ ~left[client] /\ pc' = "read"
              /\ got' = [got EXCEPT ![client] = @ \o SubSeq(link.data, 1, n)]
           \/ left[client] /\ UNCHANGED got /\ pc' \in {"read", "save", "exited"}
  BY DEF Read
<1>2. /\ pc = "read" /\ client \in Clients /\ at[client] = current_time
      /\ ~left[client] => got[client] = cache
  BY DEF Read, Given, Serving
<1>3. Split(cache, link.data) /\ NotBefore(link.data, current_time)
      /\ NotBefore(cache, current_time)
  BY <1>2 DEF Fetching, Cached
<1>4. /\ cache \in Seq(Parts) /\ link.data \in Seq(Parts) /\ current_time \in Nat
      /\ Len(link.data) <= Size
  BY DEF TypeOK, ServerTypeOK
<1>5. cache' \in Pieces /\ Split(cache', SubSeq(link.data, n + 1, Len(link.data)))
  BY <1>1, <1>3, SplitStep
<1>6. /\ link'.data = SubSeq(link.data, n + 1, Len(link.data))
      /\ link'.state = link.state
      /\ link' = [state |-> link.state, data |-> link'.data]
  BY <1>1 DEF TypeOK, ServerTypeOK
<1>7. /\ NotBefore(cache', current_time)
      /\ NotBefore(link'.data, current_time)
  BY <1>1, <1>3, <1>4, <1>6, YoungStep
<1>8. ~left[client] => got' = [got EXCEPT ![client] = cache']
  BY <1>1, <1>2
<1>9. link.state \in Over
  BY <1>4 DEF Fetching
<1>10. TypeOK'
  <2>1. link'.data \in Seq(Parts) /\ Len(link'.data) <= Size
    BY <1>5, <1>6, SplitTypes
  <2>2. cache' \in Seq(Parts) /\ Len(cache') <= Size
    BY <1>5, PieceFacts
  <2>3. got' \in [Clients -> Seq(Parts)]
    BY <1>1, <1>8, <2>2 DEF TypeOK
  <2>4. link' \in [state : {"none", "queued", "open", "silent"} \cup Ended, data : Seq(Parts)]
    BY <1>6, <2>1, <1>9 DEF Over
  <2> QED BY <1>1, <2>1, <2>2, <2>3, <2>4 DEF Read, TypeOK, ServerTypeOK
<1>11. Times'
  BY DEF Read, Times
<1>12. Fetching'
  <2>1. link'.state \in Over /\ link'.state \notin {"none", "open"}
    BY <1>6, <1>9 DEF Ended, Over
  <2> QED BY <1>1, <1>5, <1>6, <1>7, <2>1 DEF Read, Fetching
<1>13. Cached'
  <2>1. ASSUME NEW i \in DOMAIN cache' PROVE cache'[i].time >= rec_time
    <3>1. cache' \in Seq(Parts)
      BY <1>5, PieceFacts
    <3>2. cache'[i].time \in Nat
      <4>1. cache'[i] \in Parts
        BY <2>1, <3>1
      <4> QED BY <4>1 DEF Parts
    <3>3. cache'[i].time >= current_time
      BY <1>7 DEF NotBefore
    <3>4. current_time \in Nat /\ rec_time \in Nat /\ rec_time <= current_time
      BY DEF Times, TypeOK
    <3> QED BY <3>2, <3>3, <3>4
  <2>2. NotBefore(cache', rec_time)
    BY <2>1 DEF NotBefore
  <2> QED BY <1>1, <1>5, <1>7, <2>2 DEF Read, Cached
<1>14. Given'
  BY <1>1, <1>2, <1>8 DEF Read, Given, Serving, TypeOK
<1>15. NotStale'
  BY <1>1, <1>2, <1>7, <1>8 DEF Read, NotStale, NotBefore, TypeOK
<1>16. OneReply'
  BY <1>1, <1>5, <1>8 DEF OneReply, TypeOK
<1> QED BY <1>10, <1>11, <1>12, <1>13, <1>14, <1>15, <1>16

LEMMA SaveStep ==
  ASSUME IInv, ReadEnds \/ Save
  PROVE  IInv'
<1> USE ServerAssumption, TimeFacts DEF IInv, ReadEnds, Save, SaveAs, Goto, server, clients
<1>1. TypeOK'
  <2>1. CASE ReadEnds
    BY <2>1 DEF TypeOK, ServerTypeOK
  <2>2. CASE Save
    BY <2>2 DEF TypeOK, ServerTypeOK, HangUp, NoLink
  <2> QED BY <2>1, <2>2
<1>2. Times'
  BY DEF Times, TypeOK, ServerTypeOK
<1>3. Fetching'
  BY DEF Fetching, HangUp, NoLink, Ended, Over
<1>4. Cached'
  BY DEF Cached, NotBefore
<1>5. Given' /\ NotStale' /\ OneReply'
  BY DEF Given, Serving, NotStale, OneReply
<1> QED BY <1>1, <1>2, <1>3, <1>4, <1>5

LEMMA HitStep ==
  ASSUME IInv, Hit
  PROVE  IInv'
<1> USE ServerAssumption, TimeFacts DEF IInv, Hit, Goto, server
<1>1. client \in Clients /\ at[client] = current_time /\ rec_time = current_time
  BY DEF Given, Serving, Cached
<1>2. TypeOK'
  <2>1. got' \in [Clients -> Seq(Parts)] /\ pc' \in {"close", "exited"}
    BY <1>1 DEF TypeOK
  <2> QED BY <2>1 DEF TypeOK, ServerTypeOK
<1>3. Times' /\ Fetching' /\ Cached'
  BY DEF Times, Fetching, Cached
<1>4. Given'
  BY <1>1 DEF Given, Serving, TypeOK
<1>5. NotStale'
  BY <1>1 DEF NotStale, Cached, NotBefore, TypeOK
<1>6. OneReply'
  BY <1>1 DEF OneReply, Cached, TypeOK
<1> QED BY <1>2, <1>3, <1>4, <1>5, <1>6

LEMMA CloseStep ==
  ASSUME IInv, Close
  PROVE  IInv'
<1> USE DEF IInv, Close, Goto, server
<1>1. TypeOK'
  BY DEF TypeOK, ServerTypeOK
<1>2. Times' /\ Fetching' /\ Cached' /\ NotStale' /\ OneReply'
  BY DEF Times, Fetching, Cached, NotStale, OneReply, NotBefore
<1>3. Given'
  BY DEF Given, Serving, TypeOK
<1> QED BY <1>1, <1>2, <1>3

LEMMA Inductive == Spec => []IInv
<1>1. IInv /\ [Next]_vars => IInv'
  <2> SUFFICES ASSUME IInv, [Next]_vars PROVE IInv'
    OBVIOUS
  <2>1. CASE Main
    BY <2>1, AcceptStep, ConnectStep, ReadStep, SaveStep, HitStep, CloseStep DEF Main
  <2>2. CASE (Serve \/ Fault \/ Tick) /\ UNCHANGED <<main, clients>>
    BY <2>2, ServeStep, FaultStep DEF Serve
  <2>3. ASSUME NEW c \in Clients, Call(c) \/ Leave(c) PROVE IInv'
    BY <2>3, ClientStep
  <2>4. CASE UNCHANGED vars
    <3> USE <2>4 DEF vars, server, main, clients, IInv
    <3>1. TypeOK' /\ Times'
      BY DEF TypeOK, ServerTypeOK, Times
    <3>2. Fetching'
      BY DEF Fetching
    <3>3. Cached' /\ Given' /\ NotStale' /\ OneReply'
      BY DEF Cached, Given, NotStale, OneReply
    <3> QED BY <3>1, <3>2, <3>3
  <2> QED BY <2>1, <2>2, <2>3, <2>4 DEF Next
<1> QED BY InitIInv, <1>1, PTL DEF Spec

-----------------------------------------------------------------------------
\* Every variable keeps its type; in particular the cache never outgrows one
\* reply of the server, however its parts arrive.
THEOREM TypeCorrect == Spec => []TypeOK
<1>1. IInv => TypeOK
  BY DEF IInv
<1> QED BY <1>1, Inductive, PTL

\* No client is ever told a time from before it was accepted.
THEOREM NobodyIsToldAnOldTime == Spec => []NotStale
<1>1. IInv => NotStale
  BY DEF IInv
<1> QED BY <1>1, Inductive, PTL

\* What each client receives is one reply from its beginning.
THEOREM RepliesAreNotMixed == Spec => []OneReply
<1>1. IInv => OneReply
  BY DEF IInv
<1> QED BY <1>1, Inductive, PTL

-----------------------------------------------------------------------------
(* What the cache is there for.  Who received something was accepted no    *)
(* later than the reply main has, and if that is this second the reply is  *)
(* still there: Accept throws it away only when the second is over.        *)

Saved ==
  \A c \in Clients : got[c] # <<>> =>
    /\ at[c] <= (IF pc \in {"read", "save", "exited"} /\ c = client
                 THEN current_time ELSE rec_time)
    /\ at[c] = clock => cache # <<>>

\* Numbers that are compared.
LEMMA SavedTimes ==
  ASSUME IInv
  PROVE  /\ clock \in Nat /\ current_time \in Nat /\ rec_time \in Nat
         /\ rec_time <= current_time /\ current_time <= clock
         /\ \A c \in Clients : at[c] \in Nat
  BY TimeFacts DEF IInv, TypeOK, ServerTypeOK, Times

\* A choice of the server over the cache leaves nobody of this second out.
LEMMA AcceptSaves ==
  ASSUME IInv, Saved, pc = "accept", Expired \/ cache = <<>>,
         NEW c \in Clients, got[c] # <<>>
  PROVE  at[c] # clock
  BY SavedTimes DEF Saved, Expired

LEMMA SavedStep ==
  ASSUME IInv, Saved, [Next]_vars
  PROVE  Saved'
<1> USE DEF Goto
<1>1. CASE Accept
  <2>1. PICK c \in Clients :
          /\ cst[c] = "queued" /\ client' = c
          /\ cst' = [cst EXCEPT ![c] = "open"] /\ at' = [at EXCEPT ![c] = clock]
    BY <1>1 DEF Accept, AcceptAndThen
  <2>2. got[c] = <<>>
    BY <2>1 DEF IInv, Given
  <2>3. /\ pc = "accept" /\ pc' \in {"connect", "hit"}
        /\ UNCHANGED <<clock, rec_time, got>>
        /\ (Expired \/ cache = <<>>) \/ cache' = cache
    BY <1>1 DEF Accept, AcceptAndThen, server
  <2>4. \A d \in Clients \ {c} : at'[d] = at[d]
    BY <2>1 DEF IInv, TypeOK
  <2> QED BY <2>2, <2>3, <2>4, AcceptSaves DEF Saved
<1>2. CASE Connect
  BY <1>2, SavedTimes DEF Connect, clients, Saved
<1>3. CASE Read
  <2>1. PICK n \in 1..Len(link.data) : cache' = cache \o SubSeq(link.data, 1, n)
    BY <1>3 DEF Read
  <2>2. cache \in Seq(Parts) /\ link.data \in Seq(Parts)
    BY DEF IInv, TypeOK, ServerTypeOK
  <2>3. cache' # <<>>
    <3>1. Len(SubSeq(link.data, 1, n)) = n /\ SubSeq(link.data, 1, n) \in Seq(Parts)
      BY <2>2
    <3>2. Len(cache') = Len(cache) + n
      BY <2>1, <2>2, <3>1
    <3>3. Len(cache) \in Nat /\ n \in Nat \ {0} /\ Len(<<>>) = 0
      BY <2>2
    <3> QED BY <3>2, <3>3
  <2>4. /\ UNCHANGED <<clock, client, current_time, rec_time, at>>
        /\ pc = "read" /\ pc' \in {"read", "save", "exited"}
        /\ \A c \in Clients \ {client} : got'[c] = got[c]
    BY <1>3 DEF Read, IInv, TypeOK
  <2>5. at[client] = current_time
    BY <2>4 DEF IInv, Given, Serving
  <2> QED BY <2>3, <2>4, <2>5, SavedTimes DEF Saved
<1>4. CASE ReadEnds
  BY <1>4 DEF ReadEnds, server, clients, Saved
<1>5. CASE Save
  <2>1. /\ UNCHANGED <<clock, client, current_time, cache, got, at>>
        /\ pc = "save" /\ pc' = "close" /\ rec_time' = current_time
    BY <1>5 DEF Save, SaveAs, clients
  <2> QED BY <2>1, SavedTimes DEF Saved
<1>6. CASE Hit
  <2>1. /\ client \in Clients /\ at[client] = current_time /\ rec_time = current_time
        /\ UNCHANGED <<clock, client, current_time, rec_time, at, cache>>
        /\ pc = "hit" /\ pc' \in {"close", "exited"}
        /\ \A c \in Clients \ {client} : got'[c] = got[c]
        /\ got'[client] = cache \/ got'[client] = got[client]
    BY <1>6 DEF Hit, server, IInv, TypeOK, Given, Serving, Cached
  <2> QED BY <2>1, SavedTimes DEF Saved
<1>7. CASE Close
  BY <1>7 DEF Close, server, Saved
<1>8. CASE (Serve \/ Fault \/ Tick) /\ UNCHANGED <<main, clients>>
  <2>1. UNCHANGED <<pc, client, current_time, rec_time, cache, got, at>>
    BY <1>8 DEF main, clients
  <2>2. clock' = clock \/ clock' = clock + 1
    BY <1>8 DEF Serve, SAccept, STime, SFclose, Fault, SKill, SStart, Break, Silence, Tick
  <2> QED BY <2>1, <2>2, SavedTimes DEF Saved
<1>9. ASSUME NEW c \in Clients, Call(c) \/ Leave(c) PROVE Saved'
  BY <1>9 DEF Call, Leave, server, main, Saved
<1>10. CASE UNCHANGED vars
  BY <1>10 DEF vars, server, main, clients, Saved
<1> QED BY <1>1, <1>2, <1>3, <1>4, <1>5, <1>6, <1>7, <1>8, <1>9, <1>10 DEF Next, Main

\* The proxy never calls the server for a client accepted in the same second as
\* one it told something, although connect may fail and the reply may be short.
THEOREM CacheSavesCalls == Spec => CallsSaved
<1> DEFINE Saves == pc = "accept" /\ pc' = "connect"
                    => \A c \in Clients : got[c] # <<>> => at[c] # clock
<1>1. Init => Saved
  BY DEF Init, Saved
<1>2. ASSUME IInv, Saved, [Next]_vars PROVE [Saves]_vars
  <2> SUFFICES ASSUME pc = "accept", pc' = "connect"
               PROVE  \A c \in Clients : got[c] # <<>> => at[c] # clock
    OBVIOUS
  <2>1. Accept
    BY <1>2 DEF Next, Main, Connect, Read, ReadEnds, Save, SaveAs, Hit, Close, Call, Leave, main, vars
  <2>2. Expired \/ cache = <<>>
    BY <2>1 DEF Accept, AcceptAndThen, Goto
  <2>3. \A c \in Clients : got[c] # <<>> => at[c] # clock
    BY <1>2, <2>2, AcceptSaves
  <2> QED BY <2>3
<1> QED BY Inductive, SavedStep, <1>1, <1>2, PTL DEF Spec, CallsSaved
-----------------------------------------------------------------------------
(* The safety half of Answered.  Until a first fault, and while no client   *)
(* has left, no descriptor is lost, the server is up, a reply that has been  *)
(* written arrives whole, and so what the cache holds is whole or nothing.   *)

Undisturbed == faults = 0 /\ \A d \in Clients : ~left[d]

WholeReplies ==
  Undisturbed =>
    /\ lost = 0 /\ spc # "down" /\ link.state \notin {"reset", "silent"} /\ pc # "exited"
    /\ pc = "read" /\ link.state = "eof" => Len(cache) + Len(link.data) = Size
    /\ pc = "save" => Len(cache) = Size /\ got[client] = cache
    /\ pc = "hit" => Len(cache) = Size
    /\ pc \in {"accept", "close"} => Len(cache) \in {0, Size}
    /\ pc = "close" => Len(got[client]) = Size
    /\ \A c \in Clients : cst[c] = "closed" => Len(got[c]) = Size

\* What has disturbed the proxy is not undone.
LEMMA DisturbedForGood ==
  ASSUME TypeOK, [Next]_vars, Undisturbed'
  PROVE  Undisturbed /\ UNCHANGED <<faults, left>>
<1>1. faults \in Nat
  BY ServerAssumption DEF TypeOK, ServerTypeOK
<1>2. CASE Main
  <2>1. UNCHANGED <<faults, left>>
    BY <1>2 DEF Main, Accept, AcceptAndThen, Connect, Read, ReadEnds, Save, SaveAs, Hit, Close, server, clients
  <2> QED BY <2>1 DEF Undisturbed
<1>3. CASE (Serve \/ Fault \/ Tick) /\ UNCHANGED <<main, clients>>
  <2>1. left' = left /\ (faults' = faults \/ faults' = faults + 1)
    BY <1>3 DEF Serve, SAccept, STime, SFclose, Fault, SKill, SStart, Break, Silence, Tick, clients
  <2>2. faults' = 0
    BY DEF Undisturbed
  <2>3. faults' = faults
    BY <1>1, <2>1, <2>2
  <2> QED BY <2>1, <2>3 DEF Undisturbed
<1>4. ASSUME NEW c \in Clients, Call(c) \/ Leave(c)
      PROVE  Undisturbed /\ UNCHANGED <<faults, left>>
  <2>1. CASE Call(c)
    BY <2>1 DEF Call, server, Undisturbed
  <2>2. CASE Leave(c)
    BY <2>2 DEF Leave, Undisturbed, TypeOK
  <2> QED BY <1>4, <2>1, <2>2
<1>5. CASE UNCHANGED vars
  BY <1>5 DEF vars, server, clients, Undisturbed
<1> QED BY <1>2, <1>3, <1>4, <1>5 DEF Next

\* A piece that has been read moves from the link to the cache.
LEMMA ReadCounts ==
  ASSUME IInv, Read
  PROVE  /\ Len(cache') + Len(link'.data) = Len(cache) + Len(link.data)
         /\ link'.state = link.state
<1>1. PICK n \in 1..Len(link.data) :
        /\ link' = [link EXCEPT !.data = SubSeq(@, n + 1, Len(@))]
        /\ cache' = cache \o SubSeq(link.data, 1, n)
  BY DEF Read
<1>2. cache \in Seq(Parts) /\ link.data \in Seq(Parts)
  BY DEF IInv, TypeOK, ServerTypeOK
<1>3. link'.data = SubSeq(link.data, n + 1, Len(link.data)) /\ link'.state = link.state
  BY <1>1 DEF IInv, TypeOK, ServerTypeOK
<1>4. /\ SubSeq(link.data, 1, n) \in Seq(Parts) /\ Len(SubSeq(link.data, 1, n)) = n
      /\ Len(SubSeq(link.data, n + 1, Len(link.data))) = Len(link.data) - n
  BY <1>2
<1>5. Len(cache') = Len(cache) + n
  BY <1>1, <1>2, <1>4
<1>6. Len(cache) \in Nat /\ Len(link.data) \in Nat
  BY <1>2
<1> QED BY <1>3, <1>4, <1>5, <1>6

LEMMA WholeStep ==
  ASSUME MaxFds > 1, IInv, WholeReplies, [Next]_vars
  PROVE  WholeReplies'
<1> SUFFICES ASSUME Undisturbed' PROVE WholeReplies'
  BY DEF WholeReplies
<1>1. Undisturbed /\ UNCHANGED <<faults, left>>
  BY DisturbedForGood DEF IInv
<1> USE <1>1, ServerAssumption, CacheAssumption DEF WholeReplies, Goto
<1>2. CASE Accept
  <2>1. PICK c \in Clients : cst[c] = "queued" /\ client' = c /\ cst' = [cst EXCEPT ![c] = "open"]
    BY <1>2 DEF Accept, AcceptAndThen
  <2>2. \A d \in Clients : cst'[d] = "closed" => cst[d] = "closed"
    BY <2>1 DEF IInv, TypeOK
  <2>3. /\ pc = "accept" /\ UNCHANGED <<server, lost, got>>
        /\ \/ pc' = "connect"
           \/ pc' = "hit" /\ cache # <<>> /\ cache' = cache
    BY <1>2 DEF Accept, AcceptAndThen
  <2>4. cache # <<>> => Len(cache) # 0
    BY DEF IInv, TypeOK
  <2> QED BY <2>2, <2>3, <2>4 DEF server
<1>3. CASE Connect
  <2>1. lost = 0 /\ spc # "down" /\ lost + 1 < MaxFds
    OBVIOUS
  <2>2. /\ pc' = "read" /\ lost' = lost /\ link'.state = "queued"
        /\ UNCHANGED <<spc, got, cst>>
    BY <1>3, <2>1 DEF Connect, Dial, clients
  <2> QED BY <2>1, <2>2
<1>4. CASE Read
  <2>1. pc = "read" /\ client \in Clients /\ ~left[client]
    BY <1>4 DEF Read, IInv, Given, Serving, Undisturbed
  <2>2. pc' = "read" /\ UNCHANGED <<spc, lost, cst, client>>
    BY <1>4, <2>1 DEF Read
  <2>3. \A c \in Clients : cst[c] = "closed" => got'[c] = got[c]
    <3>1. cst[client] = "open"
      BY <2>1 DEF IInv, Given, Serving
    <3>2. \A c \in Clients \ {client} : got'[c] = got[c]
      BY <1>4 DEF Read, IInv, TypeOK
    <3> QED BY <3>1, <3>2
  <2> QED BY <1>4, <2>1, <2>2, <2>3, ReadCounts
<1>5. CASE ReadEnds
  <2>1. /\ pc = "read" /\ link.data = <<>> /\ link.state = "eof" /\ pc' = "save"
        /\ UNCHANGED <<server, cache, client, lost, clients>>
    BY <1>5 DEF ReadEnds, Ended
  <2>2. Len(cache) = Size
    <3>1. Len(link.data) = 0 /\ Len(cache) \in Nat
      BY <2>1 DEF IInv, TypeOK
    <3> QED BY <2>1, <3>1
  <2>3. got[client] = cache
    BY <2>1 DEF IInv, Given, Serving, Undisturbed
  <2> QED BY <2>1, <2>2, <2>3 DEF server, clients
<1>6. CASE Save
  <2>1. /\ pc = "save" /\ pc' = "close" /\ link' = NoLink
        /\ UNCHANGED <<spc, cache, client, lost, clients>>
    BY <1>6 DEF Save, SaveAs, HangUp
  <2> QED BY <2>1 DEF clients, NoLink
<1>7. CASE Hit
  <2>1. pc = "hit" /\ client \in Clients /\ ~left[client] /\ cst[client] = "open"
    BY <1>7 DEF Hit, IInv, Given, Serving, Undisturbed
  <2>2. /\ got' = [got EXCEPT ![client] = cache] /\ pc' = "close"
        /\ UNCHANGED <<server, client, cache, lost, cst>>
    BY <1>7, <2>1 DEF Hit
  <2>3. got'[client] = cache /\ \A c \in Clients \ {client} : got'[c] = got[c]
    BY <2>1, <2>2 DEF IInv, TypeOK
  <2> QED BY <2>1, <2>2, <2>3 DEF server
<1>8. CASE Close
  <2>1. /\ pc = "close" /\ pc' = "accept" /\ cst' = [cst EXCEPT ![client] = "closed"]
        /\ UNCHANGED <<server, cache, lost, got>>
    BY <1>8 DEF Close
  <2>2. \A c \in Clients : cst'[c] = "closed" => cst[c] = "closed" \/ c = client
    BY <2>1 DEF IInv, TypeOK
  <2> QED BY <2>1, <2>2 DEF server
<1>9. CASE (Serve \/ Fault \/ Tick) /\ UNCHANGED <<main, clients>>
  <2>1. UNCHANGED <<pc, client, cache, lost, cst, got>>
    BY <1>9 DEF main, clients
  <2>2. faults \in Nat
    BY DEF IInv, TypeOK, ServerTypeOK
  <2>3. SAccept \/ STime \/ SFclose \/ Tick
    BY <1>9, <2>2 DEF Serve, Fault, SKill, SStart, Break, Silence
  <2>4. spc' # "down"
    BY <2>3 DEF SAccept, STime, SFclose, Tick
  <2>5. CASE SFclose /\ link.state = "open"
    <3>1. link' = [state |-> "eof", data |-> Reply(thetime)]
      BY <2>5 DEF SFclose
    <3>2. Len(Reply(thetime)) = Size
      BY ReplyFacts DEF IInv, TypeOK, ServerTypeOK
    <3>3. pc = "read" => cache = <<>>
      BY <2>5 DEF IInv, Fetching, Ended, Over
    <3> QED BY <2>1, <2>4, <3>1, <3>2, <3>3
  <2>6. CASE SAccept
    <3>1. link'.state = "open"
      BY <2>6 DEF SAccept, IInv, TypeOK, ServerTypeOK
    <3> QED BY <2>1, <2>4, <3>1
  <2>7. CASE ~SAccept /\ ~(SFclose /\ link.state = "open")
    <3>1. link' = link
      BY <2>3, <2>7 DEF STime, SFclose, Tick
    <3> QED BY <2>1, <2>4, <3>1
  <2> QED BY <2>5, <2>6, <2>7
<1>10. ASSUME NEW c \in Clients, Call(c) \/ Leave(c) PROVE WholeReplies'
  <2>1. UNCHANGED <<server, main, got>>
    BY <1>10 DEF Call, Leave
  <2>2. \A d \in Clients : cst'[d] = "closed" => cst[d] = "closed"
    BY <1>10 DEF Call, Leave, IInv, TypeOK
  <2> QED BY <2>1, <2>2 DEF server, main
<1>11. CASE UNCHANGED vars
  BY <1>11 DEF vars, server, main, clients
<1> QED BY <1>2, <1>3, <1>4, <1>5, <1>6, <1>7, <1>8, <1>9, <1>10, <1>11 DEF Next, Main

\* The safety half of Answered: nobody is closed without the whole time unless the
\* server was killed, the link broke or fell silent, or a client left. Needs a descriptor for the
\* client and one for the server, without which the server is never called.
THEOREM ClosedIsTold ==
  MaxFds > 1 /\ Spec =>
    [](\A c \in Clients : cst[c] = "closed" =>
         Len(got[c]) = Size \/ faults > 0 \/ \E d \in Clients : left[d])
<1> DEFINE Told == \A c \in Clients : cst[c] = "closed" =>
                     Len(got[c]) = Size \/ faults > 0 \/ \E d \in Clients : left[d]
<1> SUFFICES ASSUME MaxFds > 1 PROVE Spec => []Told
  OBVIOUS
<1>1. Init => WholeReplies
  BY ServerAssumption DEF Init, ServerInit, NoLink, WholeReplies
<1>2. IInv /\ WholeReplies /\ [Next]_vars => WholeReplies'
  BY WholeStep
<1>3. IInv /\ WholeReplies => Told
  BY ServerAssumption DEF IInv, TypeOK, ServerTypeOK, WholeReplies, Undisturbed
<1> QED BY Inductive, <1>1, <1>2, <1>3, PTL DEF Spec
=============================================================================
