------------------------------ MODULE TimeCache ------------------------------
(***************************************************************************)
(* The caching proxy in front of the time server, exercise 11.16           *)
(* (cash_timeserv.c): one process, one client at a time.  A reply that was *)
(* fetched serves everybody accepted in the same second.                   *)
(***************************************************************************)
EXTENDS TimeServer

CONSTANTS
  Clients, NoClient,
  MaxFds,  \* descriptors the process may have besides the listening one
  ClientsMayLeave

ASSUME CacheAssumption ==
  /\ NoClient \notin Clients /\ MaxFds \in Nat \ {0} /\ ClientsMayLeave \in BOOLEAN

VARIABLES
  pc,      \* where main is
  client,  \* the connection behind sock_fd
  current_time, rec_time,
  cache,   \* the first cache_len bytes of it
  lost,    \* descriptors never closed
  cst,     \* each client: idle, queued, open, closed
  left,    \* it reset the connection
  got,     \* what it received of a reply
  at       \* the second in which it was accepted

main == <<pc, client, current_time, rec_time, cache, lost>>
clients == <<cst, left, got, at>>
vars == <<server, main, clients>>

TypeOK ==
  /\ ServerTypeOK
  /\ pc \in {"accept", "connect", "read", "save", "hit", "close", "exited"}
  /\ client \in Clients \cup {NoClient}
  /\ current_time \in Seconds /\ rec_time \in Seconds
  /\ cache \in Seq(Parts) /\ Len(cache) <= Size
  /\ lost \in 0..(MaxFds - 1)
  /\ cst \in [Clients -> {"idle", "queued", "open", "closed"}]
  /\ left \in [Clients -> BOOLEAN]
  /\ got \in [Clients -> Seq(Parts)]
  /\ at \in [Clients -> Seconds]

Init ==
  /\ ServerInit
  /\ pc = "accept" /\ client = NoClient
  /\ current_time = 0 /\ rec_time = clock
  /\ cache = <<>> /\ lost = 0
  /\ cst = [c \in Clients |-> "idle"]
  /\ left = [c \in Clients |-> FALSE]
  /\ got = [c \in Clients |-> <<>>]
  /\ at = [c \in Clients |-> 0]

-----------------------------------------------------------------------------
(* Clients.                                                                *)

Call(c) ==
  /\ cst[c] = "idle"
  /\ cst' = [cst EXCEPT ![c] = "queued"]
  /\ UNCHANGED <<server, main, left, got, at>>

Leave(c) ==
  /\ ClientsMayLeave
  /\ cst[c] \in {"queued", "open"} /\ ~left[c]
  /\ left' = [left EXCEPT ![c] = TRUE]
  /\ UNCHANGED <<server, main, cst, got, at>>

-----------------------------------------------------------------------------
(* main                                                                    *)

Goto(label) == pc' = label

AcceptAndThen(refill, kept) ==
  /\ pc = "accept"
  /\ \E c \in Clients :
       /\ cst[c] = "queued"
       /\ cst' = [cst EXCEPT ![c] = "open"]
       /\ at' = [at EXCEPT ![c] = clock]
       /\ client' = c
  /\ current_time' = clock
  /\ Goto(IF refill THEN "connect" ELSE "hit")
  /\ cache' = IF refill THEN kept ELSE cache
  /\ UNCHANGED <<server, rec_time, lost, left, got>>

Expired == clock > rec_time

\* Mutants: an empty cache is a reply too; cache_len is not set to 0.
Accept_timeonly == AcceptAndThen(Expired, <<>>)
Accept_append == AcceptAndThen(Expired \/ cache = <<>>, cache)

\* accept, gettimeofday and the choice between the server and the cache.
\* A failing accept is reported and tried again.
Accept == AcceptAndThen(Expired \/ cache = <<>>, <<>>)

\* setup_cliant: when connect fails its socket stays open; without a free
\* descriptor socket itself fails.  The client is closed without an answer.
Connect ==
  /\ pc = "connect"
  /\ \/ /\ lost + 1 < MaxFds /\ Dial
        /\ Goto("read") /\ UNCHANGED lost
     \/ /\ lost + 1 < MaxFds /\ spc = "down"
        /\ Goto("close") /\ lost' = lost + 1 /\ UNCHANGED link
     \/ /\ lost + 1 >= MaxFds
        /\ Goto("close") /\ UNCHANGED <<lost, link>>
  /\ UNCHANGED <<clock, spc, thetime, faults, client, current_time, rec_time, cache, clients>>

\* Mutant: memcpy to the beginning of the cache.
Read_over ==
  /\ pc = "read"
  /\ \E n \in 1..Len(link.data) :
       LET buf == SubSeq(link.data, 1, n) IN
         /\ link' = [link EXCEPT !.data = SubSeq(@, n + 1, Len(@))]
         /\ cache' = buf
         /\ \/ ~left[client] /\ got' = [got EXCEPT ![client] = @ \o buf] /\ Goto("read")
            \/ left[client] /\ UNCHANGED got /\ pc' \in {"read", "save", "exited"}
  /\ UNCHANGED <<clock, spc, thetime, faults, client, current_time, rec_time, lost, cst, left, at>>

\* read takes what has come, write_all passes it on.  When the client is gone
\* that is lost in silence, or write fails and the loop ends, or SIGPIPE ends
\* the process.
Read ==
  /\ pc = "read"
  /\ \E n \in 1..Len(link.data) :
       LET buf == SubSeq(link.data, 1, n) IN
         /\ link' = [link EXCEPT !.data = SubSeq(@, n + 1, Len(@))]
         /\ cache' = cache \o buf
         /\ \/ ~left[client] /\ got' = [got EXCEPT ![client] = @ \o buf] /\ Goto("read")
            \/ left[client] /\ UNCHANGED got /\ pc' \in {"read", "save", "exited"}
  /\ UNCHANGED <<clock, spc, thetime, faults, client, current_time, rec_time, lost, cst, left, at>>

\* Mutant: the loop runs while read does not return 0.
ReadEnds_eof ==
  /\ pc = "read" /\ link.data = <<>> /\ link.state = "eof"
  /\ Goto("save")
  /\ UNCHANGED <<server, client, current_time, rec_time, cache, lost, clients>>

\* read returns 0 or -1.  From a silent link it does not return.
ReadEnds ==
  /\ pc = "read" /\ link.data = <<>> /\ link.state \in Ended
  /\ Goto("save")
  /\ UNCHANGED <<server, client, current_time, rec_time, cache, lost, clients>>

SaveAs(time) ==
  /\ pc = "save"
  /\ HangUp
  /\ rec_time' = time
  /\ Goto("close")
  /\ UNCHANGED <<clock, spc, thetime, faults, client, current_time, cache, lost, clients>>

\* Mutants: the time at the end of the fetch; no new time.
Save_now == SaveAs(clock)
Save_never == SaveAs(rec_time)

\* What was read is the reply from now on, whole or not.
Save == SaveAs(current_time)

\* The cache and "this is cash" go out; a failing write is reported.
Hit ==
  /\ pc = "hit"
  /\ \/ ~left[client] /\ got' = [got EXCEPT ![client] = cache] /\ Goto("close")
     \/ left[client] /\ UNCHANGED got /\ pc' \in {"close", "exited"}
  /\ UNCHANGED <<server, client, current_time, rec_time, cache, lost, cst, left, at>>

Close ==
  /\ pc = "close"
  /\ cst' = [cst EXCEPT ![client] = "closed"]
  /\ client' = NoClient
  /\ Goto("accept")
  /\ UNCHANGED <<server, current_time, rec_time, cache, lost, left, got, at>>

Main == Accept \/ Connect \/ Read \/ ReadEnds \/ Save \/ Hit \/ Close

Next ==
  \/ Main
  \/ (Serve \/ Fault \/ Tick) /\ UNCHANGED <<main, clients>>
  \/ \E c \in Clients : Call(c) \/ Leave(c)

Spec == Init /\ [][Next]_vars

\* Both processes run.  Nobody has to call, and a stopped server may stay so.
FairSpec ==
  Spec /\ WF_vars(Main) /\ WF_vars(Serve /\ UNCHANGED <<main, clients>>)

-----------------------------------------------------------------------------
(* Properties.                                                             *)

\* Nobody is told a time from before the second in which it was accepted,
\* although replies are kept and the fetch of one may take seconds.
NotStale ==
  \A c \in Clients : \A i \in DOMAIN got[c] : got[c][i].time >= at[c]

\* What a client receives is one reply of the server from its beginning, never
\* parts of two.
OneReply == \A c \in Clients : got[c] \in Pieces

\* The server is not called for a client accepted in the same second as one
\* who received something: what the cache is there for.
CallsSaved ==
  [][pc = "accept" /\ pc' = "connect"
     => \A c \in Clients : got[c] # <<>> => at[c] # clock]_vars

\* Every client's connection ends, though the server is stopped, refuses, hangs up
\* early or the link is reset, unless the proxy itself was ended by a client that
\* left, or the link fell silent and stays so: main's read has no time-out.
Served ==
  \A c \in Clients : cst[c] = "queued" ~>
    cst[c] = "closed" \/ pc = "exited" \/ [](link.state = "silent")

\* With a server that stays up, a link that holds and clients that stay, who
\* calls is told the time, from the server or from the cache.
Answered ==
  \A c \in Clients : cst[c] = "queued" ~>
    Len(got[c]) = Size \/ faults > 0 \/ \E d \in Clients : left[d]
=============================================================================
