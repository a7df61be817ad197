----------------------------- MODULE TimeServer -----------------------------
(***************************************************************************)
(* The time server of exercise 11.09 (timeserv.c): one process that tells  *)
(* each caller the time and hangs up.  Its caller here is the proxy of     *)
(* TimeCache, which has one connection to it at a time, the link.          *)
(*                                                                         *)
(* The reply is what fprintf gathers in one buffer.  It is as many parts   *)
(* long as reads may take it in.  All hosts read the same clock, in        *)
(* seconds.  The link ends when the server closes it or dies, is reset, or *)
(* falls silent: then neither data nor an end comes, however long one      *)
(* waits, and nobody in these programs has a time-out.                     *)
(***************************************************************************)
EXTENDS Naturals, Sequences

CONSTANTS
  Size,      \* the parts of a reply
  MaxClock,  \* bound: the last second
  MaxFaults  \* bound: how often the server is killed, or the link breaks or falls silent

ASSUME ServerAssumption == Size \in Nat \ {0} /\ MaxClock \in Nat /\ MaxFaults \in Nat

VARIABLES
  clock,   \* time(2)
  spc,     \* where the server is
  thetime,
  link,    \* the connection as its caller sees it, and what can be read from it
  faults

server == <<clock, spc, thetime, link, faults>>

Seconds == 0..MaxClock
Part(t, i) == [time |-> t, part |-> i]
Parts == [time : Seconds, part : 1..Size]
Reply(t) == [i \in 1..Size |-> Part(t, i)]

\* What may have been received of a reply.
Pieces == UNION {{SubSeq(Reply(t), 1, n) : n \in 0..Size} : t \in Seconds}

NoLink == [state |-> "none", data |-> <<>>]
Ended == {"eof", "reset"}

ServerTypeOK ==
  /\ clock \in Seconds
  /\ spc \in {"down", "accept", "time", "fclose"}
  /\ thetime \in Seconds
  /\ link \in [state : {"none", "queued", "open", "silent"} \cup Ended, data : Seq(Parts)]
  /\ Len(link.data) <= Size
  /\ faults \in 0..MaxFaults

ServerInit ==
  /\ clock = 0 /\ spc = "accept" /\ thetime = 0 /\ link = NoLink /\ faults = 0

-----------------------------------------------------------------------------
(* What the caller does to the link: connect, which a server that runs does *)
(* not refuse, and close.                                                   *)

Dial == spc # "down" /\ link' = [state |-> "queued", data |-> <<>>]

HangUp == link' = NoLink

-----------------------------------------------------------------------------
(* The server.                                                             *)

SAccept ==
  /\ spc = "accept" /\ link.state = "queued"
  /\ link' = [link EXCEPT !.state = "open"]
  /\ spc' = "time"
  /\ UNCHANGED <<clock, thetime, faults>>

STime ==
  /\ spc = "time"
  /\ thetime' = clock
  /\ spc' = "fclose"
  /\ UNCHANGED <<clock, link, faults>>

\* fclose writes what fprintf left in the buffer and ends the connection.
SFclose ==
  /\ spc = "fclose"
  /\ link' = IF link.state = "open" THEN [state |-> "eof", data |-> Reply(thetime)] ELSE link
  /\ spc' = "accept"
  /\ UNCHANGED <<clock, thetime, faults>>

\* Somebody stops the server, or oops does: what it had not written is lost.
SKill ==
  /\ spc # "down" /\ faults < MaxFaults
  /\ spc' = "down"
  /\ faults' = faults + 1
  /\ link' = IF link.state = "open" THEN [link EXCEPT !.state = "eof"]
             ELSE IF link.state = "queued" THEN [link EXCEPT !.state = "reset"] ELSE link
  /\ UNCHANGED <<clock, thetime>>

SStart ==
  /\ spc = "down"
  /\ spc' = "accept"
  /\ UNCHANGED <<clock, thetime, link, faults>>

\* The connection breaks; of what was written only the beginning arrived.
Break ==
  /\ link.state \in {"open", "eof"} /\ faults < MaxFaults
  /\ faults' = faults + 1
  /\ \E n \in 0..Len(link.data) :
       link' = [state |-> "reset", data |-> SubSeq(link.data, 1, n)]
  /\ UNCHANGED <<clock, spc, thetime>>

\* A cable is pulled, or the server's host crashes and takes the server along:
\* what has not arrived never will, and no reset tells the caller.
Silence ==
  /\ link.state \in {"queued", "open", "eof"} /\ faults < MaxFaults
  /\ faults' = faults + 1
  /\ \E n \in 0..Len(link.data) :
       link' = [state |-> "silent", data |-> SubSeq(link.data, 1, n)]
  /\ spc' \in {spc, "down"}
  /\ UNCHANGED <<clock, thetime>>

Tick ==
  /\ clock < MaxClock
  /\ clock' = clock + 1
  /\ UNCHANGED <<spc, thetime, link, faults>>

Serve == SAccept \/ STime \/ SFclose
Fault == SKill \/ SStart \/ Break \/ Silence
=============================================================================
