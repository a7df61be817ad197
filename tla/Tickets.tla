------------------------------- MODULE Tickets -------------------------------
(* The server that hands out numbers and its clients
   (chapter11/question/11.18, pan_serv.c and pan_cli.c). A number crosses the
   connection in Parts pieces, which write_all and read_all may cut anywhere.
   `life` counts the starts of the server: every one begins with number 1.    *)
EXTENDS Naturals, FiniteSets

CONSTANTS Clients, Nobody,
          Parts,    \* pieces of one number: sizeof(int) of them in the code
          MaxLives, \* bound: starts of the server
          MaxBreaks \* bound: connections that break

ASSUME TicketAssumption == Nobody \notin Clients /\ Parts \in Nat \ {0} /\ MaxLives \in Nat

VARIABLES server, que_no, life,
          queue,   \* connections not yet accepted; in what order they are is left open
          serving, \* the connection being written to
          total,   \* pieces that write_all has written to it
          client,  \* where each client is
          net_no,  \* the number for each connection, and the life it is from
          wire,    \* pieces of it on their way
          rn,      \* pieces of it the client has read
          closed, broken

ticketVars == <<server, que_no, life, queue, serving, total, client, net_no, wire, rn, closed, broken>>

Connect(c) ==
  /\ client[c] = "idle" /\ server # "down"
  /\ client' = [client EXCEPT ![c] = "read_all"] /\ queue' = queue \cup {c}
  /\ UNCHANGED <<server, que_no, life, serving, total, net_no, wire, rn, closed, broken>>

AcceptClient(c) ==
  /\ server = "accept" /\ c \in queue
  /\ server' = "write_all" /\ serving' = c /\ total' = 0 /\ queue' = queue \ {c}
  /\ net_no' = [net_no EXCEPT ![c] = <<life, que_no>>]
  /\ UNCHANGED <<que_no, life, client, wire, rn, closed, broken>>

\* One write takes any number of the pieces left. To a client that has gone it may
\* succeed all the same, and what it wrote is lost.
WritePieces(n) ==
  /\ server = "write_all" /\ ~broken[serving] /\ n \in 1..(Parts - total)
  /\ total' = total + n
  /\ wire' = IF client[serving] = "read_all" THEN [wire EXCEPT ![serving] = @ + n] ELSE wire
  /\ UNCHANGED <<server, que_no, life, queue, serving, client, net_no, rn, closed, broken>>

\* write_all has returned, and main closes the connection.
Served ==
  /\ server' = "accept" /\ serving' = Nobody /\ closed' = [closed EXCEPT ![serving] = TRUE]
  /\ UNCHANGED <<life, queue, total, client, net_no, wire, rn, broken>>

\* Mutant: -1 although every piece has been written.
WriteFails_whole ==
  /\ server = "write_all" /\ (broken[serving] \/ client[serving] # "read_all")
  /\ UNCHANGED que_no /\ Served

\* It returned -1: the number stays for the next client.
WriteFails ==
  /\ server = "write_all" /\ total < Parts /\ (broken[serving] \/ client[serving] # "read_all")
  /\ UNCHANGED que_no /\ Served

AllWritten == server = "write_all" /\ total = Parts /\ que_no' = que_no + 1 /\ Served

\* The server is killed, at any time or by SIGPIPE when its client has gone.
ServerDies ==
  /\ server # "down"
  /\ server' = "down" /\ serving' = Nobody /\ queue' = {}
  /\ closed' = [c \in Clients |-> closed[c] \/ c = serving \/ c \in queue]
  /\ UNCHANGED <<que_no, life, total, client, net_no, wire, rn, broken>>

ServerStarts ==
  /\ server = "down" /\ life < MaxLives
  /\ server' = "accept" /\ que_no' = 1 /\ life' = life + 1
  /\ UNCHANGED <<queue, serving, total, client, net_no, wire, rn, closed, broken>>

\* One read of read_all; the last prints the number.
ReadPieces(c, n) ==
  /\ client[c] = "read_all" /\ n \in 1..wire[c]
  /\ wire' = [wire EXCEPT ![c] = @ - n] /\ rn' = [rn EXCEPT ![c] = @ + n]
  /\ client' = IF rn'[c] = Parts THEN [client EXCEPT ![c] = "printed"] ELSE client
  /\ UNCHANGED <<server, que_no, life, queue, serving, total, net_no, closed, broken>>

\* read returns 0: main prints what it has, be it a whole number or not.
ReadEnds(c) ==
  /\ client[c] = "read_all" /\ wire[c] = 0 /\ closed[c] /\ ~broken[c]
  /\ client' = [client EXCEPT ![c] = "printed"]
  /\ UNCHANGED <<server, que_no, life, queue, serving, total, net_no, wire, rn, closed, broken>>

\* read fails, or the user gives up: nothing is printed.
ClientLeaves(c) ==
  /\ client[c] = "read_all"
  /\ client' = [client EXCEPT ![c] = "left"] /\ wire' = [wire EXCEPT ![c] = 0]
  /\ UNCHANGED <<server, que_no, life, queue, serving, total, net_no, rn, closed, broken>>

\* What was sent may still arrive after the sender has seen the break.
LinkBreaks(c) ==
  /\ client[c] = "read_all" /\ ~broken[c] /\ Cardinality({d \in Clients : broken[d]}) < MaxBreaks
  /\ broken' = [broken EXCEPT ![c] = TRUE]
  /\ UNCHANGED <<server, que_no, life, queue, serving, total, client, net_no, wire, rn, closed>>

TicketInit ==
  /\ server = "accept" /\ que_no = 1 /\ life = 1
  /\ queue = {} /\ serving = Nobody /\ total = 0
  /\ client = [c \in Clients |-> "idle"]
  /\ net_no = [c \in Clients |-> <<0, 0>>]
  /\ wire = [c \in Clients |-> 0] /\ rn = [c \in Clients |-> 0]
  /\ closed = [c \in Clients |-> FALSE] /\ broken = [c \in Clients |-> FALSE]

TicketNext ==
  \/ WriteFails \/ AllWritten \/ ServerDies \/ ServerStarts
  \/ \E n \in 1..Parts : WritePieces(n) \/ \E c \in Clients : ReadPieces(c, n)
  \/ \E c \in Clients : Connect(c) \/ AcceptClient(c) \/ ReadEnds(c) \/ ClientLeaves(c) \/ LinkBreaks(c)

TicketSpec == TicketInit /\ [][TicketNext]_ticketVars

TicketTypeOK ==
  /\ server \in {"accept", "write_all", "down"}
  /\ que_no \in Nat \ {0} /\ life \in Nat
  /\ queue \subseteq Clients /\ total \in 0..Parts
  /\ serving \in Clients \cup {Nobody} /\ (serving = Nobody) = (server # "write_all")
  /\ client \in [Clients -> {"idle", "read_all", "printed", "left"}]
  /\ net_no \in [Clients -> Nat \X Nat]
  /\ wire \in [Clients -> 0..Parts] /\ rn \in [Clients -> 0..Parts]
  /\ closed \in [Clients -> BOOLEAN] /\ broken \in [Clients -> BOOLEAN]

\* Two clients that have read a whole number from one run of the server do not hold
\* the same, although the server hands a number out again when it could not write
\* all of it and pieces of it may have arrived (pan_serv.c: main, write_all).
UniqueTickets ==
  \A c, d \in Clients : c # d /\ rn[c] = Parts /\ rn[d] = Parts => net_no[c] # net_no[d]
=============================================================================
