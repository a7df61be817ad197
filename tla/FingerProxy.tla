---------------------------- MODULE FingerProxy ----------------------------
(***************************************************************************)
(* The caching finger proxy of exercise 11.17 (finger_proxy.c): one        *)
(* process, one client at a time, a hash table from requests to replies.   *)
(*                                                                         *)
(* A reply of the real finger server is the record of a user, and whether  *)
(* the one read that fetched it got all of it.  The one read of a request  *)
(* may get the beginning of the name only, which is then taken for the     *)
(* name.  Both reads wait for as long as nothing comes.                    *)
(* Descriptors the code forgets to close are counted: the process has      *)
(* MaxFds of them.  A descriptor is lost only while another one is open    *)
(* for the client, so accept always finds a free one; socket may not.      *)
(***************************************************************************)
EXTENDS HashMap

CONSTANTS
  Clients, NoClient,
  EOF,              \* a client that hangs up without a word
  Cut,              \* what one read may take for a name: its beginnings, or all of it
  MaxFds,           \* descriptors the process may have besides the listening one
  UpstreamFailures, \* how the finger server may fail: refuse, hang up, reset
  ShortReads,       \* whether a read may return the first part of a reply
  ClientsMayLeave   \* whether clients may reset their connection

ASSUME ProxyAssumption ==
  /\ NoClient \notin Clients /\ NULL \notin Keys /\ EOF \notin Keys \cup {NULL}
  /\ Cut \in [Keys -> SUBSET Keys] /\ \A k \in Keys : k \in Cut[k]
  /\ MaxFds \in Nat \ {0}
  /\ UpstreamFailures \subseteq {"refuse", "hangup", "reset"}
  /\ ShortReads \in BOOLEAN /\ ClientsMayLeave \in BOOLEAN

Replies == [user : Keys, whole : BOOLEAN]
Answers == [key : Keys, value : Replies, cash : BOOLEAN]
ASSUME ValuesAssumption == Values = Replies /\ NULL \notin Answers

VARIABLES
  map,     \* the table
  pc,      \* where main is
  client,  \* the connection behind sock_fd
  key, value, \* main's buffers, NULL before their first use
  lost,    \* descriptors never closed
  cst,     \* each client: idle, queued, open, closed
  asks,    \* what it sent: a name, EOF, or NULL as long as there is nothing
  left,    \* it reset the connection
  got,     \* what was written to it
  come     \* what main would read from the finger server

main == <<pc, client, key, value, lost>>
clients == <<cst, asks, left, got, come>>
vars == <<map, main, clients>>

TypeOK ==
  /\ map \in Tables
  /\ pc \in {"accept", "read", "get", "connect", "fetch", "relay", "put", "hit", "close", "exited"}
  /\ client \in Clients \cup {NoClient}
  /\ key \in Keys \cup {NULL} /\ value \in Replies \cup {NULL}
  /\ lost \in 0..(MaxFds - 1)
  /\ cst \in [Clients -> {"idle", "queued", "open", "closed"}]
  /\ asks \in [Clients -> Keys \cup {NULL, EOF}]
  /\ left \in [Clients -> BOOLEAN]
  /\ got \in [Clients -> Answers \cup {NULL}]
  /\ come \in {"nothing", "reply", "hangup", "reset"}

Init ==
  /\ map = EmptyTable
  /\ pc = "accept" /\ client = NoClient
  /\ key = NULL /\ value = NULL /\ lost = 0
  /\ cst = [c \in Clients |-> "idle"]
  /\ asks = [c \in Clients |-> NULL]
  /\ left = [c \in Clients |-> FALSE]
  /\ got = [c \in Clients |-> NULL]
  /\ come = "nothing"

-----------------------------------------------------------------------------
(* The clients and the finger server, who may be silent for as long as they *)
(* like.                                                                   *)

Call(c) ==
  /\ cst[c] = "idle"
  /\ cst' = [cst EXCEPT ![c] = "queued"]
  /\ UNCHANGED <<map, main, asks, left, got, come>>

\* A client sends a user name, or hangs up without one.
Ask(c) ==
  /\ cst[c] \in {"queued", "open"} /\ asks[c] = NULL /\ ~left[c]
  /\ \E k \in Keys \cup {EOF} : asks' = [asks EXCEPT ![c] = k]
  /\ UNCHANGED <<map, main, cst, left, got, come>>

Leave(c) ==
  /\ ClientsMayLeave
  /\ cst[c] \in {"queued", "open"} /\ ~left[c]
  /\ left' = [left EXCEPT ![c] = TRUE]
  /\ UNCHANGED <<map, main, cst, asks, got, come>>

\* The finger server answers, or fails.
FingerServer ==
  /\ pc = "fetch" /\ come = "nothing"
  /\ come' \in {"reply"} \cup (UpstreamFailures \cap {"hangup", "reset"})
  /\ UNCHANGED <<map, main, cst, asks, left, got>>

-----------------------------------------------------------------------------
(* main                                                                    *)

Goto(label) == pc' = label

\* A failing accept is reported and tried again.
Accept ==
  /\ pc = "accept"
  /\ \E c \in Clients :
       /\ cst[c] = "queued"
       /\ cst' = [cst EXCEPT ![c] = "open"]
       /\ client' = c
  /\ Goto("read")
  /\ UNCHANGED <<map, key, value, lost, asks, left, got, come>>

\* read of the request, which waits until something has come and takes what has
\* come; a client that hung up is closed.
Read ==
  /\ pc = "read"
  /\ \/ asks[client] \in Keys /\ key' \in Cut[asks[client]] /\ Goto("get")
     \/ (asks[client] = EOF \/ left[client]) /\ UNCHANGED key /\ Goto("close")
  /\ UNCHANGED <<map, client, value, lost, clients>>

\* Mutant: the table is not asked.
Get_never ==
  /\ pc = "get"
  /\ Goto("connect")
  /\ UNCHANGED <<map, client, key, value, lost, clients>>

Get ==
  /\ pc = "get"
  /\ Goto(IF get_node(map, key) = NULL THEN "connect" ELSE "hit")
  /\ UNCHANGED <<map, client, key, value, lost, clients>>

\* setup_cliant: when connect fails its socket stays open, and the client is
\* closed without an answer; without a free descriptor socket itself fails.
Connect ==
  /\ pc = "connect"
  /\ \/ lost + 1 < MaxFds /\ Goto("fetch") /\ UNCHANGED lost
     \/ lost + 1 < MaxFds /\ "refuse" \in UpstreamFailures /\ Goto("close") /\ lost' = lost + 1
     \/ lost + 1 >= MaxFds /\ Goto("close") /\ UNCHANGED lost
  /\ UNCHANGED <<map, client, key, value, clients>>

\* Mutant: a read that returns 0 counts as a reply.
Fetch_nothing ==
  /\ pc = "fetch" /\ come # "nothing"
  /\ value' = NULL
  /\ come' = "nothing"
  /\ Goto("relay")
  /\ UNCHANGED <<map, client, key, lost, cst, asks, left, got>>

\* The request goes out in two writes, and one read waits for the reply and takes
\* what has come of it.  When it gets nothing the client is closed and the socket
\* to the server forgotten; when the first write was answered by a reset the
\* second raises SIGPIPE, which ends the process.
Fetch ==
  /\ pc = "fetch"
  /\ \/ /\ come = "reply"
        /\ \E w \in IF ShortReads THEN BOOLEAN ELSE {TRUE} :
             value' = [user |-> key, whole |-> w]
        /\ Goto("relay") /\ UNCHANGED lost
     \/ /\ come = "hangup"
        /\ lost' = lost + 1
        /\ Goto("close") /\ UNCHANGED value
     \/ come = "reset" /\ Goto("exited") /\ UNCHANGED <<value, lost>>
  /\ come' = "nothing"
  /\ UNCHANGED <<map, client, key, cst, asks, left, got>>

\* What main writes to a client: it arrives, or, when the client is gone, it is
\* lost in silence, or write fails, or SIGPIPE ends the process.
Written(v, cash) ==
  /\ ~left[client]
  /\ got' = [got EXCEPT ![client] = [key |-> key, value |-> v, cash |-> cash]]

\* The reply goes to the client.  When write_all fails main leaves its loop.
Relay ==
  /\ pc = "relay"
  /\ \/ Written(value, FALSE) /\ Goto("put")
     \/ left[client] /\ UNCHANGED got /\ Goto("put")
     \/ left[client] /\ UNCHANGED got /\ Goto("exited")
  /\ UNCHANGED <<map, client, key, value, lost, cst, asks, left, come>>

\* put_node; its result is not looked at, and without memory it does nothing.
Put ==
  /\ pc = "put"
  /\ map' = put_node(map, key, value) \/ UNCHANGED map
  /\ Goto("close")
  /\ UNCHANGED <<client, key, value, lost, clients>>

\* The cached reply and "this is cash" go out; a failing write is reported and
\* main goes on.
Hit ==
  /\ pc = "hit"
  /\ \/ Written(get_node(map, key), TRUE) /\ Goto("close")
     \/ left[client] /\ UNCHANGED got /\ Goto("close")
     \/ left[client] /\ UNCHANGED got /\ Goto("exited")
  /\ UNCHANGED <<map, client, key, value, lost, cst, asks, left, come>>

Close ==
  /\ pc = "close"
  /\ cst' = [cst EXCEPT ![client] = "closed"]
  /\ client' = NoClient
  /\ Goto("accept")
  /\ UNCHANGED <<map, key, value, lost, asks, left, got, come>>

Main == Accept \/ Read \/ Get \/ Connect \/ Fetch \/ Relay \/ Put \/ Hit \/ Close

Next ==
  \/ Main
  \/ \E c \in Clients : Call(c) \/ Ask(c) \/ Leave(c)
  \/ FingerServer

Spec == Init /\ [][Next]_vars

\* The proxy runs.  Nobody else has to do anything: whoever it waits for may let it
\* wait for ever.
FairSpec == Spec /\ WF_vars(Main)

-----------------------------------------------------------------------------
(* Properties.                                                             *)

\* Whoever is answered is answered about the name it sent, or about a beginning of
\* that name which the one read of its request took for it, and about nobody else:
\* from the cache or not, although names share the buckets of the table, one may
\* be the beginning of another, and all share main's buffers.
AnswerIsOwn ==
  \A c \in Clients : got[c] # NULL =>
    asks[c] \in Keys /\ got[c].key \in Cut[asks[c]] /\ got[c].value.user = got[c].key

\* The chains stay in order through any run of the proxy: a node is found from
\* its key, and there is one for each.
TableWellFormed == WellFormed(map)

\* The proxy is a cache: seen through get_node an answer is learned only for a key
\* without one and kept unchanged until all are forgotten, and every client gets,
\* once, a fresh answer to a key that has none or the learned one.
UserOf(v) == v.user
Given == [c \in Clients |->
  IF got[c] = NULL THEN NULL ELSE [key |-> got[c].key, value |-> got[c].value]]
Cache == INSTANCE AnswerCache WITH
  Values <- Replies, KeyOf <- UserOf, learned <- Contents(map), given <- Given
IsAnswerCache == Cache!Spec

\* 11.17.md:53: a reply is added to the table when it came back correctly.
OnlyWholeReplies ==
  \A k \in Keys : get_node(map, k) # NULL => get_node(map, k).whole

\* Main waits in a read, for a client or for the finger server.
Waits ==
  \/ pc = "read" /\ asks[client] = NULL
  \/ pc = "fetch" /\ come = "nothing"

\* Whoever sent a name and stays is answered while main runs, unless main waits for
\* good for somebody who says nothing (its reads have no time-out), or the finger
\* server has failed somebody (every such failure costs a descriptor) and what was
\* read of the name is not in the table: once it is there, whoever asks for it is
\* answered, even when every other descriptor is lost and the finger server is gone.
Answered ==
  \A c \in Clients :
    cst[c] \in {"queued", "open"} /\ asks[c] \in Keys
    ~> \/ got[c] # NULL \/ left[c] \/ pc = "exited"
       \/ lost > 0 /\ \E k \in Keys : /\ asks[c] \in Keys /\ k \in Cut[asks[c]]
                                       /\ get_node(map, k) = NULL
       \/ []Waits
=============================================================================
