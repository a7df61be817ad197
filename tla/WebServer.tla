----------------------------- MODULE WebServer -----------------------------
(***************************************************************************)
(* The forking web server of exercise 12.8 (webserv.c, with socklib.c).    *)
(*                                                                         *)
(* One process runs main's loop: accept, read the request line, skip the   *)
(* headers, fork, close its copy of the connection.  The child looks at    *)
(* the file named by the request and answers by one of five routes (error  *)
(* page, ls, a program, a file, nothing).  SIGCHLD may interrupt a server  *)
(* process between any two steps; its handler reaps zombies.  The file     *)
(* system may change between any two of the child's looks at it.           *)
(*                                                                         *)
(* Everything a process keeps in memory is a function of the process, and  *)
(* fork copies it, so a child never sees what its parent reads later.      *)
(***************************************************************************)
EXTENDS Naturals, FiniteSets

CONSTANTS
  Procs, Main,       \* process slots; Main is the process started by hand
  Conns,             \* the client connections of one run
  Paths, Cwd,        \* files a request may name; Cwd is "./"
  CgiBin, CgiSuffix, \* paths under cgi-bin/, paths that end in .cgi
  Requests,          \* the non-empty request lines clients send
  Empty, NoLine,     \* a request line without a token; nothing sent yet
  FsStates,          \* contents the served directory may have
  MaxChanges,        \* bound on the changes of the served directory
  Backlog,           \* second argument of listen
  AcceptMayFail,     \* whether accept may return -1
  ForkMayFail,       \* whether fork may, with slots left (memory, limits)
  NoProc, NoConn, NoReply

Supported == {"GET", "HEAD", "POST", "PUT", "DELETE", "CONNECT", "OPTIONS", "TRACE"}
Methods   == Supported \cup {"BREW", "garbage"}

\* What stat and fopen find at a path: two contents of a readable file,
\* a file that cannot be opened, a directory, or nothing.
Contents  == {"short", "long"}
FileKinds == Contents \cup {"noperm", "dir", "missing"}

ASSUME ProcsAssumption == Main \in Procs /\ NoProc \notin Procs
ASSUME ConnsAssumption == NoConn \notin Conns
ASSUME PathsAssumption == Cwd \in Paths /\ CgiBin \subseteq Paths /\ CgiSuffix \subseteq Paths
ASSUME RequestsAssumption ==
  /\ Requests \subseteq [cmd : Methods, path : Paths]
  /\ Empty \notin Requests /\ NoLine \notin Requests /\ Empty # NoLine
ASSUME FsAssumption == FsStates # {} /\ FsStates \subseteq [Paths -> FileKinds]
ASSUME BoundsAssumption ==
  MaxChanges \in Nat /\ Backlog \in Nat /\ AcceptMayFail \in BOOLEAN /\ ForkMayFail \in BOOLEAN

VARIABLES
  pc,          \* where each process is; "free" is an unused slot
  parent,      \* who will wait for it
  conn,        \* the variable fd
  fds,         \* the connections the process holds open
  request_str, \* the line last read by fgets
  cmd,         \* the first token last stored by sscanf
  response,    \* what the header prepared so far says
  sigchld,     \* SIGCHLD is pending for the process
  handling,    \* the process is inside child_handler
  cst,         \* connection: idle, queued by the kernel, open
  line,        \* the request line the client sent
  ended,       \* the client sent the blank line that ends its request
  shut,        \* the client will send nothing more
  reply,       \* what the client received
  fs,          \* the served directory
  changes      \* how often it changed

procVars == <<pc, parent, conn, fds, request_str, cmd, response>>
sigVars  == <<sigchld, handling>>
cliVars  == <<line, ended, shut>>
fsVars   == <<fs, changes>>
vars == <<procVars, sigVars, cst, cliVars, reply, fsVars>>

LoopPcs   == {"accept", "fgets", "drain", "fork", "fclose"}
WorkerPcs == {"dispatch", "isadir", "respond", "ls", "exec", "stat", "open"}
Pcs       == LoopPcs \cup WorkerPcs \cup {"free", "zombie", "gone"}
Lines     == Requests \cup {Empty}

Replies ==
  [ request : [cmd : Methods, path : Paths],
    status : {"501", "404", "200", "program", "perror"},
    declared : FileKinds \cup {"text", "absent"},
    body : Contents \cup {"text", "listing", "program", "none"} ]

ASSUME RepliesAssumption == NoReply \notin Replies

TypeOK ==
  /\ pc \in [Procs -> Pcs]
  /\ parent \in [Procs -> Procs \cup {NoProc}]
  /\ conn \in [Procs -> Conns \cup {NoConn}]
  /\ fds \in [Procs -> SUBSET Conns]
  /\ request_str \in [Procs -> Lines]
  /\ cmd \in [Procs -> Methods]
  /\ response \in [Procs -> FileKinds \cup {"none", "501", "404"}]
  /\ sigchld \in [Procs -> BOOLEAN]
  /\ handling \in [Procs -> BOOLEAN]
  /\ cst \in [Conns -> {"idle", "queued", "open"}]
  /\ line \in [Conns -> Lines \cup {NoLine}]
  /\ ended \in [Conns -> BOOLEAN]
  /\ shut \in [Conns -> BOOLEAN]
  /\ reply \in [Conns -> Replies \cup {NoReply}]
  /\ fs \in FsStates
  /\ changes \in 0..MaxChanges

(***************************************************************************)
(* main, up to the first accept: the handler is installed before any       *)
(* child exists.  request_str and cmd are never initialised: a buffer that *)
(* holds no token, and a word that is no method, stand for what the stack  *)
(* happens to hold.                                                        *)
(***************************************************************************)
Init ==
  /\ pc = [p \in Procs |-> IF p = Main THEN "accept" ELSE "free"]
  /\ parent = [p \in Procs |-> NoProc]
  /\ conn = [p \in Procs |-> NoConn]
  /\ fds = [p \in Procs |-> {}]
  /\ request_str = [p \in Procs |-> Empty]
  /\ cmd = [p \in Procs |-> "garbage"]
  /\ response = [p \in Procs |-> "none"]
  /\ sigchld = [p \in Procs |-> FALSE]
  /\ handling = [p \in Procs |-> FALSE]
  /\ cst = [c \in Conns |-> "idle"]
  /\ line = [c \in Conns |-> NoLine]
  /\ ended = [c \in Conns |-> FALSE]
  /\ shut = [c \in Conns |-> FALSE]
  /\ reply = [c \in Conns |-> NoReply]
  /\ fs \in FsStates
  /\ changes = 0

-----------------------------------------------------------------------------
(* The clients, as main's reads depend on them.                            *)

Queued == {c \in Conns : cst[c] = "queued"}

\* Linux queues one connection more than the backlog of listen.
Connect(c) ==
  /\ cst[c] = "idle"
  /\ Cardinality(Queued) <= Backlog
  /\ cst' = [cst EXCEPT ![c] = "queued"]
  /\ UNCHANGED <<procVars, sigVars, cliVars, reply, fsVars>>

SendLine(c) ==
  /\ cst[c] # "idle" /\ ~shut[c] /\ line[c] = NoLine
  /\ \E l \in Lines : line' = [line EXCEPT ![c] = l]
  /\ UNCHANGED <<procVars, sigVars, cst, ended, shut, reply, fsVars>>

SendBlank(c) ==
  /\ ~shut[c] /\ ~ended[c] /\ line[c] # NoLine
  /\ ended' = [ended EXCEPT ![c] = TRUE]
  /\ UNCHANGED <<procVars, sigVars, cst, line, shut, reply, fsVars>>

Shut(c) ==
  /\ cst[c] # "idle" /\ ~shut[c]
  /\ shut' = [shut EXCEPT ![c] = TRUE]
  /\ UNCHANGED <<procVars, sigVars, cst, line, ended, reply, fsVars>>

\* Somebody else edits the served directory.
FsChange ==
  /\ changes < MaxChanges
  /\ changes' = changes + 1
  /\ \E f \in FsStates : fs' = f
  /\ UNCHANGED <<procVars, sigVars, cst, cliVars, reply>>

-----------------------------------------------------------------------------
(* The loop of main.                                                       *)

At(p, label) == pc[p] = label /\ ~handling[p]

Accept(p) ==
  /\ At(p, "accept")
  /\ \E c \in Queued :
       /\ cst' = [cst EXCEPT ![c] = "open"]
       /\ conn' = [conn EXCEPT ![p] = c]
       /\ fds' = [fds EXCEPT ![p] = @ \cup {c}]
  /\ pc' = [pc EXCEPT ![p] = "fgets"]
  /\ response' = [response EXCEPT ![p] = "none"]
  /\ UNCHANGED <<parent, request_str, cmd, sigVars, cliVars, reply, fsVars>>

\* What the kernel takes back from a process that ends.
Forget(p) ==
  /\ fds' = [fds EXCEPT ![p] = {}]
  /\ conn' = [conn EXCEPT ![p] = NoConn]
  /\ request_str' = [request_str EXCEPT ![p] = Empty]
  /\ cmd' = [cmd EXCEPT ![p] = "garbage"]
  /\ response' = [response EXCEPT ![p] = "none"]

\* Mutant: the loop goes on with the descriptor -1.
AcceptFails_unchecked(p) ==
  /\ AcceptMayFail
  /\ At(p, "accept")
  /\ pc' = [pc EXCEPT ![p] = "fgets"]
  /\ fds' = [fds EXCEPT ![p] = @ \cup {NoConn}]
  /\ UNCHANGED <<parent, conn, request_str, cmd, response, sigVars, cst, cliVars, reply, fsVars>>

\* accept returns -1 and nobody looks: fdopen(-1) is NULL and fgets on it
\* kills the process.  Its children go to init, which reaps them.
AcceptFails(p) ==
  /\ AcceptMayFail
  /\ At(p, "accept")
  /\ pc' = [q \in Procs |->
              IF q = p THEN (IF p = Main THEN "gone"
                             ELSE IF parent[p] = NoProc THEN "free" ELSE "zombie")
              ELSE IF parent[q] = p /\ pc[q] = "zombie" THEN "free" ELSE pc[q]]
  /\ parent' = [q \in Procs |-> IF parent[q] = p THEN NoProc ELSE parent[q]]
  /\ sigchld' = [q \in Procs |-> IF q = p THEN FALSE ELSE sigchld[q] \/ q = parent[p]]
  /\ Forget(p)
  /\ UNCHANGED <<handling, cst, cliVars, reply, fsVars>>

\* Mutant: sscanf runs before fgets filled the buffer.
Fgets_late(p) ==
  LET c    == conn[p]
      text == IF line[c] = NoLine THEN request_str[p] ELSE line[c]
  IN /\ At(p, "fgets")
     /\ line[c] # NoLine \/ shut[c]
     /\ request_str' = [request_str EXCEPT ![p] = text]
     /\ cmd' = [cmd EXCEPT ![p] = IF request_str[p] = Empty THEN @ ELSE request_str[p].cmd]
     /\ pc' = [pc EXCEPT ![p] = "drain"]
     /\ UNCHANGED <<parent, conn, fds, response, sigVars, cst, cliVars, reply, fsVars>>

\* fgets leaves the buffer alone at end of file and sscanf leaves cmd alone
\* when there is no token: both then keep what an earlier request left.
Fgets(p) ==
  LET c    == conn[p]
      text == IF line[c] = NoLine THEN request_str[p] ELSE line[c]
  IN /\ At(p, "fgets")
     /\ line[c] # NoLine \/ shut[c]
     /\ request_str' = [request_str EXCEPT ![p] = text]
     /\ cmd' = [cmd EXCEPT ![p] = IF text = Empty THEN @ ELSE text.cmd]
     /\ pc' = [pc EXCEPT ![p] = "drain"]
     /\ UNCHANGED <<parent, conn, fds, response, sigVars, cst, cliVars, reply, fsVars>>

\* read_til_crnl: main itself waits for the end of the headers.
Drain(p) ==
  /\ At(p, "drain")
  /\ ended[conn[p]] \/ shut[conn[p]]
  /\ pc' = [pc EXCEPT ![p] = "fork"]
  /\ UNCHANGED <<parent, conn, fds, request_str, cmd, response, sigVars, cst, cliVars, reply, fsVars>>

FreeSlots == {k \in Procs \ {Main} : pc[k] = "free"}

\* Mutant: fork() without "== 0": parent and child both answer.
Fork_both(p) ==
  /\ At(p, "fork")
  /\ \E k \in FreeSlots :
       /\ pc' = [pc EXCEPT ![p] = "dispatch", ![k] = "dispatch"]
       /\ parent' = [parent EXCEPT ![k] = p]
       /\ conn' = [conn EXCEPT ![k] = conn[p]]
       /\ fds' = [fds EXCEPT ![k] = fds[p]]
       /\ request_str' = [request_str EXCEPT ![k] = request_str[p]]
       /\ cmd' = [cmd EXCEPT ![k] = cmd[p]]
       /\ response' = [response EXCEPT ![k] = response[p]]
  /\ UNCHANGED <<sigVars, cst, cliVars, reply, fsVars>>

\* The child gets a copy of the memory and of the open descriptors.
Fork(p) ==
  /\ At(p, "fork")
  /\ \E k \in FreeSlots :
       /\ pc' = [pc EXCEPT ![p] = "fclose", ![k] = "dispatch"]
       /\ parent' = [parent EXCEPT ![k] = p]
       /\ conn' = [conn EXCEPT ![k] = conn[p]]
       /\ fds' = [fds EXCEPT ![k] = fds[p]]
       /\ request_str' = [request_str EXCEPT ![k] = request_str[p]]
       /\ cmd' = [cmd EXCEPT ![k] = cmd[p]]
       /\ response' = [response EXCEPT ![k] = response[p]]
  /\ UNCHANGED <<sigVars, cst, cliVars, reply, fsVars>>

\* fork returns -1, which is not 0: the request is dropped in silence.
ForkFails(p) ==
  /\ At(p, "fork")
  /\ FreeSlots = {} \/ ForkMayFail
  /\ pc' = [pc EXCEPT ![p] = "fclose"]
  /\ UNCHANGED <<parent, conn, fds, request_str, cmd, response, sigVars, cst, cliVars, reply, fsVars>>

\* Mutant: the parent keeps its copy of the connection.
Fclose_kept(p) ==
  /\ At(p, "fclose")
  /\ conn' = [conn EXCEPT ![p] = NoConn]
  /\ pc' = [pc EXCEPT ![p] = "accept"]
  /\ UNCHANGED <<parent, fds, request_str, cmd, response, sigVars, cst, cliVars, reply, fsVars>>

Fclose(p) ==
  /\ At(p, "fclose")
  /\ fds' = [fds EXCEPT ![p] = @ \ {conn[p]}]
  /\ conn' = [conn EXCEPT ![p] = NoConn]
  /\ pc' = [pc EXCEPT ![p] = "accept"]
  /\ UNCHANGED <<parent, request_str, cmd, response, sigVars, cst, cliVars, reply, fsVars>>

-----------------------------------------------------------------------------
(* process_rq in the child.                                                *)

parse_method(s) == IF s \in Supported THEN s ELSE "UNKNOWN"

in_cgi_bin(path)  == path \in CgiBin
ends_in_cgi(path) == path \in CgiSuffix

\* request.path is "./" followed by the second token, if there is one.
Request(p) ==
  [ cmd  |-> cmd[p],
    path |-> IF request_str[p] = Empty THEN Cwd ELSE request_str[p].path ]

Found(p) == fs[Request(p).path]

\* _exit, or exit: the descriptors close and the parent gets SIGCHLD.
Exit(p) ==
  /\ pc' = [pc EXCEPT ![p] = IF parent[p] = NoProc THEN "free" ELSE "zombie"]
  /\ sigchld' = [q \in Procs |-> sigchld[q] \/ q = parent[p]]
  /\ Forget(p)
  /\ UNCHANGED <<parent, handling, cst, cliVars, fsVars>>

Answer(p, status, declared, body) ==
  reply' = [reply EXCEPT ![conn[p]] =
              [ request |-> Request(p), status |-> status,
                declared |-> declared, body |-> body ]]

UnlessHead(p, body) == IF parse_method(cmd[p]) = "HEAD" THEN "none" ELSE body

Goto(p, label, prepared) ==
  /\ pc' = [pc EXCEPT ![p] = label]
  /\ response' = [response EXCEPT ![p] = prepared]
  /\ UNCHANGED <<parent, conn, fds, request_str, cmd, sigVars, cst, cliVars, reply, fsVars>>

\* Mutant: without not_exist.
Dispatch_nostat(p) ==
  /\ At(p, "dispatch")
  /\ \/ parse_method(cmd[p]) = "UNKNOWN" /\ Goto(p, "respond", "501")
     \/ parse_method(cmd[p]) # "UNKNOWN" /\ Goto(p, "isadir", response[p])

\* The method test and, in the next else branch, not_exist's stat.
Dispatch(p) ==
  /\ At(p, "dispatch")
  /\ \/ parse_method(cmd[p]) = "UNKNOWN" /\ Goto(p, "respond", "501")
     \/ /\ parse_method(cmd[p]) # "UNKNOWN"
        /\ \/ Found(p) = "missing" /\ Goto(p, "respond", "404")
           \/ Found(p) # "missing" /\ Goto(p, "isadir", response[p])

\* isadir's own stat, then the two tests of the name.
Isadir(p) ==
  LET path == Request(p).path
      cgi  == in_cgi_bin(path) \/ ends_in_cgi(path)
  IN /\ At(p, "isadir")
     /\ \/ Found(p) = "dir" /\ Goto(p, "ls", response[p])
        \/ Found(p) # "dir" /\ cgi /\ Goto(p, "exec", response[p])
        \/ Found(p) # "dir" /\ ~cgi /\ Goto(p, "stat", response[p])

\* Mutant: _exit before the page left the buffer of stdio.
Respond_unflushed(p) ==
  /\ At(p, "respond")
  /\ UNCHANGED reply
  /\ Exit(p)

\* cannot_do or do_404 prepared the page; send_header, send_body, _exit(1).
Respond(p) ==
  /\ At(p, "respond")
  /\ Answer(p, response[p], "text", UnlessHead(p, "text"))
  /\ Exit(p)

\* Mutant: ls runs whatever the method.
DoLs_always(p) ==
  /\ At(p, "ls")
  /\ Answer(p, "200", "absent", "listing")
  /\ Exit(p)

\* The header goes out; for HEAD that is all, else ls writes the listing.
DoLs(p) ==
  /\ At(p, "ls")
  /\ Answer(p, "200", "absent", UnlessHead(p, "listing"))
  /\ Exit(p)

\* The program owns the connection, whatever the method.  When execl fails
\* the text of perror goes to the client, descriptor 2 being its connection.
DoExec(p) ==
  /\ At(p, "exec")
  /\ \/ Found(p) \in Contents /\ Answer(p, "program", "absent", "program")
     \/ Found(p) \notin Contents /\ Answer(p, "perror", "absent", "text")
  /\ Exit(p)

\* Mutant: the length is taken from st_blocks, rounded up.
DoCatStat_blocks(p) ==
  /\ At(p, "stat")
  /\ \/ Found(p) = "missing" /\ Goto(p, "fclose", "404")
     \/ Found(p) # "missing" /\ Goto(p, "open", "long")

\* do_cat's stat.  When the file is gone by now do_cat returns, handle is set
\* to 1, process_rq returns, and the child goes on as main does.
DoCatStat(p) ==
  /\ At(p, "stat")
  /\ \/ Found(p) = "missing" /\ Goto(p, "fclose", "404")
     \/ Found(p) # "missing" /\ Goto(p, "open", Found(p))

\* fopen: without a readable file the child leaves and says nothing.  Reading
\* a directory ends at once.
DoCatOpen(p) ==
  /\ At(p, "open")
  /\ \/ Found(p) \in {"missing", "noperm"} /\ UNCHANGED reply
     \/ Found(p) = "dir" /\ Answer(p, "200", response[p], "none")
     \/ Found(p) \in Contents /\ Answer(p, "200", response[p], UnlessHead(p, Found(p)))
  /\ Exit(p)

-----------------------------------------------------------------------------
(* child_handler: waitpid with WNOHANG until it finds no zombie.  SIGCHLD   *)
(* is masked meanwhile; signals that arrive twice are pending once.        *)

ZombiesOf(p) == {q \in Procs : parent[q] = p /\ pc[q] = "zombie"}

HandlerEnter(p) ==
  /\ sigchld[p] /\ ~handling[p] /\ pc[p] \in LoopPcs
  /\ sigchld' = [sigchld EXCEPT ![p] = FALSE]
  /\ handling' = [handling EXCEPT ![p] = TRUE]
  /\ UNCHANGED <<procVars, cst, cliVars, reply, fsVars>>

HandlerReap(p) ==
  /\ handling[p]
  /\ \E q \in ZombiesOf(p) :
       /\ pc' = [pc EXCEPT ![q] = "free"]
       /\ parent' = [parent EXCEPT ![q] = NoProc]
  /\ UNCHANGED <<conn, fds, request_str, cmd, response, sigVars, cst, cliVars, reply, fsVars>>

\* Mutant: one waitpid per signal instead of the loop.
HandlerReturn_once(p) ==
  /\ handling[p]
  /\ handling' = [handling EXCEPT ![p] = FALSE]
  /\ UNCHANGED <<procVars, sigchld, cst, cliVars, reply, fsVars>>

HandlerReturn(p) ==
  /\ handling[p]
  /\ ZombiesOf(p) = {}
  /\ handling' = [handling EXCEPT ![p] = FALSE]
  /\ UNCHANGED <<procVars, sigchld, cst, cliVars, reply, fsVars>>

-----------------------------------------------------------------------------
LoopStep(p) ==
  Accept(p) \/ Fgets(p) \/ Drain(p) \/ Fork(p) \/ ForkFails(p) \/ Fclose(p)

WorkerStep(p) ==
  \/ Dispatch(p) \/ Isadir(p) \/ Respond(p) \/ DoLs(p) \/ DoExec(p)
  \/ DoCatStat(p) \/ DoCatOpen(p)

HandlerStep(p) == HandlerEnter(p) \/ HandlerReap(p) \/ HandlerReturn(p)

ClientStep(c) == Connect(c) \/ SendLine(c) \/ SendBlank(c) \/ Shut(c)

Next ==
  \/ \E p \in Procs : LoopStep(p) \/ AcceptFails(p) \/ WorkerStep(p) \/ HandlerStep(p)
  \/ \E c \in Conns : ClientStep(c)
  \/ FsChange

Spec == Init /\ [][Next]_vars

\* A process that can run does; a pending signal is delivered; a client that
\* connected stops sending some day.  Nobody is obliged to connect, to send a
\* whole request, to edit the directory, or to make accept fail.
Fairness ==
  /\ \A p \in Procs : /\ WF_vars(LoopStep(p))
                      /\ WF_vars(WorkerStep(p))
                      /\ WF_vars(HandlerStep(p))
  /\ \A c \in Conns : WF_vars(Shut(c))

FairSpec == Spec /\ Fairness

-----------------------------------------------------------------------------
(* Safety.                                                                 *)

\* Whoever sent a request line is answered for that line, although the
\* buffers main parses into are reused and main overwrites them while earlier
\* children still work: fork must come after the parse and copy its result.
ReplyIsOwn ==
  \A c \in Conns : reply[c] # NoReply =>
    /\ line[c] \in Requests => reply[c].request = line[c]
    /\ line[c] = Empty => reply[c].request.path = Cwd

Working == {"fgets", "drain", "fork"} \cup WorkerPcs

\* The request a process holds after the parse is the one its client sent.
Parsed(p, c) ==
  /\ line[c] = NoLine => shut[c]
  /\ line[c] = Empty => request_str[p] = Empty
  /\ line[c] \in Requests => request_str[p] = line[c] /\ cmd[p] = line[c].cmd

\* From accept to the answer exactly one process works on a connection, first
\* the server and then its child, with the request of that connection in its
\* buffers, and nothing has been answered: the reason for ReplyIsOwn and
\* AnsweredOnce, and inductive together with them.
OneAtWork ==
  /\ \A p \in Procs : pc[p] \in Working =>
       /\ conn[p] \in Conns
       /\ cst[conn[p]] = "open"
       /\ reply[conn[p]] = NoReply
       /\ pc[p] # "fgets" => Parsed(p, conn[p])
  /\ \A p, q \in Procs :
       pc[p] \in Working /\ pc[q] \in Working /\ conn[p] = conn[q] => p = q
  /\ \A c \in Conns : reply[c] # NoReply =>
       cst[c] = "open" /\ (line[c] = NoLine => shut[c])

\* At most one process ever answers a connection, and once: process_rq's
\* parent goes on without answering, and a child that returned into main's
\* loop holds no old connection.
AnsweredOnce ==
  [][\A c \in Conns : reply[c] # NoReply => reply'[c] = reply[c]]_vars

\* Of two processes that hold a connection one is about to close it: otherwise
\* the client would wait for the end of file as long as an unrelated request
\* runs, since a child inherits every descriptor its parent has open.
HeldByItsWorker ==
  \A p, q \in Procs : p # q /\ fds[p] \cap fds[q] # {} =>
    pc[p] = "fclose" \/ pc[q] = "fclose"

\* Children only ever answer: the one process at work on new connections is
\* the one that was started.  True of a directory nobody edits.
OneServer ==
  \A p \in Procs : pc[p] \in LoopPcs => p = Main

\* A HEAD request gets no body from the pages webserv.c writes itself: the
\* error pages, directory listings and files.
HeadWithoutBody ==
  \A c \in Conns :
    /\ reply[c] # NoReply
    /\ reply[c].request.cmd = "HEAD"
    /\ reply[c].status \in {"200", "404", "501"}
    => reply[c].body = "none"

\* 12.7.md:46: the client learns from Content-Length how many bytes of body are
\* still to come.  True of a directory nobody edits: stat and fopen look twice.
LengthIsBody ==
  \A c \in Conns :
    reply[c] # NoReply /\ reply[c].body \in Contents
    => reply[c].declared \in {reply[c].body, "absent"}

\* webserv.c:147: what is carried out is what the client asked for.  A client that
\* sent nothing may get an error page or no answer, and never what another one asked.
OnlyWhatWasAsked ==
  \A c, d \in Conns :
    line[c] = NoLine /\ reply[c] # NoReply => reply[c].request # line[d]

-----------------------------------------------------------------------------
(* Liveness.                                                               *)

\* Every child that ended is waited for, however its SIGCHLD coalesces with
\* those of its siblings and whatever main is blocked in (12.2.md:22).
ZombiesReaped ==
  \A q \in Procs : pc[q] = "zombie" ~> pc[q] # "zombie"

\* Every accepted connection is closed by all who hold it: the client sees
\* the end of the reply, or of a connection that was dropped.
EofReached ==
  \A c \in Conns : cst[c] = "open" ~> \A p \in Procs : c \notin fds[p]

\* Who sends a whole request for a file that can be read gets a reply, given
\* a process slot for every connection.
Answered ==
  \A c \in Conns :
    line[c] \in Requests /\ ended[c] /\ fs[line[c].path] # "noperm"
    ~> reply[c] # NoReply
=============================================================================
