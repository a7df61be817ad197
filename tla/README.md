# Specifications of the LearningUnix programs

The repository collects the programs of a course on Unix system programming, one
directory per chapter and exercise. Most of them are a page of C with little
state. Some are real concurrent systems: servers that fork, caches in front of
other servers, libraries that own processes, shells, programs driven by signals.
This directory holds TLA+ models of those, TLC configurations that check them,
and proofs checked by TLAPS.

Every definition is a translation of the C source named for it in `PROJECT.json`
("map"). Where the prose of an exercise (`*.md`) and its program disagree, the
model follows the program and the prose becomes a property that a run shows to
be violated.

## 1. Inventory

Paths are relative to `src/`. "Modelled by" names modules of this directory.

| component | state it keeps | operations | interacts with | modelled by |
|---|---|---|---|---|
| Web server (`chapter12/question/12.8`, final form; 12.9 is the same file, 12.3 to 12.7 earlier forms) with `socklib.c` | request buffer, parsed words, prepared response, open connections, children | accept loop, read of request and headers, fork, five ways to answer, SIGCHLD handler | clients (TCP), the file system, `ls` and CGI programs, init | WebServer |
| popen/pclose (`chapter11/question/11.08`) | `proc_table`, streams, pipe descriptors, children | popen, pclose, the child up to exec | the caller, the commands, descriptors inherited by fork | PopenTable |
| Caching finger proxy (`chapter11/question/11.17`) | hash table, buffers, descriptors | accept loop, fetch from the finger server, answer from the table | clients, finger server, hash map | FingerProxy, AnswerCache |
| Hash map (same directory) | chains of nodes | put, get, free | finger proxy | HashMap |
| Caching time server (`chapter11/question/11.16`) | one reply and the time it was fetched | accept loop, refill, hit | clients, time server | TimeCache, TimeServer |
| Ticket server and client (`chapter11/question/11.18`) | the next number | accept loop with write_all; connect and read_all | each other | Tickets |
| Other chapter 11 servers: `timeserv` (11.12), `rlsd` (11.05, 11.13), `fingerd` (11.14), `proxy_timeserv` and `rls` (11.15) | none between clients | accept, popen or a look at the clock, answer | clients, shell commands | not modelled: the accept loops of the modelled servers, with less to keep |
| `tinybc` and pipes to `dc` (11.06, 11.11), `subsort` (11.10) | two pipes, one child | write, read back | `dc`, `sort` | not modelled: `tinybc` sends one short line each way, which cannot fill a pipe; `subsort` writes everything and closes before it reads, and `sort` answers only then |
| Pipelines: `pipe`, `pipe3` (10.13), `pipe4` (10.14), `progtee`/`tee` (10.15), redirections (10.11, 10.12, 10.16) | descriptors of several processes | fork, dup2, close, exec, wait | the commands | Pipeline (pipe4; pipe3 is its case of three) |
| Shells with a flat `if`: `smsh2` (9.06, 9.07) | the state of the `if` | process, if/then/else/fi, ok_to_execute | commands | IfTwoVars, IfOneVar |
| Shells with blocks: `smsh2` (9.09, 9.10; 10.03 is a copy of 9.10) | the block being read | parse, execute, free | commands | BlockShell |
| Shell with `&`: `smsh1` (9.08) | children | execute, wait, exit | commands | BackgroundShell |
| Other shells: `smsh1` (9.04, 9.05), `psh1` to `psh3` (8.03, 8.11, 8.12), the book's files in `chapter9/` with `varlib` | none, or a variable table | one command at a time; assignment, export | commands, the environment | not modelled: sequential |
| Wait demos of chapter 8: `waitdemo*`, `waitdemo_sigchld*` (8.09, 8.10), `forkdemo*` | a counter shared with a handler | fork, sleep, SIGCHLD handler | children | ChildCounter (8.10) |
| Signal and timer programs: `bounce*` (7.05, 7.07, 7.15, 7.17), `denkou` (7.09), `reaction` (7.16), `hello*`, `ticker_demo`, `sleep`, `timeout`, `metronome`, `sigdemo*` | globals shared by main and handlers | main loop, SIGALRM/SIGIO/SIGINT handlers, aio completion | terminal, timers | Bounce2d (7.17) |
| Link-based lock on a file: `lockpasswd` (5.24), `lockpasswd2` (5.25), `addtext` (5.24) | a lock file and its age, a held file | link, stale-lock removal, ticker that touches, unlock | rival processes, the file system | LinkLock |
| utmp buffering: `utmplib.c`, `logout.c` (2.13; earlier 2.10, 2.12), `who*` | a read-ahead buffer over a file | open, next, seek back, write | utmp file | not modelled: sequential, and the one write goes to a file opened for reading |
| Terminal programs: `play_again*` (6.03, 6.04), `rotate` (6.05, 6.06), `more*` (5.29, 6.11), `sigdemo*`, `setecho`, `showtty`, `write`, `mesg1` | terminal modes | set, read with time-out, restore | terminal | not modelled: their state is the terminal's mode, restored on a single path |
| File utilities: `cp*`, `mv1`, `mkdir1`, `rename1`, `chown1`, `ls*`, `spwd`, `superblock1`, `lastdata`, `uppercase`, `make2mfile`, `remove_sync`, `mknod1` | none beyond one call | one pass over files | file system | not modelled: sequential, no invariant across steps |
| First programs of chapters 1 to 3 | none | none | terminal | not modelled |
| `chapter3/question/3.09/shadow-4.8.1` | | | | not modelled: vendored third-party source |

What is hard in these programs, and where:

* **fork copies, everything else is shared.** The web server answers in a child
  while main reuses its buffers; popen's children inherit the pipe ends of every
  stream opened before; the ticket, time and finger servers serve one client at
  a time, so one client can hold up or end the server.
* **Signals.** SIGCHLD coalesces; handlers run between any two steps of main and
  use its globals; `pause` can sleep through the signal it waits for.
* **Looking twice.** The web server stats a file up to three times before it opens it;
  the lock program stats the lock it is going to unlink.
* **Failures of one step among several.** accept, fork, fdopen, connect, read and
  write are checked in some places only.
* **Short reads** of sockets taken for whole messages.
* **Bounded tables** (`proc_table`, descriptors, process slots, listen queues).

## 2. Plan

1. (done) WebServer, PopenTable, FingerProxy with HashMap and AnswerCache: the
   three programs with the most state, and their proofs.
2. (done) TimeCache composed with TimeServer, the other server with state between
   clients; LinkLock, mutual exclusion by link(2) and what stale-lock removal does to it.
3. (done) The small programs, one module each: the flat `if` and its refinement
   (IfTwoVars, IfOneVar), the block shells (BlockShell), the shell with `&`
   (BackgroundShell), Tickets, Pipeline, ChildCounter, Bounce2d. Their state spaces are
   small, so Programs composes them: its initial state picks the program that runs.
4. (done) Proofs of every safety property and action property the runs check, also of the
   composition Programs, and of the safety half of the liveness properties.
5. Left: the refinement of an abstract mutex by LinkLock up to slips, and the safety half of
   TimeCache's Served, which says no more than that main's loop has a step in every state.

## 3. Modules

### WebServer

One process is main; `Fork` gives a free slot of `Procs` a copy of everything a
process keeps in memory (`conn`, `request_str`, `cmd`, `response`) and of its open
descriptors (`fds`). `pc[p]` names the next system call of the process that can be
observed by, or interleave with, somebody else:

| pc | source | action |
|---|---|---|
| accept | webserv.c:129 | Accept, AcceptFails |
| fgets | :133 to :143 | Fgets |
| drain | read_til_crnl | Drain |
| fork | :163 | Fork, ForkFails |
| fclose | :150 | Fclose |
| dispatch, isadir | :165 to :179 with not_exist and isadir | Dispatch, Isadir |
| respond | cannot_do, do_404, :181 to :189 | Respond |
| ls, exec | do_ls, do_exec | DoLs, DoExec |
| stat, open | do_cat's stat, then its fopen to _exit | DoCatStat, DoCatOpen |

`handling[p]` says that the process is inside `child_handler`; SIGCHLD is pending at
most once (`sigchld`). Uninitialised buffers hold "no token" and a word that is no
method. A file is one of two contents, unreadable, a directory or missing, and
`FsChange` may put another one in its place between any two steps. Header text,
time stamps and the environment handed to programs are left out; of the header
the model keeps the status and what Content-Length says.

An accept that fails is not survived: fdopen(-1) returns NULL and fgets of NULL
ends the process (`AcceptFails`). Init adopts and reaps its children.

### PopenTable

The k-th popen makes pipe k and child k. A descriptor is a pair (pipe, end). `fds` is
what the caller holds and `held[k]` what child k holds: a copy of the caller's at
the fork, so the pipe ends of older streams are in it (popen.c:43). A call is split
where a child can run in between: after the fork, and at wait4/waitpid. Commands
are of two kinds: those that end by themselves (in the modes of `EndsItself`), and those
that end when their pipe is released by everybody at the caller's end (`cat`, `sort`: end
of file; `yes`: SIGPIPE). A child that cannot redirect or start its command exits at once.

The ways out on which popen and pclose give up are actions too: `PopenFails` is a failing
close of the child's end (:72) or a failing fdopen (:78), `PcloseFails` a failing fclose
(:102), and `waitpid`, which popen calls once (:87), may be interrupted, while `wait4` is
repeated (:106). Each of the three gives its descriptors back and forgets the child; `cut`
is the history of the children forgotten so, which only NoLostChild looks at. close and
fclose release the descriptor also when they fail, as on Linux. `OtherWait` is a wait
elsewhere in the caller's program, which may take the children of `WaitedElsewhere`; wait4
then fails and pclose returns.

### HashMap, FingerProxy, AnswerCache

HashMap states put_node, get_node and free_map as operators on a function from
buckets to chains; the hash function is a constant, so what is shown holds for every
hash function. FingerProxy is main's loop, one action per system call that can
fail or block. Only descriptors that are forgotten are counted (`lost`). A client
connects (`Call`) and sends its name, or hangs up without one, whenever it likes or never
(`Ask`); `Read` waits for that, and takes what one read gets of the name: one of
`Cut[name]`, the name or a beginning of it that is a name too. `Fetch` waits in the same
way for what the finger server does (`FingerServer`), for ever if it does nothing.
AnswerCache is what a cache promises: an answer is learned once and repeated unchanged until
the cache is emptied (`Forget`), as 11.17.md:57 plans; a client gets a fresh answer to its key or
the learned one. FingerProxy implements it with `learned <- Contents(map)` and
`given <- Given`, without ever taking `Forget`: nothing calls free_map.

### TimeServer, TimeCache

TimeServer is the server of 11.09 as its caller sees it: `link` is the one connection the
proxy has to it, with what can be read from it. All hosts read one clock that counts
seconds, because both programs compare or print seconds. A reply is `Size` parts, since
reads of a socket may cut it anywhere; each part carries the second it tells. `MaxFaults`
bounds how often the server is killed, the link is reset (`Break`) or it falls silent
(`Silence`: a pulled cable, or the server's host crashed, so that neither data nor an end
arrives); a killed server may start again.

TimeCache EXTENDS TimeServer with main of cash_timeserv.c and the clients. `Accept` is
accept, gettimeofday and the choice between server and cache (:57); then Connect, Read,
ReadEnds and Save, or Hit; then Close. `rec_time` gets the second of the accept, not of
the end of the fetch. `lost` counts the sockets that a refused connect leaves open. Writing
to a client that has left is lost in silence, or fails, or SIGPIPE ends the proxy.

### LinkLock

addtext and lockpasswd2 as rivals for one link. The link is another name of /etc/passwd,
so both have one modification time: `age`, in seconds and counted to `Seconds + 1`, the
only difference the code can see. `Second` is the clock: a timer that is due sends SIGALRM,
which is pending at most once (`alarm`), and starts again. The handler is an action of its
own, `UpdateLocktime`, which runs at once or any number of seconds later, or never: nothing
in the code bounds how late a handler is. `seen` is st_mtime between stat and time.
`Denied` are processes without permission in the directory. `warmed` and `slipped` are
history: the first says whose handler has run while they held the lock, the second that
somebody went on without a link or lost one it needed. main does not look at what lock_passwd
returns, so a process may be inside without the lock (LinkDenied, StatFails).
lockpasswd.c of 5.24 defines the lock but never calls it, and is left out.

### Programs

One behaviour of Programs is one behaviour of one small program; the variables of the
others stay as they started. What each keeps:

**IfTwoVars, IfOneVar.** One action per keyword of do_control_command, and Command for the
rest of process(). `done` is what the user sees of the last line: whether a command ran and
whether there was a complaint. 9.07 implements 9.06 with `if_state <- Block` and
`if_result <- last_stat = 0`: its single state forgets the result of the condition in
NEUTRAL, where 9.06 keeps an old one, and last_stat happens to remember it.

**BlockShell.** A line is one of the words the parsers tell apart, a condition with its
outcome, a command, a blank line or the end of the input. `frames` are the calls of
parse_if_block (or one of parse_while_block) that are open, each with the parts it has filled;
`at` says whether the shell is at the prompt, in a block, returning from a call (`Return` with a
line for the caller, `Unwind` with NULL), about to read the line after an outermost `fi`, or has
ended, crashed or hung. A statement is kept as the lines it executes: its conditions are known
when it has been read, so exec_block's walk through the tree is the concatenation of what its
statements execute (`Exec`). `reading` is history: what a reader makes of the same lines who
keeps a stack of conditions and no block (`ReadAs`). BlocksRunAsRead compares the two.

**BackgroundShell.** execute() is cut at wait, which takes any child that has ended.

**Tickets.** A number is `Parts` pieces; `total`, `wire` and `rn` count those written, on
their way and read. Connections that wait are a set, so in any order. The client may leave,
its link break and the server die at any time; `life` tells apart numbers of different starts.

**Pipeline.** `holds[p]` are the pipe ends of each process, copied by fork and given up by
close_pipes. The commands copy items from left to right, end by themselves after `left` of
them or never, and otherwise by the end of their input or SIGPIPE.

**ChildCounter.** main, the handler and the children; SIGCHLD pends at most once and is
blocked while the handler runs.

**Bounce2d.** The handler ball_move is one step, because main, which it interrupts, touches
only the racket once the ball is served, and that in one store. The bound `Outside` ends the
flight of a lost ball. `missed` is history.

## 4. Runs

`PROJECT.json` says what each run shows; this table says why its bounds are enough.

| run | asks | bounds and why they are enough |
|---|---|---|
| web_safety | replies, workers, descriptors | two clients and three processes: a parent, a child, and a child of a child or sibling; one change of the directory lets every pair of looks differ; accept and fork may fail anywhere |
| web_live | reaping, end of connections, answers; one server and true lengths while nobody edits the directory | two children may end inside one handler call |
| web_rogue, web_stale | comments of webserv.c | violated, see section 6 |
| popen | the table, the descriptors, termination | two streams, two slots, four calls: a full table, slots and FILE pointers used again, any order of closing; one failing system call (`MaxFailures`) anywhere, and one child another wait may take, each of which leaves the table as a success would; commands that are written to end with their input, commands that are read from in either way |
| popen_anyorder | pclose returns in any order | violated |
| finger | the cache, its refinement, answers | three clients, two names in one bucket, one the beginning of the other, two descriptors, every failure: a miss, a failure that costs the last descriptor, a hit; any client or the finger server may stay silent |
| finger_short | exercise text | violated |
| time_cache | ages and wholeness of replies, calls saved, answers | three clients: two of one second and one of another, or a miss, a hit and a miss; three seconds, so that a fetch may cross two; replies of two parts; one fault of any kind, a silent link included; two descriptors, so that one refused connect costs the last |
| lock | mutual exclusion, recovery | one addtext, two lockpasswd2 and one without permission: a holder and two that judge its lock; an interval of two seconds, so that young, due and old differ |
| lock_break | exercise text | violated |
| programs | each small program does what it is for | blocks of eight lines, so that an inner `if` with an `else` part is read to its end, with one line of the other kind; four commands, two of each kind; three clients, two pieces, one break, two starts: a failed and a complete delivery before a third, and numbers given again; pipelines of three, so that one command is in the middle, with pipes of one item and commands that end at once, after one item or never; four children, so that two end while two are reaped; a court of four by four with speeds 2 and 3, in which the ball gets into corners |

CHECK_DEADLOCK is FALSE everywhere because clients and callers may stop coming.

Fairness: a process that can run does (WF on the steps of each process, the kernel's
scheduler), pending signals are delivered (WF on each handler), commands that can end do
end, and clients that connected stop sending some day (WF on `Shut`): without that one
client blocks read_til_crnl for ever, which is a real weakness of the server and stated as
the assumption it is. In FingerProxy only main runs (WF on `Main`): its reads at
finger_proxy.c:60 and :81 have no time-out, so clients and finger server may stay silent, and
`Answered` excepts a main that is left waiting in one of them for good (`[]Waits`). In LinkLock
the clock runs and input comes (WF on `Second` and on each `Step`), while a handler may be late for
ever; in TimeCache the two processes run (WF on `Main` and `Serve`), while a stopped server may
stay stopped, the clock may stand, and `Served` excepts a main whose read (cash_timeserv.c:66) is
left with a silent link. In Programs the processes of ChildCounter and
Pipeline run, sleeping children wake and SIGCHLD is delivered; the other small programs have
no fairness. Nobody has to connect, to start or be
killed, to send anything, to open or close a stream, or to make a call fail.

## 5. Proofs

| module | theorems | argument |
|---|---|---|
| WebServer_proofs | TypeCorrect, OneAtWorkAlways, RepliesAreOwn, RepliesAreFinal | `OneAtWork` is inductive together with the shape of the process table: who is between accept and the reply owns its connection alone. A process that has parsed a line holds that line; fork moves the ownership from parent to child, because the parent's next step is `fclose`. A reply is written only by an owner and ends it. |
| | HeldByOne, HeadIsHeaderOnly | a connection that is held by a process that neither works on it nor is about to close it would have been inherited; `Holding` says that outside a request the loop holds none, so there is nothing to inherit. A body follows a header only after the test for HEAD. |
| | OnlyMainServes, LengthsAgree | under `MaxChanges = 0`. Each look at a file finds what the one before found (`StillThere`, `FoundAgain`): not_exist, isadir, stat and fopen of one request agree, so do_cat's early return is not reached and the length declared is that of the contents sent. With one change both are false: web_rogue violates the first, and section 6 tells of the second. |
| | NoZombieForgotten | parents are in the loop (`Parents`); an exit raises the parent's SIGCHLD, a child without a living parent goes to init, and the handler returns only when there is no zombie left. |
| | NoRequestDropped | step by step: whoever works on a connection answers it, goes on, or hands it to a child; the other ways out are the failures of fork and of do_cat's stat and fopen. |
| PopenTable_proofs | TypeCorrect, TableIsExact, DescriptorsBalance, PcloseWaits | the table and the open streams determine each other at every step, also inside a call, when the newest child is in neither; the caller's descriptors are those of its open streams plus, inside popen, both ends of the newest pipe. |
| | NobodyIsLost, WaitsForSomebody | who is alive and not behind a call that was cut short is in the table, or popen's newest, or waited for (`Remembered`), and conversely each of these is alive, or was taken by a wait elsewhere in the program (`Waitable`); a pid left in a freed slot does not count as one in the table. `MaxFailures` is any number: all calls may fail. |
| | OnlyHeirsHoldUp | a child has ends of its own pipe and of older ones only, and of its own not the caller's (`HeldShape`); the caller closed its end before it waits (`LetGo`). So the newest child, which popen collects when the table is full, is held up by nobody, and any other only by an heir. |
| FingerProxy_proofs | TypeCorrect, TableStaysWellFormed, AnswersAreOwn, ImplementsAnswerCache | main's buffers belong to the client it serves between Read and Close, and hold one of `Cut` of what it sent; put_node is reached only for a key that get_node missed, so the proxy's steps map to learning and repeating. |
| | PutIsUpdate | hashmap.c by itself: a node is found at the first index that holds its key; an insert at the front, or a new value in place, changes no other lookup. |
| | ClosedIsAnswered | why main is about to close somebody (`Accounted`): it wrote, the client left or hung up without a name, or a descriptor was lost for it on a miss. `MaxFds > 1`, since with one descriptor the finger server is never called. |
| LinkLock_proofs | TypeCorrect, OneInside, LockStaysWarm | until a slip, who is past its lock owns the link. For the third: while the handler of an owner that it has warmed has no signal waiting, age + timer never exceeds Seconds: age grows as the timer falls, a timer that restarts leaves a signal, and the handler that takes it sets the age to zero. A signal that waits is the exception the theorem names, and nothing in the code bounds how long it does. Nobody without permission ever owns the link. |
| | NoLinkLeftBehind | also after slips: unlock_passwd does not look whose link it removes, but the one who runs it is the only one whose link could be left. |
| TimeCache_proofs | TypeCorrect, NobodyIsToldAnOldTime, RepliesAreNotMixed | what is in the cache and what is left in the link split one reply (`Split`), through cuts by reads, breaks and silence; its parts are no older than the client being served, and the cache is served only in the second of its stamp. The lemmas on slices of a reply rest on SequenceTheorems. |
| | CacheSavesCalls | nobody who received something was accepted later than the stamp of the reply main has, or is fetching, and if that was in the second of the clock the reply is still there (`Saved`); so the next accept of that second finds a hit. |
| | ClosedIsTold | until a first fault, and while nobody left, what is in the cache and what is left in the link add up to a whole reply (`WholeReplies`), so what is saved is whole, a hit is whole, and no descriptor is lost. `MaxFds > 1` as above. |
| BlockShell_proofs | BlockTypes | who is open inside whom (`Shape`): below the innermost call of parse_if_block every call is in a part, and a `while` has no inner calls. |
| | BlocksAreRunAsRead | the main invariant says what the open frames will have executed when they are closed (`Adds`): the frame at i adds to what the reader made of the frames below it what it executes, if the parts it lies in run, and nothing otherwise; its phase is the reader's (`Agree`, `SameBlocks`). Each line keeps that by one equation on concatenations, and folding a frame into its caller is associativity. For `while`, the frame has the lines read so far, in order (`ReadSoFar`). Without the line-by-line reader one would have to prove what a recursive function computes; with it every step is local. |
| Course_proofs | BallStaysInCourt, TicketsAreUnique | Bounce2d: a ball on the bottom row that heads down has its horizontal move before its vertical one (`AtRows`); this holds at the serve because X_TTM < Y_TTM (an assumption of the module, which 5 and 8 of bounce.h meet), and everywhere else because bounce_or_lose turns the ball. Tickets: the pieces out for a connection are never more than write_all has counted, so a number that is given again was not complete (`BeingServed`, `Behind`). |
| | ShellsChildrenAddUp | wait takes any child, maybe a background one in place of the foreground one, but always one: so as many are left as there were background commands, and one more while main waits (`AddUp`). The newest child cannot be collected before main waits for it, and without background commands it is the only one (`NewestWaits`). |
| | ChildrenAreCounted, ParentWaitsForAll | the counter is the cardinality of the reaped (`CountIsExact`); a zombie implies a pending signal or a handler at its loop (`SignalForZombies`), although signals coalesce. |
| | NoStrayEnds | copies of ends live only between a fork and close_pipes (`HoldsOwn`): main has none once it waits, a command that runs only its own two, one that ended none. |
| | NobodyWaitsForEverybody | a command that runs has the ends it needs. Take the last command that could write: whoever would make it wait is a command behind it, which has something to read. If there is none, the first that runs has data or the end of its input, because nobody before it is left. When nobody runs main can wait or end. |
| | IfTypes, OneVarIsEnough | the refinement step by step, with the invariant that the state after a condition, and inside a part, agrees with what last_stat says (`Remembers`): without it the abstract if_result would have to be guessed. |
| | TypesOfThePrograms | the types, as parts of the same invariants. |
| Programs_proofs | EachByItself, AllTypes, PromisesOfThePrograms | a step of the whole is a step of the program that was picked and leaves the variables of the others; so each behaviour is one of every program, and what was proved of each carries over. |

All are for every value of the constants under the ASSUMEs of the modules. OnlyMainServes and
LengthsAgree have `MaxChanges = 0` as their hypothesis besides, the condition under which their
run checks them; ClosedIsAnswered and ClosedIsTold have `MaxFds > 1`, which their runs meet.

Only model-checked is liveness, because fairness depends on ENABLED. What each liveness property
rests on besides fairness is proved:

| property | its safety half |
|---|---|
| ZombiesReaped | NoZombieForgotten |
| EofReached | HeldByOne |
| Answered of the web server | NoRequestDropped, OneAtWorkAlways |
| CallsReturn | OnlyHeirsHoldUp, WaitsForSomebody |
| Answered of the finger proxy | ClosedIsAnswered |
| Answered of the time proxy | ClosedIsTold |
| Served | not proved: main's loop waits in accept, and in a read for a server that answers, hangs up, is killed, is cut off by a reset, or is behind a silent link, the one case Served excepts |
| WaitersGetIn | NoLinkLeftBehind |
| EveryChildCounted | ChildrenAreCounted, ParentWaitsForAll |
| PipelineEnds | NobodyWaitsForEverybody, NoStrayEnds |

## 6. Where the code and its texts disagree

Shown by runs that end in a violation:

* web_rogue: a file removed between two stats makes the child return into main's loop:
  from then on two servers accept on the same socket.
* web_stale: a client that connects and closes without a word is answered with the request
  that another client made before it (webserv.c:133).
* popen_anyorder: pclose of an older "w" stream never returns while a younger child lives,
  because the child inherited the write end of the older pipe.
* finger_short: part of a reply is cached as the reply.
* lock_break: 5.25.md takes an old lock for one of a process that crashed. A new link has
  the time of /etc/passwd, which was last modified long ago: the lock of a process that runs
  looks abandoned from the start until its first tick (lockpasswd2.c:54).

Seen in the models and left as the guards and comments of the definitions named:

* Content-Length is the size of a file that may be replaced before fopen (DoCatStat,
  DoCatOpen): LengthIsBody holds only while nobody edits the directory.
* webserv.c:3 says that only GET is supported; every method parse_method knows is served
  like GET, and HEAD of a program gets what the program prints (Dispatch, DoExec).
* 11.08.md:157 has pclose wait for the end of the process popen made. Where fclose fails it
  returns before it waits (PcloseFails; EPIPE with SIGPIPE ignored, for example), and a popen
  whose close or fdopen fails, or whose waitpid is interrupted, leaves a child of which nobody
  knows (PopenFails, waitpid), although a full table collects it (popen.c:87). NoLostChild
  says that these are all the ways.
* lockpasswd2's timer has the period after which others break the lock, without a margin: a
  handler that is late across the next second makes the lock look old (Second,
  UpdateLocktime), and StaysWarm holds only of those in time.
* The request is taken from one read (finger_proxy.c:60): of a name that arrives in pieces
  the beginning is asked for, answered and kept (Read, `Cut`).
* No read of the proxies has a time-out (finger_proxy.c:60 and :81, cash_timeserv.c:66): one silent
  peer holds up everybody, as one slow client does in the web server (Drain).
* A reply cut short, by the link or because its client left, is the cached reply for the
  rest of the second (TimeCache's Read, ReadEnds, Save).
* 11.17.md:57 wants the table emptied once a day; nothing calls free_map. AnswerCache would
  permit it (Forget), the proxy never does it.
* The outermost `fi` of 9.09 and 9.10 reads one line more, which is lost, and the block runs
  only after it (LineAfterFi). An unexpected word or the end of the input runs the part of the
  block that was read (IfLoop, Return, Unwind).
* 9.10.md says that blocks became statements so that `while` could stand inside `if`; inside an
  `if` part, `while`, `do` and `done` are pushed as commands (IfLoop, the words Odd allows).
* 9.10 ends after every outermost `if`, because it frees the condition one pointer behind its
  allocation (Execute). splitline says that it returns NULL for a line without words
  (splitline.c:56) but returns an empty list: 9.10 crashes on a blank line at its prompt and both
  shells on one inside a block (FirstLine, IfLoop).
* `if` alone inside a block, and `while` alone in 9.10, hang the shell; `if` alone at the prompt runs
  a statement that was never stored.
* The foreground wait of 9.08 takes any child, so the prompt may come early, with a status of
  another command, and the last children are never collected (ChildrenAddUp is what is left).
* A ball called LOST can still be hit at its next vertical move (BounceOrLose).
* If the last fork of 8.10 fails main ends at once; if an earlier one fails it never does
  (AfterForks, ParentEnds): EveryChildCounted assumes that all succeed.
* pan_cli prints 0, or part of a number, when the server closes early (ReadEnds); a server that
  starts again starts from 1 (ServerStarts), so UniqueTickets speaks of one life.

## 7. Not modelled

* shadow-4.8.1 is third-party source, with a copy of many of its files under `.pc`. It makes up
  most of the C lines of the repository. The programs of the course are about 12,000 lines, a good
  part of them copies of one program from exercise to exercise, of which the modules
  translate the final or the richest form.
* Sequential programs without an invariant between steps: file utilities, terminal programs,
  the utmp buffer, `varlib`, the first programs of each chapter.
* `reaction` (7.16): it waits for a person, so nothing about it has to happen. A key pressed before
  pause wakes nobody, and the next one reads the earlier as the answer.
* The other servers of chapter 11, `tinybc`, `subsort`, `tee` and the redirections, for the reasons in
  the inventory.
* In the modelled programs: the contents of buffers (overflows at BUFSIZ), descriptors as numbers
  (popen with a closed standard descriptor), and failures of malloc. Likewise `subsort` keeps
  what it reads in 255 lines of 255 bytes and does not count them.
