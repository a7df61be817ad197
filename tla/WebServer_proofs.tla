-------------------------- MODULE WebServer_proofs --------------------------
(***************************************************************************)
(* Proofs about WebServer for every set of processes, connections, paths   *)
(* and requests: the variables have their types, from accept to answer one *)
(* process works on a connection, a reply answers the request of its own   *)
(* client, and no connection is answered twice; who holds a connection,    *)
(* what the headers say, and that no child that ended is forgotten.        *)
(***************************************************************************)
EXTENDS WebServer, TLAPS

USE DEF LoopPcs, WorkerPcs, Pcs, Lines, Methods, Supported, Contents, FileKinds

\* TypeOK is not inductive: a read from a connection needs a connection in fd,
\* and the page a child sends needs the header prepared by an earlier step.
Shape ==
  /\ TypeOK
  /\ \A p \in Procs : pc[p] \in Working \cup {"fclose"} => conn[p] \in Conns
  /\ \A p \in Procs : pc[p] = "respond" => response[p] \in {"501", "404"}
  /\ \A p \in Procs : pc[p] = "open" => response[p] \in FileKinds

-----------------------------------------------------------------------------
(* What the helpers of the worker's steps return and preserve.             *)

\* The request a process answers has a known shape whatever its buffers hold.
LEMMA RequestType ==
  ASSUME TypeOK, NEW p \in Procs
  PROVE  /\ Request(p) \in [cmd : Methods, path : Paths]
         /\ Found(p) \in FileKinds
  <1>1. request_str[p] \in Requests \cup {Empty} /\ cmd[p] \in Methods
    BY DEF TypeOK
  <1>2. request_str[p] # Empty => request_str[p].path \in Paths
    BY <1>1, RequestsAssumption
  <1>3. Request(p) \in [cmd : Methods, path : Paths]
    BY <1>1, <1>2, PathsAssumption DEF Request
  <1>4. fs \in [Paths -> FileKinds]
    BY FsAssumption DEF TypeOK
  <1> QED
    BY <1>3, <1>4 DEF Found

\* Answer stores a well-formed reply.
LEMMA AnswerType ==
  ASSUME TypeOK, NEW p \in Procs,
         NEW s \in {"501", "404", "200", "program", "perror"},
         NEW d \in FileKinds \cup {"text", "absent"},
         NEW b \in Contents \cup {"text", "listing", "program", "none"},
         Answer(p, s, d, b)
  PROVE  reply' \in [Conns -> Replies \cup {NoReply}]
  <1>1. [request |-> Request(p), status |-> s, declared |-> d, body |-> b] \in Replies
    BY RequestType DEF Replies
  <1> QED
    BY <1>1 DEF Answer, TypeOK

\* A process that ends keeps the shape.
LEMMA ExitShape ==
  ASSUME Shape, NEW p \in Procs, Exit(p),
         reply' \in [Conns -> Replies \cup {NoReply}]
  PROVE  Shape'
  <1>1. TypeOK'
    BY DEF Shape, TypeOK, Exit, Forget, cliVars, fsVars
  <1>2. pc'[p] \in {"free", "zombie"}
    BY DEF Shape, TypeOK, Exit
  <1>3. \A q \in Procs \ {p} :
          pc'[q] = pc[q] /\ conn'[q] = conn[q] /\ response'[q] = response[q]
    BY DEF Shape, TypeOK, Exit, Forget
  <1> QED
    BY <1>1, <1>2, <1>3 DEF Shape, Working

\* So does a worker that goes on, if it is told where it may go.
LEMMA GotoShape ==
  ASSUME Shape, NEW p \in Procs, pc[p] \in Working,
         NEW l \in WorkerPcs \cup {"fclose"},
         NEW r \in FileKinds \cup {"none", "501", "404"},
         l = "respond" => r \in {"501", "404"},
         l = "open" => r \in FileKinds,
         Goto(p, l, r)
  PROVE  Shape'
  <1>1. TypeOK'
    BY DEF Shape, TypeOK, Goto, sigVars, cliVars, fsVars
  <1>2. pc'[p] = l /\ response'[p] = r /\ conn' = conn
    BY DEF Shape, TypeOK, Goto
  <1>3. \A q \in Procs \ {p} : pc'[q] = pc[q] /\ response'[q] = response[q]
    BY DEF Shape, TypeOK, Goto
  <1> QED
    BY <1>1, <1>2, <1>3 DEF Shape, Working

-----------------------------------------------------------------------------
(* Type correctness.                                                       *)

LEMMA InitShape == Init => Shape
  <1> SUFFICES ASSUME Init PROVE Shape
    OBVIOUS
  <1>1. TypeOK
    BY ProcsAssumption, FsAssumption, BoundsAssumption DEF Init, TypeOK
  <1> QED
    BY <1>1 DEF Init, Shape, Working

LEMMA LoopShape ==
  ASSUME Shape, NEW p \in Procs, LoopStep(p) \/ AcceptFails(p)
  PROVE  Shape'
  <1> USE DEF Shape, TypeOK, At, sigVars, cliVars, fsVars, Working
  <1>1. CASE Accept(p)
    BY <1>1 DEF Accept, Queued
  <1>2. CASE AcceptFails(p)
    BY <1>2 DEF AcceptFails, Forget
  <1>3. CASE Fgets(p)
    <2> DEFINE text == IF line[conn[p]] = NoLine THEN request_str[p] ELSE line[conn[p]]
    <2>1. conn[p] \in Conns
      BY <1>3 DEF Fgets
    <2>2. text \in Lines
      BY <2>1
    <2>3. (IF text = Empty THEN cmd[p] ELSE text.cmd) \in Methods
      BY <2>2, RequestsAssumption
    <2> HIDE DEF text
    <2>4. /\ request_str' = [request_str EXCEPT ![p] = text]
          /\ cmd' = [cmd EXCEPT ![p] = IF text = Empty THEN cmd[p] ELSE text.cmd]
      BY <1>3 DEF Fgets, text
    <2> QED
      BY <1>3, <2>1, <2>2, <2>3, <2>4 DEF Fgets
  <1>4. CASE Drain(p)
    BY <1>4 DEF Drain
  <1>5. CASE Fork(p)
    BY <1>5 DEF Fork, FreeSlots
  <1>6. CASE ForkFails(p)
    BY <1>6 DEF ForkFails
  <1>7. CASE Fclose(p)
    BY <1>7 DEF Fclose
  <1> QED
    BY <1>1, <1>2, <1>3, <1>4, <1>5, <1>6, <1>7 DEF LoopStep

LEMMA WorkerShape ==
  ASSUME Shape, NEW p \in Procs, WorkerStep(p)
  PROVE  Shape'
  <1>0. /\ TypeOK
        /\ response[p] \in FileKinds \cup {"none", "501", "404"}
        /\ Found(p) \in FileKinds
    BY RequestType DEF Shape, TypeOK
  <1>1. CASE Dispatch(p)
    BY <1>0, <1>1, GotoShape DEF Dispatch, At, Working
  <1>2. CASE Isadir(p)
    BY <1>0, <1>2, GotoShape DEF Isadir, At, Working
  <1>3. CASE Respond(p)
    <2>1. response[p] \in {"501", "404"}
      BY <1>3 DEF Respond, At, Shape
    <2>2. UnlessHead(p, "text") \in {"text", "none"}
      BY DEF UnlessHead
    <2> QED
      BY <1>0, <1>3, <2>1, <2>2, AnswerType, ExitShape DEF Respond
  <1>4. CASE DoLs(p)
    <2>1. UnlessHead(p, "listing") \in {"listing", "none"}
      BY DEF UnlessHead
    <2> QED
      BY <1>0, <1>4, <2>1, AnswerType, ExitShape DEF DoLs
  <1>5. CASE DoExec(p)
    BY <1>0, <1>5, AnswerType, ExitShape DEF DoExec
  <1>6. CASE DoCatStat(p)
    BY <1>0, <1>6, GotoShape DEF DoCatStat, At, Working
  <1>7. CASE DoCatOpen(p)
    <2>1. response[p] \in FileKinds
      BY <1>7 DEF DoCatOpen, At, Shape
    <2>2. Found(p) \in Contents => UnlessHead(p, Found(p)) \in Contents \cup {"none"}
      BY DEF UnlessHead
    <2>3. reply' \in [Conns -> Replies \cup {NoReply}]
      BY <1>0, <1>7, <2>1, <2>2, AnswerType DEF DoCatOpen, TypeOK
    <2> QED
      BY <1>7, <2>3, ExitShape DEF DoCatOpen
  <1> QED
    BY <1>1, <1>2, <1>3, <1>4, <1>5, <1>6, <1>7 DEF WorkerStep

LEMMA OtherShape ==
  ASSUME Shape,
         \/ \E p \in Procs : HandlerStep(p)
         \/ \E c \in Conns : ClientStep(c)
         \/ FsChange
         \/ UNCHANGED vars
  PROVE  Shape'
  <1> USE DEF Shape, TypeOK, procVars, sigVars, cliVars, fsVars, Working
  <1>1. CASE \E p \in Procs : HandlerStep(p)
    <2> PICK p \in Procs : HandlerStep(p)
      BY <1>1
    <2>1. CASE HandlerEnter(p)
      BY <2>1 DEF HandlerEnter
    <2>2. CASE HandlerReap(p)
      BY <2>2 DEF HandlerReap, ZombiesOf
    <2>3. CASE HandlerReturn(p)
      BY <2>3 DEF HandlerReturn
    <2> QED
      BY <2>1, <2>2, <2>3 DEF HandlerStep
  <1>2. CASE \E c \in Conns : ClientStep(c)
    <2> PICK c \in Conns : ClientStep(c)
      BY <1>2
    <2>1. CASE Connect(c)
      BY <2>1 DEF Connect
    <2>2. CASE SendLine(c)
      BY <2>2 DEF SendLine
    <2>3. CASE SendBlank(c)
      BY <2>3 DEF SendBlank
    <2>4. CASE Shut(c)
      BY <2>4 DEF Shut
    <2> QED
      BY <2>1, <2>2, <2>3, <2>4 DEF ClientStep
  <1>3. CASE FsChange
    BY <1>3, BoundsAssumption DEF FsChange
  <1>4. CASE UNCHANGED vars
    BY <1>4 DEF vars
  <1> QED
    BY <1>1, <1>2, <1>3, <1>4

LEMMA ShapeInvariant == Spec => []Shape
  <1>1. Shape /\ [Next]_vars => Shape'
    BY LoopShape, WorkerShape, OtherShape DEF Next
  <1> QED
    BY InitShape, <1>1, PTL DEF Spec

\* Type correctness: a request, a reply and a file kind stay in their ranges on
\* every route through main and process_rq.
THEOREM TypeCorrect == Spec => []TypeOK
  <1>1. Shape => TypeOK
    BY DEF Shape
  <1> QED
    BY ShapeInvariant, <1>1, PTL

-----------------------------------------------------------------------------
(* One process at work on a connection.                                    *)

LEMMA LoopWork ==
  ASSUME Shape, OneAtWork, NEW p \in Procs, LoopStep(p) \/ AcceptFails(p)
  PROVE  OneAtWork'
  <1> USE DEF Shape, TypeOK, At, sigVars, cliVars, fsVars, Working, OneAtWork, Parsed
  <1>1. CASE Accept(p)
    BY <1>1 DEF Accept, Queued
  <1>2. CASE AcceptFails(p)
    <2>1. \A q \in Procs : pc'[q] \in Working => /\ q # p
                                                 /\ pc'[q] = pc[q]
                                                 /\ conn'[q] = conn[q]
                                                 /\ request_str'[q] = request_str[q]
                                                 /\ cmd'[q] = cmd[q]
      BY <1>2 DEF AcceptFails, Forget
    <2> QED
      BY <1>2, <2>1 DEF AcceptFails
  <1>3. CASE Fgets(p)
    <2> DEFINE text == IF line[conn[p]] = NoLine THEN request_str[p] ELSE line[conn[p]]
    <2>1. /\ line[conn[p]] # NoLine \/ shut[conn[p]]
          /\ request_str' = [request_str EXCEPT ![p] = text]
          /\ cmd' = [cmd EXCEPT ![p] = IF text = Empty THEN cmd[p] ELSE text.cmd]
          /\ pc' = [pc EXCEPT ![p] = "drain"]
          /\ UNCHANGED <<conn, cst, line, shut, reply>>
      BY <1>3 DEF Fgets
    <2>2. pc[p] = "fgets" /\ conn[p] \in Conns
      BY <1>3 DEF Fgets
    <2>3. Parsed(p, conn[p])'
      BY <2>1, <2>2, RequestsAssumption
    <2>4. \A q \in Procs \ {p} :
            pc'[q] = pc[q] /\ request_str'[q] = request_str[q] /\ cmd'[q] = cmd[q]
      BY <2>1
    <2> HIDE DEF text
    <2> QED
      BY <2>1, <2>2, <2>3, <2>4
  <1>4. CASE Drain(p)
    BY <1>4 DEF Drain
  <1>5. CASE Fork(p)
    BY <1>5 DEF Fork, FreeSlots
  <1>6. CASE ForkFails(p)
    BY <1>6 DEF ForkFails
  <1>7. CASE Fclose(p)
    BY <1>7 DEF Fclose
  <1> QED
    BY <1>1, <1>2, <1>3, <1>4, <1>5, <1>6, <1>7 DEF LoopStep

\* A worker that goes on stays the only one; one that returns into the loop
\* gives its connection up.
LEMMA GotoWork ==
  ASSUME Shape, OneAtWork, NEW p \in Procs, pc[p] \in WorkerPcs,
         NEW l \in WorkerPcs \cup {"fclose"}, NEW r, Goto(p, l, r)
  PROVE  OneAtWork'
  <1>1. \A q \in Procs : pc'[q] \in Working => pc[q] \in Working
    BY DEF Goto, Shape, TypeOK, Working
  <1>2. \A q \in Procs : pc'[q] # "fgets" /\ pc'[q] \in Working => pc[q] # "fgets"
    BY DEF Goto, Shape, TypeOK, Working
  <1>3. UNCHANGED <<conn, request_str, cmd, cst, line, shut, reply>>
    BY DEF Goto, cliVars
  <1> QED
    BY <1>1, <1>2, <1>3 DEF OneAtWork, Parsed

\* A worker that ends leaves nobody at work on its connection, so it may have
\* answered it.
LEMMA ExitWork ==
  ASSUME Shape, OneAtWork, NEW p \in Procs, pc[p] \in WorkerPcs, Exit(p),
         \A c \in Conns : c # conn[p] => reply'[c] = reply[c]
  PROVE  OneAtWork'
  <1>1. \A q \in Procs : pc'[q] \in Working =>
          /\ q # p
          /\ pc'[q] = pc[q]
          /\ conn'[q] = conn[q]
          /\ request_str'[q] = request_str[q]
          /\ cmd'[q] = cmd[q]
    BY DEF Exit, Forget, Shape, TypeOK, Working
  <1>2. UNCHANGED <<cst, line, shut>>
    BY DEF Exit, cliVars
  <1>3. \A q \in Procs : pc'[q] \in Working => conn[q] # conn[p]
    BY <1>1 DEF OneAtWork, Working
  <1>4. cst[conn[p]] = "open" /\ (line[conn[p]] = NoLine => shut[conn[p]])
    BY DEF OneAtWork, Parsed, Working
  <1> QED
    BY <1>1, <1>2, <1>3, <1>4 DEF OneAtWork, Parsed

\* What a worker's step changes: at most the reply of its own connection, to
\* one that answers the request it holds; and it goes on or ends.
LEMMA WorkerEffect ==
  ASSUME Shape, NEW p \in Procs, WorkerStep(p)
  PROVE  /\ pc[p] \in WorkerPcs /\ conn[p] \in Conns
         /\ UNCHANGED line
         /\ \A c \in Conns : c # conn[p] => reply'[c] = reply[c]
         /\ \/ reply'[conn[p]] = reply[conn[p]]
            \/ reply'[conn[p]].request = Request(p)
         /\ \/ Exit(p)
            \/ UNCHANGED reply /\ \E l \in WorkerPcs \cup {"fclose"} : \E r : Goto(p, l, r)
  <1> DEFINE Answered1 ==
        /\ \A c \in Conns : c # conn[p] => reply'[c] = reply[c]
        /\ \/ reply'[conn[p]] = reply[conn[p]]
           \/ reply'[conn[p]].request = Request(p)
  <1>1. ASSUME NEW s, NEW d, NEW b, Answer(p, s, d, b), conn[p] \in Conns
        PROVE  Answered1
    BY <1>1 DEF Answer, Shape, TypeOK
  <1>2. pc[p] \in WorkerPcs /\ conn[p] \in Conns
    BY DEF WorkerStep, Dispatch, Isadir, Respond, DoLs, DoExec, DoCatStat, DoCatOpen,
           At, Shape, Working
  <1>3. CASE Dispatch(p) \/ Isadir(p) \/ DoCatStat(p)
    <2>1. \E l \in WorkerPcs \cup {"fclose"} : \E r : Goto(p, l, r)
      BY <1>3 DEF Dispatch, Isadir, DoCatStat
    <2> QED
      BY <1>2, <2>1 DEF Goto, cliVars
  <1>4. CASE Respond(p) \/ DoLs(p) \/ DoExec(p) \/ DoCatOpen(p)
    <2>1. Exit(p)
      BY <1>4 DEF Respond, DoLs, DoExec, DoCatOpen
    <2>2. UNCHANGED reply \/ \E s, d, b : Answer(p, s, d, b)
      BY <1>4 DEF Respond, DoLs, DoExec, DoCatOpen
    <2>3. Answered1
      BY <1>1, <1>2, <2>2
    <2> QED
      BY <1>2, <2>1, <2>3 DEF Exit, cliVars
  <1> QED
    BY <1>3, <1>4 DEF WorkerStep

LEMMA WorkerWork ==
  ASSUME Shape, OneAtWork, NEW p \in Procs, WorkerStep(p)
  PROVE  OneAtWork'
  BY WorkerEffect, ExitWork, GotoWork

LEMMA OtherWork ==
  ASSUME Shape, OneAtWork,
         \/ \E p \in Procs : HandlerStep(p)
         \/ \E c \in Conns : ClientStep(c)
         \/ FsChange
         \/ UNCHANGED vars
  PROVE  OneAtWork'
  <1> USE DEF Shape, TypeOK, procVars, sigVars, cliVars, fsVars, Working, OneAtWork, Parsed
  <1>1. CASE \E p \in Procs : HandlerStep(p)
    <2> PICK p \in Procs : HandlerStep(p)
      BY <1>1
    <2>1. CASE HandlerEnter(p)
      BY <2>1 DEF HandlerEnter
    <2>2. CASE HandlerReap(p)
      BY <2>2 DEF HandlerReap, ZombiesOf
    <2>3. CASE HandlerReturn(p)
      BY <2>3 DEF HandlerReturn
    <2> QED
      BY <2>1, <2>2, <2>3 DEF HandlerStep
  <1>2. CASE \E c \in Conns : ClientStep(c)
    <2> PICK c \in Conns : ClientStep(c)
      BY <1>2
    <2>1. CASE Connect(c)
      BY <2>1 DEF Connect
    <2>2. CASE SendLine(c)
      BY <2>2 DEF SendLine
    <2>3. CASE SendBlank(c)
      BY <2>3 DEF SendBlank
    <2>4. CASE Shut(c)
      BY <2>4 DEF Shut
    <2> QED
      BY <2>1, <2>2, <2>3, <2>4 DEF ClientStep
  <1>3. CASE FsChange
    BY <1>3 DEF FsChange
  <1>4. CASE UNCHANGED vars
    BY <1>4 DEF vars
  <1> QED
    BY <1>1, <1>2, <1>3, <1>4

LEMMA WorkInvariant ==
  /\ Init => OneAtWork
  /\ Shape /\ OneAtWork /\ [Next]_vars => OneAtWork'
  <1>1. Init => OneAtWork
    BY DEF Init, OneAtWork, Working
  <1>2. Shape /\ OneAtWork /\ [Next]_vars => OneAtWork'
    BY LoopWork, WorkerWork, OtherWork DEF Next
  <1> QED
    BY <1>1, <1>2

\* From accept to the answer one process works on a connection, with that
\* connection's request: main, and then the child it forked.
THEOREM OneAtWorkAlways == Spec => [](Shape /\ OneAtWork)
  BY ShapeInvariant, WorkInvariant, PTL DEF Spec

-----------------------------------------------------------------------------
(* Replies.                                                                *)

LEMMA ReplyStep ==
  ASSUME Shape, OneAtWork, ReplyIsOwn, [Next]_vars
  PROVE  ReplyIsOwn'
  <1>1. CASE \E p \in Procs : WorkerStep(p)
    <2> PICK p \in Procs : WorkerStep(p)
      BY <1>1
    <2>1. /\ pc[p] \in WorkerPcs /\ conn[p] \in Conns
          /\ line' = line
          /\ \A c \in Conns : c # conn[p] => reply'[c] = reply[c]
          /\ reply'[conn[p]] = reply[conn[p]] \/ reply'[conn[p]].request = Request(p)
      BY WorkerEffect
    <2>2. Parsed(p, conn[p])
      BY <2>1 DEF OneAtWork, Working
    <2>3. line[conn[p]] \in Requests => Request(p) = line[conn[p]]
      BY <2>1, <2>2, RequestsAssumption DEF Parsed, Request
    <2>4. line[conn[p]] = Empty => Request(p).path = Cwd
      BY <2>2 DEF Parsed, Request
    <2> QED
      BY <2>1, <2>3, <2>4 DEF ReplyIsOwn
  <1>2. CASE \E c \in Conns : SendLine(c)
    <2> PICK c \in Conns : SendLine(c)
      BY <1>2
    <2>1. reply[c] = NoReply
      BY DEF SendLine, OneAtWork
    <2>2. reply' = reply /\ \A d \in Conns \ {c} : line'[d] = line[d]
      BY DEF SendLine, Shape, TypeOK
    <2> QED
      BY <2>1, <2>2 DEF ReplyIsOwn
  <1>3. CASE UNCHANGED <<reply, line>>
    BY <1>3 DEF ReplyIsOwn
  <1>4. ASSUME NEW p \in Procs, LoopStep(p) \/ AcceptFails(p) \/ HandlerStep(p)
        PROVE  UNCHANGED <<reply, line>>
    BY <1>4 DEF LoopStep, AcceptFails, HandlerStep, Accept, Fgets, Drain, Fork, ForkFails,
                Fclose, HandlerEnter, HandlerReap, HandlerReturn, cliVars
  <1>5. ASSUME NEW c \in Conns, Connect(c) \/ SendBlank(c) \/ Shut(c)
        PROVE  UNCHANGED <<reply, line>>
    BY <1>5 DEF Connect, SendBlank, Shut, cliVars
  <1>6. FsChange \/ UNCHANGED vars => UNCHANGED <<reply, line>>
    BY DEF FsChange, vars, cliVars
  <1> QED
    BY <1>1, <1>2, <1>3, <1>4, <1>5, <1>6 DEF Next, ClientStep

\* Whoever sent a request line is answered for that line: main's reuse of its
\* buffers never mixes the requests of two clients that sent one.
THEOREM RepliesAreOwn == Spec => []ReplyIsOwn
  <1>1. Init => ReplyIsOwn
    BY DEF Init, ReplyIsOwn
  <1> QED
    BY OneAtWorkAlways, ReplyStep, <1>1, PTL DEF Spec

\* No connection is answered twice, even with a child that went back to main's
\* loop and after the directory changed under a request.
THEOREM RepliesAreFinal == Spec => AnsweredOnce
  <1> DEFINE Final == \A c \in Conns : reply[c] # NoReply => reply'[c] = reply[c]
  <1>1. ASSUME Shape, OneAtWork, [Next]_vars PROVE [Final]_vars
    <2>1. CASE \E p \in Procs : WorkerStep(p)
      <3> PICK p \in Procs : WorkerStep(p)
        BY <2>1
      <3>1. /\ pc[p] \in WorkerPcs /\ conn[p] \in Conns
            /\ \A c \in Conns : c # conn[p] => reply'[c] = reply[c]
        BY <1>1, WorkerEffect
      <3>2. reply[conn[p]] = NoReply
        BY <1>1, <3>1 DEF OneAtWork, Working
      <3> QED
        BY <3>1, <3>2
    <2>2. ASSUME NEW p \in Procs, LoopStep(p) \/ AcceptFails(p) \/ HandlerStep(p)
          PROVE  UNCHANGED reply
      BY <2>2 DEF LoopStep, AcceptFails, HandlerStep, Accept, Fgets, Drain, Fork, ForkFails,
                  Fclose, HandlerEnter, HandlerReap, HandlerReturn
    <2>3. ASSUME NEW c \in Conns, ClientStep(c)
          PROVE  UNCHANGED reply
      BY <2>3 DEF ClientStep, Connect, SendLine, SendBlank, Shut
    <2>4. FsChange \/ UNCHANGED vars => UNCHANGED reply
      BY DEF FsChange, vars
    <2> QED
      BY <1>1, <2>1, <2>2, <2>3, <2>4 DEF Next
  <1> QED
    BY OneAtWorkAlways, <1>1, PTL DEF Spec, AnsweredOnce

-----------------------------------------------------------------------------
(* Descriptors.                                                            *)

Busy == Working \cup {"fclose"}

\* A process holds at most the connection in its variable fd, and none outside
\* the stretch from accept to fclose.
Holding ==
  \A p \in Procs : fds[p] \subseteq {conn[p]} /\ (pc[p] \notin Busy => fds[p] = {})

\* What the steps outside the workers' do to the replies and the directory.
LEMMA QuietSteps ==
  ASSUME \/ \E p \in Procs : LoopStep(p) \/ AcceptFails(p) \/ HandlerStep(p)
         \/ \E c \in Conns : ClientStep(c)
         \/ UNCHANGED vars
  PROVE  UNCHANGED <<reply, fs>>
  BY DEF LoopStep, AcceptFails, HandlerStep, Accept, Fgets, Drain, Fork, ForkFails, Fclose,
         HandlerEnter, HandlerReap, HandlerReturn, ClientStep, Connect, SendLine, SendBlank,
         Shut, vars, fsVars

\* HandlerReap frees a slot; nothing else outside the loop and the workers
\* touches what a process keeps.
LEMMA OtherEffect ==
  ASSUME Shape,
         \/ \E p \in Procs : HandlerStep(p)
         \/ \E c \in Conns : ClientStep(c)
         \/ FsChange
         \/ UNCHANGED vars
  PROVE  /\ UNCHANGED <<conn, fds, request_str, cmd, response>>
         /\ \A q \in Procs : pc'[q] # pc[q] => pc[q] = "zombie" /\ pc'[q] = "free"
  <1> USE DEF Shape, TypeOK, procVars
  <1>1. ASSUME NEW p \in Procs, HandlerReap(p)
        PROVE  /\ UNCHANGED <<conn, fds, request_str, cmd, response>>
               /\ \A q \in Procs : pc'[q] # pc[q] => pc[q] = "zombie" /\ pc'[q] = "free"
    BY <1>1 DEF HandlerReap, ZombiesOf
  <1>2. ASSUME NEW p \in Procs, HandlerEnter(p) \/ HandlerReturn(p) PROVE UNCHANGED procVars
    BY <1>2 DEF HandlerEnter, HandlerReturn
  <1>3. ASSUME NEW c \in Conns, ClientStep(c) PROVE UNCHANGED procVars
    BY <1>3 DEF ClientStep, Connect, SendLine, SendBlank, Shut
  <1>4. FsChange \/ UNCHANGED vars => UNCHANGED procVars
    BY DEF FsChange, vars
  <1> QED
    BY <1>1, <1>2, <1>3, <1>4 DEF HandlerStep

LEMMA HoldingStep ==
  ASSUME Shape, Holding, [Next]_vars
  PROVE  Holding'
  <1> USE DEF Shape, TypeOK, Holding, Busy, Working, At
  <1>1. ASSUME NEW p \in Procs, LoopStep(p) \/ AcceptFails(p)
        PROVE  Holding'
    <2>1. CASE Accept(p)
      BY <2>1 DEF Accept, Queued
    <2>2. CASE AcceptFails(p)
      BY <2>2 DEF AcceptFails, Forget
    <2>3. CASE Fgets(p) \/ Drain(p) \/ ForkFails(p)
      BY <2>3 DEF Fgets, Drain, ForkFails
    <2>4. CASE Fork(p)
      BY <2>4 DEF Fork, FreeSlots
    <2>5. CASE Fclose(p)
      BY <2>5 DEF Fclose
    <2> QED
      BY <1>1, <2>1, <2>2, <2>3, <2>4, <2>5 DEF LoopStep
  <1>2. ASSUME NEW p \in Procs, WorkerStep(p)
        PROVE  Holding'
    <2>1. CASE Exit(p)
      BY <2>1 DEF Exit, Forget
    <2>2. ASSUME NEW l \in WorkerPcs \cup {"fclose"}, NEW r, Goto(p, l, r)
          PROVE  Holding'
      BY <2>2 DEF Goto
    <2> QED
      BY <1>2, <2>1, <2>2, WorkerEffect
  <1>3. ASSUME \/ \E p \in Procs : HandlerStep(p)
               \/ \E c \in Conns : ClientStep(c)
               \/ FsChange
               \/ UNCHANGED vars
        PROVE  Holding'
    <2>1. /\ UNCHANGED <<conn, fds>>
          /\ \A q \in Procs : pc'[q] # pc[q] => pc[q] = "zombie" /\ pc'[q] = "free"
      BY <1>3, OtherEffect
    <2> QED
      BY <2>1
  <1> QED
    BY <1>1, <1>2, <1>3 DEF Next

\* A connection that two processes hold is about to be closed by one of them:
\* no child inherits the connection of another request.
THEOREM HeldByOne == Spec => []HeldByItsWorker
  <1>1. Init => Holding
    BY DEF Init, Holding
  <1>2. Shape /\ OneAtWork /\ Holding => HeldByItsWorker
    BY DEF Shape, TypeOK, OneAtWork, Holding, Busy, HeldByItsWorker
  <1> QED
    BY OneAtWorkAlways, HoldingStep, <1>1, <1>2, PTL DEF Spec

-----------------------------------------------------------------------------
(* HEAD.                                                                   *)

LEMMA AnswerStored ==
  ASSUME Shape, NEW p \in Procs, conn[p] \in Conns, NEW s, NEW d, NEW b, Answer(p, s, d, b)
  PROVE  /\ reply'[conn[p]] = [request |-> Request(p), status |-> s, declared |-> d, body |-> b]
         /\ \A c \in Conns : c # conn[p] => reply'[c] = reply[c]
  BY DEF Answer, Shape, TypeOK

LEMMA HeadStep ==
  ASSUME Shape, HeadWithoutBody, [Next]_vars
  PROVE  HeadWithoutBody'
  <1>1. ASSUME NEW p \in Procs, WorkerStep(p)
        PROVE  HeadWithoutBody'
    <2>1. conn[p] \in Conns
      BY <1>1, WorkerEffect
    <2>2. ASSUME NEW s, NEW d, NEW b, Answer(p, s, d, b),
                 cmd[p] = "HEAD" /\ s \in {"200", "404", "501"} => b = "none"
          PROVE  HeadWithoutBody'
      <3>1. /\ reply'[conn[p]] =
                 [request |-> Request(p), status |-> s, declared |-> d, body |-> b]
            /\ \A c \in Conns : c # conn[p] => reply'[c] = reply[c]
        BY <2>1, <2>2, AnswerStored
      <3>2. Request(p).cmd = cmd[p]
        BY DEF Request
      <3> QED
        BY <2>2, <3>1, <3>2 DEF HeadWithoutBody
    <2>3. cmd[p] = "HEAD" => \A b : UnlessHead(p, b) = "none"
      BY DEF UnlessHead, parse_method
    <2>4. UNCHANGED reply => HeadWithoutBody'
      BY DEF HeadWithoutBody
    <2>5. CASE Dispatch(p) \/ Isadir(p) \/ DoCatStat(p)
      BY <2>4, <2>5 DEF Dispatch, Isadir, DoCatStat, Goto
    <2>6. CASE Respond(p)
      BY <2>2, <2>3, <2>6 DEF Respond
    <2>7. CASE DoLs(p)
      BY <2>2, <2>3, <2>7 DEF DoLs
    <2>8. CASE DoExec(p)
      BY <2>2, <2>8 DEF DoExec
    <2>9. CASE DoCatOpen(p)
      BY <2>2, <2>3, <2>4, <2>9 DEF DoCatOpen
    <2> QED
      BY <1>1, <2>5, <2>6, <2>7, <2>8, <2>9 DEF WorkerStep
  <1>2. UNCHANGED reply => HeadWithoutBody'
    BY DEF HeadWithoutBody
  <1>3. FsChange => UNCHANGED reply
    BY DEF FsChange
  <1> QED
    BY <1>1, <1>2, <1>3, QuietSteps DEF Next

\* No page that webserv.c writes itself has a body when the request was HEAD.
THEOREM HeadIsHeaderOnly == Spec => []HeadWithoutBody
  <1>1. Init => HeadWithoutBody
    BY DEF Init, HeadWithoutBody
  <1> QED
    BY ShapeInvariant, HeadStep, <1>1, PTL DEF Spec

-----------------------------------------------------------------------------
(* A directory nobody edits.  Then what not_exist and do_cat saw is still   *)
(* so when a later step looks again.                                       *)

StillThere ==
  /\ \A p \in Procs : pc[p] \in {"isadir", "stat", "open"} => Found(p) # "missing"
  /\ \A p \in Procs : pc[p] = "open" => response[p] = Found(p)

\* Who keeps the request he parsed finds the same file in the same directory.
LEMMA FoundAgain ==
  ASSUME NEW p \in Procs, request_str'[p] = request_str[p], UNCHANGED fs
  PROVE  Found(p)' = Found(p)
  BY DEF Found, Request

\* Main's steps bring no process to where it relies on an earlier look, and let
\* no child into the loop.
LEMMA LoopStill ==
  ASSUME Shape, OneServer, StillThere, NEW p \in Procs, LoopStep(p) \/ AcceptFails(p)
  PROVE  OneServer' /\ StillThere'
  <1> USE DEF Shape, TypeOK, At
  <1> DEFINE Relies == {"isadir", "stat", "open"}
  <1>1. /\ UNCHANGED fs
        /\ \A q \in Procs : pc'[q] \in Relies =>
              pc[q] = pc'[q] /\ request_str'[q] = request_str[q] /\ response'[q] = response[q]
        /\ \A q \in Procs : pc'[q] \in LoopPcs => pc[q] \in LoopPcs
    <2>1. CASE Accept(p)
      BY <2>1 DEF Accept, fsVars
    <2>2. CASE AcceptFails(p)
      BY <2>2 DEF AcceptFails, Forget, fsVars
    <2>3. CASE Fgets(p) \/ Drain(p) \/ ForkFails(p)
      BY <2>3 DEF Fgets, Drain, ForkFails, fsVars
    <2>4. CASE Fork(p)
      BY <2>4 DEF Fork, FreeSlots, fsVars
    <2>5. CASE Fclose(p)
      BY <2>5 DEF Fclose, fsVars
    <2> QED
      BY <2>1, <2>2, <2>3, <2>4, <2>5 DEF LoopStep
  <1> QED
    BY <1>1, FoundAgain DEF OneServer, StillThere

LEMMA WorkerStill ==
  ASSUME Shape, OneServer, StillThere, NEW p \in Procs, WorkerStep(p)
  PROVE  OneServer' /\ StillThere'
  <1> USE DEF Shape, TypeOK, At
  <1>1. ASSUME NEW l \in WorkerPcs, NEW r, Goto(p, l, r),
               l \in {"isadir", "stat", "open"} => Found(p) # "missing",
               l = "open" => r = Found(p)
        PROVE  OneServer' /\ StillThere'
    <2>1. /\ UNCHANGED <<request_str, fs>> /\ pc'[p] = l /\ response'[p] = r
          /\ \A q \in Procs \ {p} : pc'[q] = pc[q] /\ response'[q] = response[q]
      BY <1>1 DEF Goto, fsVars
    <2>2. \A q \in Procs : Found(q)' = Found(q)
      BY <2>1, FoundAgain
    <2> QED
      BY <1>1, <2>1, <2>2 DEF OneServer, StillThere
  <1>2. CASE Exit(p)
    <2>1. /\ UNCHANGED fs /\ pc'[p] \in {"free", "zombie"}
          /\ \A q \in Procs \ {p} :
               pc'[q] = pc[q] /\ request_str'[q] = request_str[q] /\ response'[q] = response[q]
      BY <1>2 DEF Exit, Forget, fsVars
    <2>2. \A q \in Procs \ {p} : Found(q)' = Found(q)
      BY <2>1, FoundAgain
    <2> QED
      BY <2>1, <2>2 DEF OneServer, StillThere
  <1>3. CASE Dispatch(p)
    BY <1>1, <1>3 DEF Dispatch
  <1>4. CASE Isadir(p)
    BY <1>1, <1>4 DEF Isadir, StillThere
  <1>5. CASE DoCatStat(p)
    <2>1. Found(p) # "missing"
      BY <1>5 DEF DoCatStat, StillThere
    <2> QED
      BY <1>1, <1>5, <2>1 DEF DoCatStat
  <1> QED
    BY <1>2, <1>3, <1>4, <1>5 DEF WorkerStep, Respond, DoLs, DoExec, DoCatOpen

LEMMA OtherStill ==
  ASSUME Shape, OneServer, StillThere, MaxChanges = 0,
         \/ \E p \in Procs : HandlerStep(p)
         \/ \E c \in Conns : ClientStep(c)
         \/ FsChange
         \/ UNCHANGED vars
  PROVE  OneServer' /\ StillThere' /\ UNCHANGED reply
  <1>1. ~FsChange
    BY DEF Shape, TypeOK, FsChange
  <1>2. UNCHANGED <<request_str, response, fs, reply>>
        /\ \A q \in Procs : pc'[q] # pc[q] => pc[q] = "zombie" /\ pc'[q] = "free"
    BY <1>1, OtherEffect, QuietSteps
  <1>3. \A q \in Procs : Found(q)' = Found(q)
    BY <1>2, FoundAgain
  <1> QED
    BY <1>2, <1>3 DEF OneServer, StillThere

\* A file's content is sent under the length stat gave for it, a moment before.
LEMMA LengthStep ==
  ASSUME Shape, StillThere, LengthIsBody, NEW p \in Procs, WorkerStep(p)
  PROVE  LengthIsBody'
  <1>1. conn[p] \in Conns
    BY WorkerEffect
  <1>2. ASSUME NEW s, NEW d, NEW b, Answer(p, s, d, b),
               b \in Contents => d \in {b, "absent"}
        PROVE  LengthIsBody'
    <2>1. /\ reply'[conn[p]] =
               [request |-> Request(p), status |-> s, declared |-> d, body |-> b]
          /\ \A c \in Conns : c # conn[p] => reply'[c] = reply[c]
      BY <1>1, <1>2, AnswerStored
    <2>2. reply'[conn[p]].declared = d /\ reply'[conn[p]].body = b
      BY <2>1
    <2>3. \A c \in Conns : c # conn[p] => reply'[c] = reply[c]
      BY <2>1
    <2> QED
      BY <1>2, <2>2, <2>3 DEF LengthIsBody
  <1>3. UNCHANGED reply => LengthIsBody'
    BY DEF LengthIsBody
  <1>4. CASE Dispatch(p) \/ Isadir(p) \/ DoCatStat(p)
    BY <1>3, <1>4 DEF Dispatch, Isadir, DoCatStat, Goto
  <1>5. CASE Respond(p)
    <2>1. UnlessHead(p, "text") \in {"text", "none"}
      BY DEF UnlessHead
    <2> QED
      BY <1>2, <1>5, <2>1 DEF Respond
  <1>6. CASE DoLs(p)
    <2>1. UnlessHead(p, "listing") \in {"listing", "none"}
      BY DEF UnlessHead
    <2> QED
      BY <1>2, <1>6, <2>1 DEF DoLs
  <1>7. CASE DoExec(p)
    BY <1>2, <1>7 DEF DoExec
  <1>8. CASE DoCatOpen(p)
    <2>1. response[p] = Found(p)
      BY <1>8 DEF DoCatOpen, At, StillThere
    <2>2. UnlessHead(p, Found(p)) \in {Found(p), "none"}
      BY DEF UnlessHead
    <2> QED
      BY <1>2, <1>3, <1>8, <2>1, <2>2 DEF DoCatOpen
  <1> QED
    BY <1>4, <1>5, <1>6, <1>7, <1>8 DEF WorkerStep

LEMMA StillInvariant ==
  ASSUME MaxChanges = 0
  PROVE  Spec => [](OneServer /\ StillThere /\ LengthIsBody)
  <1>1. Init => OneServer /\ StillThere /\ LengthIsBody
    BY DEF Init, OneServer, StillThere, LengthIsBody
  <1>2. Shape /\ OneServer /\ StillThere /\ LengthIsBody /\ [Next]_vars
        => (OneServer /\ StillThere /\ LengthIsBody)'
    <2> SUFFICES ASSUME Shape, OneServer, StillThere, LengthIsBody, [Next]_vars
                 PROVE  OneServer' /\ StillThere' /\ LengthIsBody'
      OBVIOUS
    <2>1. UNCHANGED reply => LengthIsBody'
      BY DEF LengthIsBody
    <2>2. ASSUME NEW p \in Procs, LoopStep(p) \/ AcceptFails(p)
          PROVE  OneServer' /\ StillThere' /\ LengthIsBody'
      BY <2>1, <2>2, LoopStill, QuietSteps
    <2>3. ASSUME NEW p \in Procs, WorkerStep(p)
          PROVE  OneServer' /\ StillThere' /\ LengthIsBody'
      BY <2>3, WorkerStill, LengthStep
    <2> QED
      BY <2>1, <2>2, <2>3, OtherStill DEF Next
  <1> QED
    BY ShapeInvariant, <1>1, <1>2, PTL DEF Spec

\* While nobody edits the directory no child ever returns into main's loop.
THEOREM OnlyMainServes ==
  ASSUME MaxChanges = 0
  PROVE  Spec => []OneServer
  BY StillInvariant, PTL

\* While nobody edits the directory Content-Length is the length of the body.
THEOREM LengthsAgree ==
  ASSUME MaxChanges = 0
  PROVE  Spec => []LengthIsBody
  BY StillInvariant, PTL

-----------------------------------------------------------------------------
(* Signals.                                                                *)

\* Only processes in the loop have children, and SIGCHLD reaches those at any step.
Parents ==
  \A q \in Procs : parent[q] # NoProc => pc[parent[q]] \in LoopPcs /\ parent[q] # q

\* Signals coalesce, but a parent with a zombie has one pending or is in the
\* handler, whose loop has not come to its end.
ZombieSeen ==
  \A q \in Procs : pc[q] = "zombie" =>
    parent[q] # NoProc /\ (sigchld[parent[q]] \/ handling[parent[q]])

LEMMA KinStep ==
  ASSUME Shape, Parents, ZombieSeen, [Next]_vars
  PROVE  Parents' /\ ZombieSeen'
  <1> USE ProcsAssumption DEF Shape, TypeOK, Parents, ZombieSeen, At
  <1>1. ASSUME NEW p \in Procs, LoopStep(p)
        PROVE  Parents' /\ ZombieSeen'
    <2>1. CASE Fork(p)
      BY <2>1 DEF Fork, FreeSlots, sigVars
    <2>2. CASE ~Fork(p)
      <3>1. /\ UNCHANGED <<parent, sigchld, handling>>
            /\ \E l \in LoopPcs : pc' = [pc EXCEPT ![p] = l]
            /\ pc[p] \in LoopPcs
        BY <1>1, <2>2 DEF LoopStep, Accept, Fgets, Drain, ForkFails, Fclose, sigVars
      <3> QED
        BY <3>1
    <2> QED
      BY <2>1, <2>2
  <1>2. ASSUME NEW p \in Procs, AcceptFails(p)
        PROVE  Parents' /\ ZombieSeen'
    <2>1. /\ pc[p] = "accept"
          /\ pc'[p] \in {"gone", "free", "zombie"} /\ (pc'[p] = "zombie" => parent[p] # NoProc)
          /\ \A q \in Procs \ {p} :
               /\ pc'[q] = IF parent[q] = p /\ pc[q] = "zombie" THEN "free" ELSE pc[q]
               /\ sigchld[q] \/ q = parent[p] => sigchld'[q]
          /\ \A q \in Procs : parent'[q] = IF parent[q] = p THEN NoProc ELSE parent[q]
          /\ handling' = handling
      BY <1>2 DEF AcceptFails
    <2>2. Parents'
      BY <2>1
    <2>3. ASSUME NEW q \in Procs, pc'[q] = "zombie"
          PROVE  parent'[q] # NoProc /\ (sigchld'[parent'[q]] \/ handling'[parent'[q]])
      <3>1. CASE q = p
        <4>1. parent[p] \in Procs \ {p} /\ parent'[p] = parent[p]
          BY <2>1, <2>3, <3>1
        <4> QED
          BY <2>1, <3>1, <4>1
      <3>2. CASE q # p
        <4>1. pc[q] = "zombie" /\ parent[q] \in Procs \ {p} /\ parent'[q] = parent[q]
          BY <2>1, <2>3, <3>2
        <4> QED
          BY <2>1, <4>1, Zenon
      <3> QED
        BY <3>1, <3>2
    <2> QED
      BY <2>2, <2>3, Zenon
  <1>3. ASSUME NEW p \in Procs, WorkerStep(p)
        PROVE  Parents' /\ ZombieSeen'
    <2>1. pc[p] \in WorkerPcs
      BY <1>3, WorkerEffect
    <2>2. CASE Exit(p)
      <3>1. /\ parent' = parent /\ handling' = handling
            /\ pc'[p] = "zombie" => parent[p] # NoProc
            /\ \A q \in Procs \ {p} : pc'[q] = pc[q]
            /\ \A q \in Procs : sigchld[q] \/ q = parent[p] => sigchld'[q]
        <4>1. parent' = parent /\ handling' = handling
          BY <2>2 DEF Exit
        <4>2. pc'[p] = "zombie" => parent[p] # NoProc
          BY <2>2 DEF Exit
        <4>3. \A q \in Procs \ {p} : pc'[q] = pc[q]
          BY <2>2 DEF Exit
        <4>4. \A q \in Procs : sigchld[q] \/ q = parent[p] => sigchld'[q]
          BY <2>2 DEF Exit
        <4> QED
          BY <4>1, <4>2, <4>3, <4>4, Zenon
      <3>2. Parents'
        BY <2>1, <3>1
      <3>3. ASSUME NEW q \in Procs, pc'[q] = "zombie"
            PROVE  parent'[q] # NoProc /\ (sigchld'[parent'[q]] \/ handling'[parent'[q]])
        <4>1. CASE q = p
          <5>1. parent[p] \in Procs
            BY <3>1, <3>3, <4>1
          <5> QED
            BY <3>1, <4>1, <5>1, ProcsAssumption
        <4>2. CASE q # p
          <5>1. pc[q] = "zombie" /\ parent[q] \in Procs
            BY <3>1, <3>3, <4>2
          <5> QED
            BY <3>1, <4>2, <5>1, Zenon
        <4> QED
          BY <4>1, <4>2
      <3> QED
        BY <3>2, <3>3, Zenon
    <2>3. ASSUME NEW l \in WorkerPcs \cup {"fclose"}, NEW r, Goto(p, l, r)
          PROVE  Parents' /\ ZombieSeen'
      BY <2>1, <2>3 DEF Goto, sigVars
    <2> QED
      BY <1>3, <2>2, <2>3, WorkerEffect
  <1>4. ASSUME NEW p \in Procs, HandlerStep(p)
        PROVE  Parents' /\ ZombieSeen'
    <2>1. CASE HandlerEnter(p)
      BY <2>1 DEF HandlerEnter, procVars
    <2>2. CASE HandlerReap(p)
      BY <2>2 DEF HandlerReap, ZombiesOf, sigVars
    <2>3. CASE HandlerReturn(p)
      BY <2>3 DEF HandlerReturn, ZombiesOf, procVars
    <2> QED
      BY <1>4, <2>1, <2>2, <2>3 DEF HandlerStep
  <1>5. ASSUME NEW c \in Conns, ClientStep(c) PROVE UNCHANGED <<procVars, sigVars>>
    BY <1>5 DEF ClientStep, Connect, SendLine, SendBlank, Shut
  <1>6. FsChange \/ UNCHANGED vars => UNCHANGED <<procVars, sigVars>>
    BY DEF FsChange, vars
  <1>7. UNCHANGED <<procVars, sigVars>> => Parents' /\ ZombieSeen'
    BY DEF procVars, sigVars
  <1> QED
    BY <1>1, <1>2, <1>3, <1>4, <1>5, <1>6, <1>7 DEF Next

\* No zombie is forgotten: its parent is in main's loop, where the handler may
\* start at any step, and knows of it by a pending signal or by the handler it is
\* in. With fairness, which TLC checks, this makes it wait for the zombie.
THEOREM NoZombieForgotten == Spec => [](Parents /\ ZombieSeen)
  <1>1. Init => Parents /\ ZombieSeen
    BY DEF Init, Parents, ZombieSeen
  <1> QED
    BY ShapeInvariant, KinStep, <1>1, PTL DEF Spec
-----------------------------------------------------------------------------
(* The safety half of Answered.                                            *)

\* Somebody works on connection c.
Carried(c) == \E p \in Procs : pc[p] \in Working /\ conn[p] = c

\* p is about to drop its request: where fork may fail, or where do_cat finds
\* that the file went away or cannot be read.
MayDrop(p) ==
  \/ pc[p] = "fork" /\ (FreeSlots = {} \/ ForkMayFail)
  \/ pc[p] \in {"stat", "open"} /\ Found(p) \in {"missing", "noperm"}

\* What Answer stores is a reply.
LEMMA AnswerIsReply ==
  ASSUME Shape, NEW p \in Procs, conn[p] \in Conns,
         NEW s \in {"501", "404", "200", "program", "perror"},
         NEW d \in FileKinds \cup {"text", "absent"},
         NEW b \in Contents \cup {"text", "listing", "program", "none"},
         Answer(p, s, d, b)
  PROVE  reply'[conn[p]] # NoReply
  <1>1. [request |-> Request(p), status |-> s, declared |-> d, body |-> b] \in Replies
    BY RequestType DEF Replies, Shape
  <1> QED
    BY <1>1, AnswerStored, RepliesAssumption

LEMMA CarriedStep ==
  ASSUME Shape, [Next]_vars, NEW c \in Conns,
         NEW p \in Procs, pc[p] \in Working, conn[p] = c
  PROVE  reply'[c] # NoReply \/ Carried(c)' \/ MayDrop(p)
  <1> USE DEF Shape, TypeOK, At
  <1>1. pc'[p] \in Working /\ conn'[p] = c => Carried(c)'
    BY DEF Carried
  <1>2. ASSUME NEW q \in Procs, LoopStep(q) \/ AcceptFails(q), q # p
        PROVE  pc'[p] \in Working /\ conn'[p] = c
    <2> USE <1>2 DEF Working
    <2>1. CASE Accept(q)
      BY <2>1 DEF Accept
    <2>2. CASE Fgets(q) \/ Drain(q) \/ ForkFails(q)
      BY <2>2 DEF Fgets, Drain, ForkFails
    <2>3. CASE Fork(q)
      BY <2>3 DEF Fork, FreeSlots
    <2>4. CASE Fclose(q)
      BY <2>4 DEF Fclose
    <2>5. CASE AcceptFails(q)
      BY <2>5 DEF AcceptFails, Forget
    <2> QED
      BY <2>1, <2>2, <2>3, <2>4, <2>5 DEF LoopStep
  <1>3. CASE LoopStep(p) \/ AcceptFails(p)
    <2>1. CASE Fgets(p) \/ Drain(p)
      BY <1>1, <2>1 DEF Fgets, Drain, Working
    <2>2. CASE Fork(p)
      <3> PICK k \in FreeSlots :
            /\ pc' = [pc EXCEPT ![p] = "fclose", ![k] = "dispatch"]
            /\ conn' = [conn EXCEPT ![k] = conn[p]]
        BY <2>2 DEF Fork
      <3>1. k \in Procs /\ pc'[k] \in Working /\ conn'[k] = c
        BY DEF FreeSlots, Working
      <3> QED
        BY <3>1 DEF Carried
    <2>3. CASE ForkFails(p)
      BY <2>3 DEF ForkFails, MayDrop
    <2>4. CASE Accept(p) \/ Fclose(p) \/ AcceptFails(p)
      BY <2>4 DEF Accept, Fclose, AcceptFails, Working
    <2> QED
      BY <1>3, <2>1, <2>2, <2>3, <2>4 DEF LoopStep
  <1>4. ASSUME NEW q \in Procs, WorkerStep(q), q # p
        PROVE  pc'[p] \in Working /\ conn'[p] = c
    <2>1. CASE Exit(q)
      BY <1>4, <2>1 DEF Exit, Forget
    <2>2. ASSUME NEW l, NEW r, Goto(q, l, r) PROVE pc'[p] \in Working /\ conn'[p] = c
      BY <1>4, <2>2 DEF Goto
    <2> QED
      BY <1>4, <2>1, <2>2, WorkerEffect
  <1>5. CASE WorkerStep(p)
    <2>1. conn[p] \in Conns /\ response[p] \in FileKinds \cup {"none", "501", "404"}
          /\ (pc[p] = "respond" => response[p] \in {"501", "404"})
          /\ (pc[p] = "open" => response[p] \in FileKinds)
      OBVIOUS
    <2>7. UnlessHead(p, "text") \in {"text", "none"} /\ UnlessHead(p, "listing") \in {"listing", "none"}
          /\ UnlessHead(p, Found(p)) \in {Found(p), "none"}
      BY DEF UnlessHead
    <2>2. ASSUME NEW l \in WorkerPcs, NEW r, Goto(p, l, r) PROVE Carried(c)'
      BY <1>1, <2>2 DEF Goto, Working
    <2>3. CASE Dispatch(p) \/ Isadir(p)
      BY <2>2, <2>3 DEF Dispatch, Isadir
    <2>4. CASE DoCatStat(p)
      BY <2>2, <2>4 DEF DoCatStat, MayDrop
    <2>5. CASE Respond(p) \/ DoLs(p) \/ DoExec(p)
      BY <2>1, <2>5, <2>7, AnswerIsReply DEF Respond, DoLs, DoExec
    <2>6. CASE DoCatOpen(p)
      <3>1. Found(p) \in FileKinds
        BY RequestType
      <3> QED
        BY <2>1, <2>6, <2>7, <3>1, AnswerIsReply DEF DoCatOpen, MayDrop
    <2> QED
      BY <1>5, <2>3, <2>4, <2>5, <2>6 DEF WorkerStep
  <1>6. ASSUME \/ \E q \in Procs : HandlerStep(q)
               \/ \E d \in Conns : ClientStep(d)
               \/ FsChange
               \/ UNCHANGED vars
        PROVE  pc'[p] \in Working /\ conn'[p] = c
    <2>1. UNCHANGED conn /\ (pc'[p] # pc[p] => pc[p] = "zombie")
      BY <1>6, OtherEffect
    <2> QED
      BY <2>1 DEF Working
  <1> QED
    BY <1>1, <1>2, <1>3, <1>4, <1>5, <1>6 DEF Next

\* The safety half of Answered: a request that was accepted is passed from step to
\* step, from main to its child, until it is answered; it is dropped only where fork
\* may fail, or where do_cat finds no file that it can read.
THEOREM NoRequestDropped ==
  Spec => [][\A c \in Conns : Carried(c) =>
               \/ reply'[c] # NoReply \/ Carried(c)'
               \/ \E p \in Procs : conn[p] = c /\ MayDrop(p)]_vars
  <1> DEFINE Kept == \A c \in Conns : Carried(c) =>
               \/ reply'[c] # NoReply \/ Carried(c)'
               \/ \E p \in Procs : conn[p] = c /\ MayDrop(p)
  <1>1. Shape /\ [Next]_vars => [Kept]_vars
    BY CarriedStep DEF Carried
  <1> QED
    BY ShapeInvariant, <1>1, PTL DEF Spec
=============================================================================
