----------------------------- MODULE HttpServer -----------------------------
(***************************************************************************)
(* The server of hw2-simple-my-http-server: main() accepts connections and *)
(* appends to a linked queue, the worker threads take from it and answer.  *)
(*                                                                         *)
(* A step is one access to memory the threads share: with -O3 (Makefile)   *)
(* front and rear are read once in deQueue() and enQueue(), kept in        *)
(* registers and written one after the other.  Every node points to the    *)
(* one buffer request, so a node has no data but its next.                 *)
(* The mutex is left out: a worker goes on whether or not trylock succeeds *)
(* and unlocks in either case, and main() does not use it at all.          *)
(*                                                                         *)
(* Definitions called Bad... are faulty variants of the one that follows   *)
(* them: each breaks one of the properties.                                *)
(***************************************************************************)
EXTENDS HttpNet

CONSTANT
    MaxQuery        \* names in a query that fills query[64]

VARIABLES
    fd,             \* fd[i]: the connection open at i, or Free, or NoSocket
    requestBuff,    \* the last path read
    request,        \* the global request: descriptor and path, as text
    front, rear,    \* the queue: node numbers, or 0 for NULL
    next,           \* next[n]: the link of node n
    acc,            \* main(): pc, descriptor of the connection, new node,
                    \* the rear it has read
    wk              \* a worker: pc, the node taken, the link it has read,
                    \* descriptor of the connection, of the file it reads

serverVars == <<fd, requestBuff, request, front, rear, next, acc, wk>>

Free     == 0       \* connections count from 1
NoSocket == -1      \* a file or directory is open here
NoFd     == -1      \* what accept() returns on failure

AccPc  == {"accept", "fd", "query", "test", "front", "link", "rear"}
WorkPc == {"test", "next", "front", "rear", "fd", "respond", "close"}

FreeFds == {i \in DOMAIN fd : fd[i] = Free}

ServerInit ==
    /\ fd = [i \in 1 .. env.nfds |-> Free]
    /\ requestBuff = <<>>
    /\ request = [fd |-> NoFd, path |-> <<>>]
    /\ front = 0
    /\ rear = 0
    /\ next = <<>>
    /\ acc = [pc |-> "accept", fd |-> NoFd, node |-> 0, rear |-> 0]
    /\ wk = [t \in Threads |-> [pc |-> "test", node |-> 0, next |-> 0,
                                fd |-> NoFd, file |-> NoFd]]

\* Threads inside a queue operation.  Without races they take turns there: that
\* is an assumption on the environment, as nothing in the code makes them wait.
Dequeuing == {t \in Threads : wk[t].pc \in {"next", "front", "rear"}}
Enqueuing == acc.pc \in {"front", "link", "rear"}
MayEnter  == env.races \/ (Dequeuing = {} /\ ~Enqueuing)

-----------------------------------------------------------------------------
(* main(): the acceptor                                                     *)

\* accept() and read().  With no descriptor free, accept() fails without
\* waiting and so does read(): the previous request is still in requestBuff.
Accept ==
    /\ acc.pc = "accept"
    /\ IF FreeFds = {}
       THEN /\ acc' = [acc EXCEPT !.pc = "fd", !.fd = NoFd]
            /\ UNCHANGED <<fd, requestBuff, backlog>>
       ELSE /\ backlog # <<>>
            /\ LET i == Min(FreeFds) IN
                  /\ fd' = [fd EXCEPT ![i] = Head(backlog)]
                  /\ acc' = [acc EXCEPT !.pc = "fd", !.fd = i]
            /\ requestBuff' = asked[Head(backlog)]
            /\ backlog' = Tail(backlog)
    /\ UNCHANGED <<request, front, rear, next, wk, env, fs, asked, answers,
                   shut, up>>

\* sprintf() writes the descriptor, then the text that was read.
WriteFd ==
    /\ acc.pc = "fd"
    /\ acc' = [acc EXCEPT !.pc = "query"]
    /\ request' = [request EXCEPT !.fd = acc.fd]
    /\ UNCHANGED <<fd, requestBuff, front, rear, next, wk, netVars>>

BadWriteQuery ==
    /\ acc.pc = "query"
    /\ acc' = [acc EXCEPT !.pc = "test"]
    /\ request' = [request EXCEPT !.path = IF @ = <<>> THEN requestBuff ELSE @]
    /\ UNCHANGED <<fd, requestBuff, front, rear, next, wk, netVars>>
WriteQuery ==
    /\ acc.pc = "query"
    /\ acc' = [acc EXCEPT !.pc = "test"]
    /\ request' = [request EXCEPT !.path = requestBuff]
    /\ UNCHANGED <<fd, requestBuff, front, rear, next, wk, netVars>>

\* enQueue(): a new node, and what rear is.
BadTestRear ==
    /\ acc.pc = "test"
    /\ Len(next) < env.nodes
    /\ MayEnter
    /\ next' = Append(next, Len(next) + 2)
    /\ acc' = [acc EXCEPT !.pc = IF rear = 0 THEN "front" ELSE "link",
                          !.node = Len(next) + 1, !.rear = rear]
    /\ UNCHANGED <<fd, requestBuff, request, front, rear, wk, netVars>>
TestRear ==
    /\ acc.pc = "test"
    /\ Len(next) < env.nodes
    /\ MayEnter
    /\ next' = Append(next, 0)
    /\ acc' = [acc EXCEPT !.pc = IF rear = 0 THEN "front" ELSE "link",
                          !.node = Len(next) + 1, !.rear = rear]
    /\ UNCHANGED <<fd, requestBuff, request, front, rear, wk, netVars>>

SetFront ==
    /\ acc.pc = "front"
    /\ front' = acc.node
    /\ acc' = [acc EXCEPT !.pc = "rear"]
    /\ UNCHANGED <<fd, requestBuff, request, rear, next, wk, netVars>>

LinkRear ==
    /\ acc.pc = "link"
    /\ next' = [next EXCEPT ![acc.rear] = acc.node]
    /\ acc' = [acc EXCEPT !.pc = "rear"]
    /\ UNCHANGED <<fd, requestBuff, request, front, rear, wk, netVars>>

SetRear ==
    /\ acc.pc = "rear"
    /\ rear' = acc.node
    /\ acc' = [acc EXCEPT !.pc = "accept"]
    /\ UNCHANGED <<fd, requestBuff, request, front, next, wk, netVars>>

AcceptorStep == \/ Accept \/ WriteFd \/ WriteQuery
                \/ TestRear \/ SetFront \/ LinkRear \/ SetRear

-----------------------------------------------------------------------------
(* doRequest(): a worker.  It takes a node ...                              *)

\* An empty queue is tested again and again.
BadTakeFront(t) ==
    /\ wk[t].pc = "test"
    /\ front # 0 /\ next[front] # 0
    /\ MayEnter
    /\ wk' = [wk EXCEPT ![t].pc = "next", ![t].node = front]
    /\ UNCHANGED <<fd, requestBuff, request, front, rear, next, acc, netVars>>
TakeFront(t) ==
    /\ wk[t].pc = "test"
    /\ front # 0
    /\ MayEnter
    /\ wk' = [wk EXCEPT ![t].pc = "next", ![t].node = front]
    /\ UNCHANGED <<fd, requestBuff, request, front, rear, next, acc, netVars>>

ReadNext(t) ==
    /\ wk[t].pc = "next"
    /\ wk' = [wk EXCEPT ![t].pc = "front", ![t].next = next[wk[t].node]]
    /\ UNCHANGED <<fd, requestBuff, request, front, rear, next, acc, netVars>>

BadAdvanceFront(t) ==
    /\ wk[t].pc = "front"
    /\ front' = wk[t].next
    /\ wk' = [wk EXCEPT ![t].pc = "fd"]
    /\ UNCHANGED <<fd, requestBuff, request, rear, next, acc, netVars>>

AdvanceFront(t) ==
    /\ wk[t].pc = "front"
    /\ front' = wk[t].next
    /\ wk' = [wk EXCEPT ![t].pc = IF wk[t].next = 0 THEN "rear" ELSE "fd"]
    /\ UNCHANGED <<fd, requestBuff, request, rear, next, acc, netVars>>

ClearRear(t) ==
    /\ wk[t].pc = "rear"
    /\ rear' = 0
    /\ wk' = [wk EXCEPT ![t].pc = "fd"]
    /\ UNCHANGED <<fd, requestBuff, request, front, next, acc, netVars>>

-----------------------------------------------------------------------------
(* ... and answers whatever request now holds: response()                   *)

ReadFd(t) ==
    /\ wk[t].pc = "fd"
    /\ wk' = [wk EXCEPT ![t].pc = "respond", ![t].fd = request.fd]
    /\ UNCHANGED <<fd, requestBuff, request, front, rear, next, acc, netVars>>

\* The answer goes to the connection that is open at the descriptor by now.
BadWrite(i, a) ==
    answers' = IF i \in DOMAIN fd /\ fd[i] \in Connections /\ a.code # "bad"
               THEN [answers EXCEPT ![fd[i]] = Append(@, a)] ELSE answers
Write(i, a) ==
    answers' = IF i \in DOMAIN fd /\ fd[i] \in Connections
               THEN [answers EXCEPT ![fd[i]] = Append(@, a)] ELSE answers

Crash ==
    /\ up' = "crashed"
    /\ UNCHANGED <<serverVars, env, fs, asked, answers, backlog, shut>>

\* query[64] is filled from the request without regard to its length.
Overlong == request.path # <<>> /\ Len(ServerSees(request.path)) > MaxQuery

Kind == LET names == ServerSees(request.path)
        IN  IF request.path = <<>> \/ names \notin DOMAIN fs THEN "none"
            ELSE fs[names].kind

\* Nothing to open: 400 and 404.
RespondNone(t) ==
    /\ wk[t].pc = "respond"
    /\ ~Overlong
    /\ Kind = "none"
    /\ Write(wk[t].fd, Served(request.path))
    /\ wk' = [wk EXCEPT ![t].pc = "close", ![t].file = NoFd]
    /\ UNCHANGED <<fd, requestBuff, request, front, rear, next, acc, env, fs,
                   asked, backlog, shut, up>>

\* opendir() and fopen() take the lowest descriptor.  Only the file of a 200
\* answer is closed again.
BadRespondOpen(t) ==
    /\ wk[t].pc = "respond"
    /\ ~Overlong
    /\ Kind \in {"dir", "file", "odd"}
    /\ FreeFds # {}
    /\ Write(wk[t].fd, Served(request.path))
    /\ fd' = [fd EXCEPT ![Min(FreeFds)] = NoSocket]
    /\ wk' = [wk EXCEPT ![t].pc = "close", ![t].file = NoFd]
    /\ UNCHANGED <<requestBuff, request, front, rear, next, acc, env, fs,
                   asked, backlog, shut, up>>
RespondOpen(t) ==
    /\ wk[t].pc = "respond"
    /\ ~Overlong
    /\ Kind \in {"dir", "file", "odd"}
    /\ FreeFds # {}
    /\ Write(wk[t].fd, Served(request.path))
    /\ LET i == Min(FreeFds) IN
          /\ fd' = [fd EXCEPT ![i] = NoSocket]
          /\ wk' = [wk EXCEPT ![t].pc = "close",
                              ![t].file = IF Kind = "file" THEN i ELSE NoFd]
    /\ UNCHANGED <<requestBuff, request, front, rear, next, acc, env, fs,
                   asked, backlog, shut, up>>

\* Without a free descriptor fopen() fails and the file is reported missing.
RespondNoFd(t) ==
    /\ wk[t].pc = "respond"
    /\ ~Overlong
    /\ Kind \in {"file", "odd", "bare"}
    /\ FreeFds = {}
    /\ Write(wk[t].fd, NotFound)
    /\ wk' = [wk EXCEPT ![t].pc = "close", ![t].file = NoFd]
    /\ UNCHANGED <<fd, requestBuff, request, front, rear, next, acc, env, fs,
                   asked, backlog, shut, up>>

\* The query overruns its buffer, readdir(NULL), or strcpy() to the NULL that
\* strrchr() returns for a name without a dot.
RespondCrash(t) ==
    /\ wk[t].pc = "respond"
    /\ \/ Overlong
       \/ Kind = "dir" /\ FreeFds = {}
       \/ Kind = "bare" /\ FreeFds # {}
    /\ Crash

\* close() the socket, fclose() the file.
BadClose(t) ==
    /\ wk[t].pc = "close"
    /\ fd' = [i \in DOMAIN fd |-> IF i = wk[t].file THEN Free ELSE fd[i]]
    /\ wk' = [wk EXCEPT ![t] = [pc |-> "test", node |-> 0, next |-> 0,
                                fd |-> NoFd, file |-> NoFd]]
    /\ UNCHANGED <<requestBuff, request, front, rear, next, acc, env, fs,
                   asked, answers, backlog, shut, up>>
Close(t) ==
    /\ wk[t].pc = "close"
    /\ LET closed == {wk[t].fd, wk[t].file} \cap DOMAIN fd IN
          /\ fd' = [i \in DOMAIN fd |-> IF i \in closed THEN Free ELSE fd[i]]
          /\ shut' = shut \cup ({fd[i] : i \in closed} \ {Free, NoSocket})
    /\ wk' = [wk EXCEPT ![t] = [pc |-> "test", node |-> 0, next |-> 0,
                                fd |-> NoFd, file |-> NoFd]]
    /\ UNCHANGED <<requestBuff, request, front, rear, next, acc, env, fs,
                   asked, answers, backlog, up>>

WorkerStep(t) == \/ TakeFront(t) \/ ReadNext(t) \/ AdvanceFront(t)
                 \/ ClearRear(t) \/ ReadFd(t) \/ RespondNone(t)
                 \/ RespondOpen(t) \/ RespondNoFd(t) \/ RespondCrash(t)
                 \/ Close(t)

-----------------------------------------------------------------------------

\* sigint_handler(): exit(0) ends all threads and closes every socket.
Interrupt ==
    /\ up' = "exited"
    /\ UNCHANGED <<serverVars, env, fs, asked, answers, backlog, shut>>

=============================================================================
