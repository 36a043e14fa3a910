-------------------------------- MODULE Http --------------------------------
(***************************************************************************)
(* Clients and server of hw2-simple-my-http-server together.               *)
(***************************************************************************)
EXTENDS HttpServer, HttpClient

vars == <<netVars, serverVars, clientVars>>

Init == NetInit /\ ServerInit /\ ClientInit

ServerStep == \/ AcceptorStep
              \/ \E t \in Threads : WorkerStep(t)
              \/ Interrupt

Next == \/ up = "up" /\ ServerStep /\ UNCHANGED clientVars
        \/ /\ \E u \in Users :
                 \/ \E path \in Queries : Start(u, path)
                 \/ ClientStep(u)
           /\ UNCHANGED serverVars

Spec == Init /\ [][Next]_vars

\* main() and the workers never wait for each other and are scheduled by the
\* kernel; a client goes on when its connection lets it.  Users need not start
\* anything and need not press Ctrl-C.
Fairness ==
    /\ WF_vars(up = "up" /\ AcceptorStep /\ UNCHANGED clientVars)
    /\ \A t \in 1 .. Max({e.threads : e \in Environments}) :
          WF_vars(up = "up" /\ t \in Threads /\ WorkerStep(t)
                    /\ UNCHANGED clientVars)
    /\ \A u \in Users : WF_vars(ClientStep(u) /\ UNCHANGED serverVars)

FairSpec == Spec /\ Fairness

-----------------------------------------------------------------------------
(* Properties                                                               *)

\* Requests one at a time, either a single worker or no two threads in the
\* queue at once, and descriptors for all that the server never closes.  Out
\* of descriptors, main() makes up requests that run into the next real one.
Disciplined == /\ ~Concurrent
               /\ env.races => env.threads = 1
               /\ env.nfds >= 12

\* The threads also take turns at the queue.  The code does not see to that:
\* trylock does not wait and main() does not lock (server.c:51-58, 132).
Calm == Disciplined /\ ~env.races

TypeOK ==
    /\ fd \in [1 .. env.nfds -> {Free, NoSocket} \cup Connections]
    /\ front \in 0 .. Len(next) /\ rear \in 0 .. Len(next)
    /\ \A n \in DOMAIN next : next[n] \in 0 .. Len(next)
    /\ acc.pc \in AccPc /\ acc.fd \in {NoFd} \cup DOMAIN fd
    /\ \A t \in Threads : wk[t].pc \in WorkPc
    /\ DOMAIN answers = Connections
    /\ \A c \in Connections : \A i \in DOMAIN answers[c] :
          answers[c][i].code \in Codes
    /\ shut \subseteq Connections
    /\ up \in {"up", "crashed", "exited"}
    /\ \A u \in Users : /\ client[u].state \in ClientStates
                        /\ client[u].wait \in {0} \cup Connections

\* The server keeps the promise of HttpService to clients that ask one after
\* the other: one answer to each request, and not one to another request
\* (server.c:125-132 against server.h:46-190).
Service == INSTANCE HttpService WITH
              asked   <- IF Disciplined THEN asked ELSE <<>>,
              answers <- IF Disciplined THEN answers ELSE <<>>
ServiceSpec == Service!Spec

\* An answer fits the request of the connection it is written to, which the
\* comments of server.h promise to every client.
AnswersOwn ==
    \A c \in Connections : \A i \in DOMAIN answers[c] :
        answers[c][i] = Served(asked[c])

\* Between operations that do not overlap the queue is a list from front to
\* rear that ends in the node allocated last; no node is lost and none is
\* left behind by either enQueue() or deQueue() (server.h:235-263).
QueueSound ==
    ~env.races /\ Dequeuing = {} /\ ~Enqueuing =>
        /\ (front = 0) <=> (rear = 0)
        /\ front # 0 => /\ rear = Len(next)
                        /\ \A n \in front .. rear - 1 : next[n] = n + 1
                        /\ next[rear] = 0

\* No connection is closed before it was answered: the descriptor a worker
\* writes to and the one it closes are not given to another connection
\* in between (server.h:59-60, 109-110, 189-190).
ShutAnswered == Disciplined => \A c \in shut : answers[c] # <<>>

\* A descriptor is lost with every directory and every unsupported file that
\* was asked for, and with nothing else: what is open for a file or directory
\* is about to be closed, or was opened for such an answer (server.h:87-190).
Leaked(i) == fd[i] = NoSocket /\ \A t \in Threads : wk[t].file # i
NeverClosed(c) == \E i \in DOMAIN answers[c] :
                     answers[c][i].code \in {"directory", "unsupported"}
DescriptorsLost ==
    Disciplined => Cardinality({i \in DOMAIN fd : Leaked(i)})
                      = Cardinality({c \in Connections : NeverClosed(c)})

\* A file is saved with the content the server has for the path it is saved
\* under: no file of the output is another's (client.h:103, 171-211).
SavedIsServed ==
    Disciplined =>
        \A s \in saved : s.content = ServerSees(s.at)

SavedBelow(query, name) ==
    \E nl \in BOOLEAN : \E s \in saved :
        /\ s.at = Append(query, [name |-> name, nl |-> nl])
        /\ s.content = Append(ServerSees(query), name)

\* A client that comes to its end has saved every file that lies directly in
\* the directory its user named, however deep it has gone into the entries
\* before (client.h:142-150).
TopLevelSaved ==
    Disciplined /\ up = "up" =>
        \A u \in Users :
            LET query == ServerSees(client[u].query) IN
            client[u].state = "done" /\ query \in DOMAIN fs =>
               \A i \in DOMAIN fs[query].list :
                  fs[Append(query, fs[query].list[i])].kind = "file"
                     => SavedBelow(client[u].query, fs[query].list[i])

\* Every file below the directory, at any depth, is what the comment of
\* client.h:137 says of a directory.
DownloadsAll ==
    Calm /\ up = "up" =>
        \A u \in Users :
            client[u].state = "done" =>
               \A names \in DOMAIN fs :
                  /\ fs[names].kind = "file"
                  /\ IsPrefix(ServerSees(client[u].query), names)
                  => \E s \in saved : s.content = names

\* The newline behind a listing does no harm where the last entry is a file.
WellOrdered == \A names \in DOMAIN fs :
                  fs[names].kind = "dir" =>
                     /\ fs[names].list # <<>>
                     /\ fs[Append(names, Last(fs[names].list))].kind # "dir"

\* In such a tree the recursion goes no deeper than the tree does
\* (client.h:103, 148).
Bounded ==
    Disciplined /\ WellOrdered =>
        \A u \in Users : Len(client[u].stack) <=
                            Max({0} \cup {Len(names) : names \in DOMAIN fs})

\* Every request is answered, unless somebody ends the server or a query does:
\* what main() and the threads are for (server.c:40, 121).  Does not hold, not
\* even with one worker and one client: a worker that takes a node before
\* enQueue() has set rear clears front and rear; rear is then set to that node,
\* and what is linked behind it is never found.
Unanswered == \E c \in Connections : answers[c] = <<>>
EveryRequestAnswered == Unanswered ~> (~Unanswered \/ up # "up")

\* It holds where the environment is Calm: as long as no two threads are inside
\* enQueue() and deQueue() at once, requests come one at a time and descriptors
\* last, no node is lost or left behind and no worker misses one, whatever else
\* of two workers and the acceptor interleaves (server.c:45-59, 122-137).
Answered == (Calm /\ Unanswered) ~> (~Unanswered \/ up # "up")

\* In Calm environments (else a request that is lost keeps its client waiting)
\* every download comes to an end, also when the server dies or closes in the
\* middle of it (client.h:89-101, 142).
Finishes ==
    \A u \in Users :
        (Calm /\ client[u].state = "waiting") ~>
            client[u].state \in {"done", "crashed"}

=============================================================================
