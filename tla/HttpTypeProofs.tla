--------------------------- MODULE HttpTypeProofs ---------------------------
(***************************************************************************)
(* Types in Http, for every tree, every number of threads, users and       *)
(* descriptors, and every length of the two buffers for paths; and what    *)
(* the operators on paths and answers give.                                *)
(***************************************************************************)
EXTENDS Http, Groundwork, SequenceTheorems, TLAPS

AnswerSet == [code : Codes, of : Seq(Words)]
Fds       == {NoFd} \cup 1 .. env.nfds
Nodes     == 0 .. Len(next)

NetType ==
    /\ env \in Environments
    /\ fs \in FileSystems
    /\ asked \in Seq(Paths)
    /\ answers \in Seq(Seq(AnswerSet))
    /\ Len(answers) = Len(asked)
    /\ \A c \in Connections : \A i \in DOMAIN answers[c] :
          answers[c][i].code = "directory" => answers[c][i].of \in DOMAIN fs
    /\ backlog \in Seq(Connections)
    /\ shut \subseteq Connections
    /\ up \in {"up", "crashed", "exited"}

QueueType ==
    /\ next \in Seq(Nat)
    /\ \A n \in DOMAIN next : next[n] \in Nodes
    /\ front \in Nodes
    /\ rear \in Nodes

AccType ==
    /\ acc \in [pc : AccPc, fd : Fds, node : Nodes, rear : Nodes]
    /\ Enqueuing => acc.node # 0
    /\ acc.pc = "link" => acc.rear # 0

WkType ==
    /\ wk \in [Threads -> [pc : WorkPc, node : Nodes, next : Nodes,
                           fd : Fds, file : Fds]]
    /\ \A t \in Threads : wk[t].pc = "next" => wk[t].node # 0

ServerType ==
    /\ fd \in [1 .. env.nfds -> {Free, NoSocket} \cup Connections]
    /\ requestBuff \in Paths
    /\ request \in [fd : Fds, path : Paths]

ClientType ==
    /\ client \in [Users -> [state : ClientStates, query : Paths,
                             newquery : Paths, stack : Seq(Paths), wait : Nat]]
    /\ \A u \in Users :
          /\ client[u].wait \in {0} \cup Connections
          /\ client[u].state = "waiting" => client[u].wait # 0
          /\ client[u].state = "walking" => client[u].stack # <<>>
    /\ saved \subseteq [at : Paths, content : Seq(Words)]

Types == /\ NetType /\ QueueType /\ AccType /\ WkType
         /\ ServerType /\ ClientType


-----------------------------------------------------------------------------
(* What the server makes of a path                                          *)

\* The recursion of ServerSees.
SeesStep(path, i, seen) ==
    IF path[i].name = "" \/ \E j \in 1 .. i - 1 : path[j].nl
    THEN seen ELSE Append(seen, path[i].name)

SeesBody(path, f) ==
    [i \in 0 .. Len(path) |->
        IF i = 0 THEN <<>> ELSE SeesStep(path, i, f[i - 1])]

Sees(path) == CHOOSE f : f = SeesBody(path, f)

\* The recursion of ServerSees, by name.
LEMMA ServerSeesIs ==
    ASSUME NEW path
    PROVE  ServerSees(path) = Sees(path)[Len(path)]
BY DEF ServerSees, Sees, SeesBody, SeesStep

\* A path is a function from its positions.
LEMMA NameTypes ==
    ASSUME NEW path \in Paths
    PROVE  /\ Len(path) \in Nat /\ DOMAIN path = 1 .. Len(path)
           /\ \A i \in 1 .. Len(path) : path[i].name \in Words
<1>1. path \in Seq(Names)
  BY DEF Paths
<1>2. \A i \in 1 .. Len(path) : path[i] \in Names
  BY <1>1
<1> QED
  BY <1>1, <1>2 DEF Names

\* One more name is seen, or none.
LEMMA SeesStepType ==
    ASSUME NEW path \in Paths, NEW i \in 1 .. Len(path), NEW seen \in Seq(Words)
    PROVE  SeesStep(path, i, seen) \in Seq(Words)
<1>1. path[i].name \in Words
  BY NameTypes
<1>2. Append(seen, path[i].name) \in Seq(Words)
  BY <1>1
<1>3. SeesStep(path, i, seen) \in {seen, Append(seen, path[i].name)}
  BY ZenonT(20) DEF SeesStep
<1> QED
  BY <1>2, <1>3

\* There is a function that the recursion of ServerSees defines.
LEMMA SeesExists ==
    ASSUME NEW path \in Paths
    PROVE  \E f : f = SeesBody(path, f)
<1> DEFINE n == Len(path)
           Seen == Seq(Words)
           step == [i \in Nat |-> [seen \in Seen |->
                      IF i \in 1 .. n THEN SeesStep(path, i, seen) ELSE <<>>]]
<1>1. n \in Nat
  BY NameTypes
<1>2. step \in [Nat -> [Seen -> Seen]]
  <2>1. \A i \in Nat : \A seen \in Seen :
           (IF i \in 1 .. n THEN SeesStep(path, i, seen) ELSE <<>>) \in Seen
    BY <1>1, SeesStepType
  <2> HIDE DEF Seen, n
  <2> QED
    BY <2>1
<1>3. <<>> \in Seen
  OBVIOUS
<1>4. \A i \in 1 .. n : \A seen \in Seen : step[i][seen] = SeesStep(path, i, seen)
  BY <1>1
<1> HIDE DEF Seen, step
<1>5. PICK f \in [0 .. n -> Seen] : IsRecursion(f, n, <<>>, step)
  BY <1>1, <1>2, <1>3, RecursionExists
<1>6. \A i \in 1 .. n : f[i] = SeesStep(path, i, f[i - 1])
  BY <1>1, <1>4, <1>5 DEF IsRecursion
<1>7. f = [i \in 0 .. n |-> f[i]]
  BY <1>5
<1>8. \A i \in 0 .. n : f[i] = IF i = 0 THEN <<>> ELSE SeesStep(path, i, f[i - 1])
  BY <1>1, <1>5, <1>6 DEF IsRecursion
<1>9. f = SeesBody(path, f)
  BY <1>7, <1>8 DEF SeesBody
<1> QED
  BY <1>9

\* So its values are those of the recursion.
LEMMA SeesIs ==
    ASSUME NEW path \in Paths
    PROVE  /\ Sees(path)[0] = <<>>
           /\ \A i \in 1 .. Len(path) :
                 Sees(path)[i] = SeesStep(path, i, Sees(path)[i - 1])
<1>1. Sees(path) = SeesBody(path, Sees(path))
  BY SeesExists DEF Sees
<1> DEFINE g == Sees(path)
<1> HIDE DEF g
<1>2. g = SeesBody(path, g)
  BY <1>1 DEF g
<1>3. g[0] = <<>> /\ \A i \in 1 .. Len(path) : g[i] = SeesStep(path, i, g[i - 1])
  BY <1>2, NameTypes DEF SeesBody
<1> QED
  BY <1>3 DEF g

\* The server takes a sequence of names from any path.
LEMMA SeesType ==
    ASSUME NEW path \in Paths
    PROVE  /\ \A i \in 0 .. Len(path) : Sees(path)[i] \in Seq(Words)
           /\ ServerSees(path) \in Seq(Words)
<1> DEFINE g == Sees(path)
           T == {i \in Nat : i <= Len(path) => g[i] \in Seq(Words)}
<1>1. Len(path) \in Nat
  BY NameTypes
<1>2. /\ g[0] = <<>>
      /\ \A i \in 1 .. Len(path) : g[i] = SeesStep(path, i, g[i - 1])
  BY SeesIs
<1> HIDE DEF g
<1>3. 0 \in T
  <2>1. <<>> \in Seq(Words)
    OBVIOUS
  <2> QED
    BY <1>2, <2>1
<1>4. ASSUME NEW i \in Nat, i \in T PROVE i + 1 \in T
  <2> SUFFICES ASSUME i + 1 <= Len(path) PROVE g[i + 1] \in Seq(Words)
    OBVIOUS
  <2>1. g[i] \in Seq(Words) /\ i + 1 \in 1 .. Len(path) /\ (i + 1) - 1 = i
    BY <1>1, <1>4
  <2>2. g[i + 1] = SeesStep(path, i + 1, g[i])
    BY <1>2, <2>1
  <2> QED
    BY <2>1, <2>2, SeesStepType
<1> HIDE DEF T
<1>5. Nat \subseteq T
  BY <1>3, <1>4, NaturalInduction
<1>6. \A i \in 0 .. Len(path) : g[i] \in Seq(Words)
  BY <1>5 DEF T
<1> QED
  BY <1>1, <1>6, ServerSeesIs DEF g

\* What response() makes of a path is an answer; one that names a directory
\* or a file names what the server sees in the path.
LEMMA ServedIs ==
    ASSUME NEW path \in Paths
    PROVE  /\ Served(path) \in AnswerSet
           /\ Served(path).code = "directory" =>
                 Served(path).of \in DOMAIN fs
           /\ Served(path).code \in {"ok", "directory"} =>
                 /\ path # <<>>
                 /\ Served(path).of = ServerSees(path)
                 /\ ServerSees(path) \in DOMAIN fs
           /\ Served(path).code = "directory" => fs[ServerSees(path)].kind = "dir"
           /\ path # <<>> /\ ServerSees(path) \in DOMAIN fs =>
                 /\ fs[ServerSees(path)].kind = "dir" =>
                       Served(path).code = "directory"
                 /\ fs[ServerSees(path)].kind = "file" => Served(path).code = "ok"
<1> DEFINE names == ServerSees(path)
           s == Served(path)
<1>1. names \in Seq(Words) /\ <<>> \in Seq(Words)
  BY SeesType
<1> HIDE DEF names
<1>2. \/ path = <<>> /\ s = Answer("bad", <<>>)
      \/ path # <<>> /\ names \notin DOMAIN fs /\ s = Answer("missing", <<>>)
      \/ /\ path # <<>> /\ names \in DOMAIN fs
         /\ \/ fs[names].kind = "dir" /\ s = Answer("directory", names)
            \/ fs[names].kind = "file" /\ s = Answer("ok", names)
            \/ /\ fs[names].kind \notin {"dir", "file"}
               /\ s = Answer("unsupported", <<>>)
  <2>1. \/ fs[names].kind = "dir"
        \/ fs[names].kind = "file"
        \/ fs[names].kind \notin {"dir", "file"}
    OBVIOUS
  <2> QED
    BY <2>1 DEF Served, NotFound, names
<1> HIDE DEF s
<1>3. s \in AnswerSet
  <2>1. \A code \in Codes : \A of \in Seq(Words) : Answer(code, of) \in AnswerSet
    BY DEF Answer, AnswerSet
  <2>2. {"ok", "directory", "unsupported", "bad", "missing"} \subseteq Codes
    BY DEF Codes
  <2>3. \E code \in Codes : \E of \in Seq(Words) : s = Answer(code, of)
    BY <1>1, <1>2, <2>2
  <2> QED
    BY <2>1, <2>3
<1>4. /\ s.code = "directory" => s.of \in DOMAIN fs
      /\ s.code \in {"ok", "directory"} =>
            path # <<>> /\ s.of = names /\ names \in DOMAIN fs
      /\ s.code = "directory" => fs[names].kind = "dir"
  BY <1>2 DEF Answer
<1>5. /\ path # <<>> /\ names \in DOMAIN fs =>
            /\ fs[names].kind = "dir" => s.code = "directory"
            /\ fs[names].kind = "file" => s.code = "ok"
  BY <1>2 DEF Answer
<1> QED
  BY <1>3, <1>4, <1>5 DEF s, names

\* The least of a set of numbers is one of them.
LEMMA MinIs ==
    ASSUME NEW T, T \subseteq Nat, T # {}
    PROVE  Min(T) \in T
BY LeastNatural DEF Min

\* The descriptor that is given out next.
LEMMA FreeFdIs ==
    ASSUME FreeFds # {}, ServerType, NetType
    PROVE  /\ Min(FreeFds) \in DOMAIN fd
           /\ fd[Min(FreeFds)] = Free
<1>1. env.nfds \in Nat
  BY EnvironmentAssumption DEF NetType
<1>2. FreeFds \subseteq Nat
  BY <1>1 DEF FreeFds, ServerType
<1> QED
  BY <1>2, MinIs DEF FreeFds

\* What an environment consists of.
LEMMA EnvIs ==
    ASSUME NetType
    PROVE  /\ env.threads \in Nat /\ env.nfds \in Nat /\ env.nodes \in Nat
           /\ env.races \in BOOLEAN
           /\ Threads = 1 .. env.threads
BY EnvironmentAssumption DEF NetType, Threads

-----------------------------------------------------------------------------
(* Types                                                                    *)

\* A part of the types holds on while its variables do not change.
LEMMA TypesKept ==
    ASSUME Types
    PROVE  /\ UNCHANGED netVars => NetType'
           /\ UNCHANGED <<next, front, rear>> => QueueType'
           /\ UNCHANGED <<acc, env, next>> => AccType'
           /\ UNCHANGED <<wk, env, next>> => WkType'
           /\ UNCHANGED <<fd, requestBuff, request, env, asked>> => ServerType'
           /\ UNCHANGED <<client, saved, asked>> => ClientType'
<1>1. UNCHANGED netVars => NetType'
  BY DEF Types, NetType, netVars, Connections
<1>2. UNCHANGED <<next, front, rear>> => QueueType'
  BY DEF Types, QueueType, Nodes
<1>3. UNCHANGED <<acc, env, next>> => AccType'
  BY DEF Types, AccType, Nodes, Fds, Enqueuing
<1>4. UNCHANGED <<wk, env, next>> => WkType'
  BY DEF Types, WkType, Nodes, Fds, Threads
<1>5. UNCHANGED <<fd, requestBuff, request, env, asked>> => ServerType'
  BY DEF Types, ServerType, Fds, Connections
<1>6. UNCHANGED <<client, saved, asked>> => ClientType'
  BY DEF Types, ClientType, Connections
<1> QED
  BY <1>1, <1>2, <1>3, <1>4, <1>5, <1>6

\* main(), for one connection: accept() and read().
LEMMA AcceptTypes ==
    ASSUME Types, Accept, UNCHANGED clientVars
    PROVE  Types'
<1>1. UNCHANGED <<env, fs, asked, answers, shut, up, request, front, rear, next, wk>>
  BY DEF Accept
<1>2. /\ backlog' \in Seq(Connections)
      /\ fd' \in [1 .. env.nfds -> {Free, NoSocket} \cup Connections]
      /\ requestBuff' \in Paths
      /\ acc' \in [pc : AccPc, fd : Fds, node : Nodes, rear : Nodes]
      /\ acc'.pc = "fd"
  <2>1. CASE FreeFds = {}
    BY <2>1 DEF Accept, Types, NetType, ServerType, AccType, AccPc, Fds
  <2>2. CASE FreeFds # {}
    <3>1. Min(FreeFds) \in 1 .. env.nfds
      BY <2>2, FreeFdIs DEF Types, ServerType
    <3>2. backlog # <<>> /\ backlog \in Seq(Connections)
      BY <2>2 DEF Accept, Types, NetType
    <3>3. Head(backlog) \in Connections /\ Tail(backlog) \in Seq(Connections)
      BY <3>2
    <3>4. asked[Head(backlog)] \in Paths
      BY <3>3 DEF Types, NetType, Connections
    <3>5. /\ backlog' = Tail(backlog)
          /\ fd' = [fd EXCEPT ![Min(FreeFds)] = Head(backlog)]
          /\ requestBuff' = asked[Head(backlog)]
          /\ acc' = [acc EXCEPT !.pc = "fd", !.fd = Min(FreeFds)]
      BY <2>2 DEF Accept
    <3>6. acc' \in [pc : AccPc, fd : Fds, node : Nodes, rear : Nodes] /\ acc'.pc = "fd"
      BY <3>1, <3>5 DEF Types, AccType, AccPc, Fds
    <3>7. fd' \in [1 .. env.nfds -> {Free, NoSocket} \cup Connections]
      BY <3>3, <3>5 DEF Types, ServerType
    <3> QED
      BY <3>3, <3>4, <3>5, <3>6, <3>7
  <2> QED
    BY <2>1, <2>2
<1>3. NetType'
  BY <1>1, <1>2 DEF Types, NetType, Connections
<1>4. AccType'
  BY <1>1, <1>2 DEF AccType, Nodes, Fds, Enqueuing
<1>5. ServerType'
  BY <1>1, <1>2 DEF Types, ServerType, Connections, Fds
<1> QED
  BY <1>1, <1>3, <1>4, <1>5, TypesKept DEF Types, clientVars

\* main() writes the request.
LEMMA WriteTypes ==
    ASSUME Types, WriteFd \/ WriteQuery, UNCHANGED clientVars
    PROVE  Types'
<1>1. UNCHANGED <<netVars, fd, requestBuff, front, rear, next, wk>>
  BY DEF WriteFd, WriteQuery
<1>2. UNCHANGED <<env, asked>>
  BY <1>1 DEF netVars
<1>3. AccType'
  BY <1>1, <1>2 DEF Types, AccType, WriteFd, WriteQuery, AccPc, Fds, Nodes,
                    Enqueuing
<1>4. ServerType'
  BY <1>1, <1>2 DEF Types, ServerType, AccType, WriteFd, WriteQuery, Fds,
                    Connections
<1> QED
  BY <1>1, <1>2, <1>3, <1>4, TypesKept DEF Types, clientVars

\* enQueue() allocates its node.
LEMMA TestRearTypes ==
    ASSUME Types, TestRear, UNCHANGED clientVars
    PROVE  Types'
<1>1. UNCHANGED <<netVars, fd, requestBuff, request, front, rear, wk>>
  BY DEF TestRear
<1>2. UNCHANGED <<env, asked>>
  BY <1>1 DEF netVars
<1>3. /\ next \in Seq(Nat) /\ next' = Append(next, 0)
      /\ Len(next') = Len(next) + 1 /\ Len(next) \in Nat
  BY DEF Types, QueueType, TestRear
<1>4. Nodes \subseteq Nodes'
  BY <1>3 DEF Nodes
<1>5. QueueType'
  <2>1. /\ next' \in Seq(Nat)
        /\ \A n \in DOMAIN next' : next'[n] = IF n \in DOMAIN next THEN next[n]
                                                                  ELSE 0
    BY <1>3
  <2>2. \A n \in DOMAIN next' : next'[n] \in Nodes'
    BY <1>3, <1>4, <2>1 DEF Types, QueueType, Nodes
  <2> QED
    BY <1>1, <1>4, <2>1, <2>2 DEF Types, QueueType
<1>6. AccType'
  <2>1. Len(next) + 1 \in Nodes' /\ rear \in Nodes'
    BY <1>3, <1>4 DEF Types, QueueType, Nodes
  <2>2. /\ acc \in [pc : AccPc, fd : Fds, node : Nodes, rear : Nodes]
        /\ acc' = [acc EXCEPT !.pc = IF rear = 0 THEN "front" ELSE "link",
                              !.node = Len(next) + 1, !.rear = rear]
    BY DEF Types, AccType, TestRear
  <2>3. acc' \in [pc : AccPc, fd : Fds, node : Nodes', rear : Nodes']
    BY <2>1, <2>2 DEF AccPc
  <2>4. /\ acc'.node # 0
        /\ acc'.pc = "link" => acc'.rear # 0
    BY <1>3, <2>2
  <2>5. Fds' = Fds
    BY <1>2 DEF Fds
  <2> QED
    BY <2>3, <2>4, <2>5 DEF AccType
<1>7. WkType'
  <2>1. wk \in [Threads -> [pc : WorkPc, node : Nodes', next : Nodes',
                            fd : Fds, file : Fds]]
    BY <1>4 DEF Types, WkType
  <2>2. Fds' = Fds /\ Threads' = Threads
    BY <1>2 DEF Fds, Threads
  <2> QED
    BY <1>1, <2>1, <2>2 DEF Types, WkType
<1> QED
  BY <1>1, <1>2, <1>5, <1>6, <1>7, TypesKept DEF Types, clientVars

\* enQueue() links it.
LEMMA LinkTypes ==
    ASSUME Types, SetFront \/ LinkRear \/ SetRear, UNCHANGED clientVars
    PROVE  Types'
<1>1. UNCHANGED <<netVars, fd, requestBuff, request, wk>>
  BY DEF SetFront, LinkRear, SetRear
<1>2. UNCHANGED <<env, asked>>
  BY <1>1 DEF netVars
<1>3. QueueType' /\ Len(next') = Len(next)
  <2>1. acc.node \in Nodes /\ acc.rear \in Nodes
    BY DEF Types, AccType
  <2>2. CASE SetFront \/ SetRear
    BY <2>1, <2>2 DEF Types, QueueType, Nodes, SetFront, SetRear
  <2>3. CASE LinkRear
    <3>1. /\ next \in Seq(Nat) /\ acc.node \in Nat
          /\ acc.rear \in 1 .. Len(next)
          /\ next' = [next EXCEPT ![acc.rear] = acc.node]
      BY <2>1, <2>3 DEF Types, QueueType, AccType, Nodes, LinkRear
    <3>2. /\ next' \in Seq(Nat) /\ DOMAIN next' = DOMAIN next
          /\ Len(next') = Len(next)
          /\ \A n \in DOMAIN next : next'[n] \in {next[n], acc.node}
      BY <3>1, ExceptSeq
    <3> QED
      BY <2>1, <2>3, <3>2 DEF Types, QueueType, Nodes, LinkRear
  <2> QED
    BY <2>2, <2>3
<1>4. AccType'
  BY <1>2, <1>3 DEF Types, AccType, SetFront, LinkRear, SetRear, AccPc, Fds,
                    Nodes, Enqueuing
<1>5. WkType'
  BY <1>1, <1>2, <1>3 DEF Types, WkType, Fds, Nodes, Threads
<1> QED
  BY <1>1, <1>2, <1>3, <1>4, <1>5, TypesKept DEF Types, clientVars

\* A worker takes a node off the queue, or reads the descriptor.
LEMMA TakeTypes ==
    ASSUME Types, NEW t \in Threads,
           TakeFront(t) \/ ReadNext(t) \/ AdvanceFront(t) \/ ClearRear(t) \/ ReadFd(t),
           UNCHANGED clientVars
    PROVE  Types'
<1>1. UNCHANGED <<netVars, fd, requestBuff, request, next, acc>>
  BY DEF TakeFront, ReadNext, AdvanceFront, ClearRear, ReadFd
<1>2. UNCHANGED <<env, asked>>
  BY <1>1 DEF netVars
<1>3. wk[t] \in [pc : WorkPc, node : Nodes, next : Nodes, fd : Fds, file : Fds]
  BY DEF Types, WkType
<1>4. wk[t].pc = "next" => next[wk[t].node] \in Nodes
  BY <1>3 DEF Types, WkType, QueueType, Nodes
<1>5. QueueType'
  BY <1>1, <1>3 DEF Types, QueueType, Nodes, TakeFront, ReadNext,
                    AdvanceFront, ClearRear, ReadFd
<1>6. /\ wk'[t] \in [pc : WorkPc, node : Nodes, next : Nodes, fd : Fds, file : Fds]
      /\ wk'[t].pc = "next" => wk'[t].node # 0
      /\ \A s \in Threads : s # t => wk'[s] = wk[s]
      /\ wk' = [wk EXCEPT ![t] = wk'[t]]
  <2>1. wk = [s \in Threads |-> wk[s]]
    BY DEF Types, WkType
  <2>2. front \in Nodes /\ request.fd \in Fds
    BY DEF Types, QueueType, ServerType
  <2>3. CASE TakeFront(t)
    BY <1>3, <2>1, <2>2, <2>3 DEF TakeFront, WorkPc
  <2>4. CASE ReadNext(t)
    BY <1>3, <1>4, <2>1, <2>4 DEF ReadNext, WorkPc
  <2>5. CASE AdvanceFront(t)
    BY <1>3, <2>1, <2>5 DEF AdvanceFront, WorkPc
  <2>6. CASE ClearRear(t)
    BY <1>3, <2>1, <2>6 DEF ClearRear, WorkPc
  <2>7. CASE ReadFd(t)
    BY <1>3, <2>1, <2>2, <2>7 DEF ReadFd, WorkPc
  <2> QED
    BY <2>3, <2>4, <2>5, <2>6, <2>7
<1>7. WkType'
  <2>1. Threads' = Threads /\ Nodes' = Nodes /\ Fds' = Fds
    BY <1>1, <1>2 DEF Threads, Nodes, Fds
  <2>2. wk' \in [Threads -> [pc : WorkPc, node : Nodes, next : Nodes,
                             fd : Fds, file : Fds]]
    BY <1>6 DEF Types, WkType
  <2>3. \A s \in Threads : wk'[s].pc = "next" => wk'[s].node # 0
    BY <1>6 DEF Types, WkType
  <2> QED
    BY <2>1, <2>2, <2>3 DEF WkType
<1> QED
  BY <1>1, <1>2, <1>5, <1>7, TypesKept DEF Types, clientVars

\* An answer is written to the connection that is open at a descriptor.
LEMMA WriteAnswerTypes ==
    ASSUME Types, NEW i, NEW a \in AnswerSet, Write(i, a),
           a.code = "directory" => a.of \in DOMAIN fs,
           UNCHANGED <<env, fs, asked, backlog, shut, up>>
    PROVE  NetType'
<1>1. CASE UNCHANGED answers
  BY <1>1 DEF Types, NetType, Connections
<1>2. CASE /\ i \in DOMAIN fd /\ fd[i] \in Connections
           /\ answers' = [answers EXCEPT ![fd[i]] = Append(@, a)]
  <2> DEFINE c == fd[i]
  <2>1. /\ answers \in Seq(Seq(AnswerSet)) /\ Len(answers) = Len(asked)
        /\ asked \in Seq(Paths) /\ c \in 1 .. Len(answers)
    BY <1>2 DEF Types, NetType, Connections
  <2> HIDE DEF c
  <2>2. answers[c] \in Seq(AnswerSet)
    BY <2>1
  <2>3. /\ Append(answers[c], a) \in Seq(AnswerSet)
        /\ \A k \in DOMAIN Append(answers[c], a) :
              Append(answers[c], a)[k] \in {answers[c][j] : j \in DOMAIN answers[c]} \cup {a}
    BY <2>2
  <2>4. answers' = [answers EXCEPT ![c] = Append(answers[c], a)]
    BY <1>2 DEF c
  <2>5. /\ answers' \in Seq(Seq(AnswerSet))
        /\ Len(answers') = Len(answers)
        /\ \A d \in 1 .. Len(answers) :
              answers'[d] = IF d = c THEN Append(answers[c], a) ELSE answers[d]
    BY <2>1, <2>3, <2>4, ExceptSeq
  <2>6. \A d \in Connections : \A k \in DOMAIN answers'[d] :
           answers'[d][k].code = "directory" => answers'[d][k].of \in DOMAIN fs
    <3> SUFFICES ASSUME NEW d \in Connections, NEW k \in DOMAIN answers'[d],
                        answers'[d][k].code = "directory"
                 PROVE  answers'[d][k].of \in DOMAIN fs
      OBVIOUS
    <3>1. \A e \in Connections : \A j \in DOMAIN answers[e] :
             answers[e][j].code = "directory" => answers[e][j].of \in DOMAIN fs
      BY DEF Types, NetType
    <3>2. Connections = 1 .. Len(answers)
      BY <2>1 DEF Connections
    <3>3. CASE d # c
      BY <2>5, <3>1, <3>2, <3>3
    <3>4. CASE d = c
      <4>1. answers'[d][k] \in {answers[c][j] : j \in DOMAIN answers[c]} \cup {a}
        BY <2>3, <2>5, <3>2, <3>4
      <4> QED
        BY <3>1, <3>4, <4>1
    <3> QED
      BY <3>3, <3>4
  <2> QED
    BY <2>1, <2>5, <2>6 DEF Types, NetType, Connections
<1> QED
  BY <1>1, <1>2 DEF Write

\* A worker that goes on to close what it has open.
LEMMA RespondedWk ==
    ASSUME Types, NEW t \in Threads, NEW file \in Fds,
           wk' = [wk EXCEPT ![t].pc = "close", ![t].file = file],
           UNCHANGED <<env, next>>
    PROVE  WkType'
<1>1. Threads' = Threads /\ Nodes' = Nodes /\ Fds' = Fds
  BY DEF Threads, Nodes, Fds
<1>2. wk' \in [Threads -> [pc : WorkPc, node : Nodes, next : Nodes,
                           fd : Fds, file : Fds]]
  BY DEF Types, WkType, WorkPc
<1>3. \A s \in Threads : wk'[s].pc = "next" => wk'[s].node # 0
  BY DEF Types, WkType
<1> QED
  BY <1>1, <1>2, <1>3 DEF WkType

\* A worker answers.
LEMMA RespondTypes ==
    ASSUME Types, NEW t \in Threads,
           RespondNone(t) \/ RespondOpen(t) \/ RespondNoFd(t) \/ RespondCrash(t),
           UNCHANGED clientVars
    PROVE  Types'
<1>1. CASE RespondCrash(t)
  <2>1. UNCHANGED <<serverVars, env, fs, asked, answers, backlog, shut>>
        /\ up' = "crashed"
    BY <1>1 DEF RespondCrash, Crash
  <2>2. NetType'
    BY <2>1 DEF Types, NetType, Connections
  <2> QED
    BY <2>1, <2>2, TypesKept DEF Types, clientVars, serverVars
<1>2. CASE RespondNone(t) \/ RespondOpen(t) \/ RespondNoFd(t)
  <2>1. UNCHANGED <<env, fs, asked, backlog, shut, up, requestBuff, request,
                    front, rear, next, acc>>
    BY <1>2 DEF RespondNone, RespondOpen, RespondNoFd
  <2>2. \E a \in AnswerSet : /\ Write(wk[t].fd, a)
                             /\ a.code = "directory" => a.of \in DOMAIN fs
    <3>1. request.path \in Paths
      BY DEF Types, ServerType
    <3>2. NotFound \in AnswerSet /\ NotFound.code # "directory"
      BY DEF NotFound, Answer, AnswerSet, Codes
    <3> QED
      BY <1>2, <3>1, <3>2, ServedIs DEF RespondNone, RespondOpen, RespondNoFd
  <2>3. NetType'
    BY <2>1, <2>2, WriteAnswerTypes
  <2>4. WkType' /\ ServerType'
    <3>1. CASE RespondNone(t) \/ RespondNoFd(t)
      <4>1. NoFd \in Fds /\ UNCHANGED fd
        BY <3>1 DEF Fds, RespondNone, RespondNoFd
      <4>2. wk' = [wk EXCEPT ![t].pc = "close", ![t].file = NoFd]
        BY <3>1 DEF RespondNone, RespondNoFd
      <4> QED
        BY <2>1, <4>1, <4>2, RespondedWk, TypesKept
    <3>2. CASE RespondOpen(t)
      <4> DEFINE i == Min(FreeFds)
                 file == IF Kind = "file" THEN i ELSE NoFd
      <4>1. FreeFds # {} /\ fd' = [fd EXCEPT ![i] = NoSocket]
            /\ wk' = [wk EXCEPT ![t].pc = "close", ![t].file = file]
        BY <3>2 DEF RespondOpen
      <4>2. i \in 1 .. env.nfds
        BY <4>1, FreeFdIs DEF Types, ServerType
      <4>3. file \in Fds
        BY <4>2 DEF Fds
      <4> HIDE DEF i, file
      <4>4. WkType'
        BY <2>1, <4>1, <4>3, RespondedWk
      <4>5. ServerType'
        BY <2>1, <4>1, <4>2 DEF Types, ServerType, Fds, Connections
      <4> QED
        BY <4>4, <4>5
    <3> QED
      BY <1>2, <3>1, <3>2
  <2> QED
    BY <2>1, <2>3, <2>4, TypesKept DEF Types, clientVars
<1> QED
  BY <1>1, <1>2

\* A worker closes its descriptors.
LEMMA CloseTypes ==
    ASSUME Types, NEW t \in Threads, Close(t), UNCHANGED clientVars
    PROVE  Types'
<1> DEFINE closed == {wk[t].fd, wk[t].file} \cap DOMAIN fd
<1>1. /\ UNCHANGED <<requestBuff, request, front, rear, next, acc, env, fs,
                     asked, answers, backlog, up>>
      /\ fd' = [i \in DOMAIN fd |-> IF i \in closed THEN Free ELSE fd[i]]
      /\ shut' = shut \cup ({fd[i] : i \in closed} \ {Free, NoSocket})
      /\ wk' = [wk EXCEPT ![t] = [pc |-> "test", node |-> 0, next |-> 0,
                                  fd |-> NoFd, file |-> NoFd]]
  BY DEF Close
<1>2. shut' \subseteq Connections
  BY <1>1 DEF Types, NetType, ServerType
<1>3. NetType'
  BY <1>1, <1>2 DEF Types, NetType, Connections
<1>4. ServerType'
  BY <1>1 DEF Types, ServerType, Fds, Connections
<1>5. WkType'
  <2>1. Threads' = Threads /\ Nodes' = Nodes /\ Fds' = Fds
    BY <1>1 DEF Threads, Nodes, Fds
  <2>2. 0 \in Nodes /\ NoFd \in Fds
    BY DEF Types, QueueType, Nodes, Fds
  <2>3. wk' \in [Threads -> [pc : WorkPc, node : Nodes, next : Nodes,
                             fd : Fds, file : Fds]]
    BY <1>1, <2>2 DEF Types, WkType, WorkPc
  <2>4. \A s \in Threads : wk'[s].pc = "next" => wk'[s].node # 0
    BY <1>1 DEF Types, WkType
  <2> QED
    BY <2>1, <2>3, <2>4 DEF WkType
<1> QED
  BY <1>1, <1>3, <1>4, <1>5, TypesKept DEF Types, clientVars

ClientSet == [state : ClientStates, query : Paths, newquery : Paths,
              stack : Seq(Paths), wait : Nat]

\* A request that is sent.
LEMMA ConnectTypes ==
    ASSUME Types, NEW path \in Paths, Connect(path),
           UNCHANGED <<serverVars, env, fs, shut, up>>
    PROVE  /\ NetType' /\ ServerType'
           /\ QueueType' /\ AccType' /\ WkType'
           /\ Len(asked) + 1 \in Connections'
           /\ Connections \subseteq Connections'
           /\ Len(asked) \in Nat
           /\ Connections = 1 .. Len(asked)
           /\ Len(asked') = Len(asked) + 1
           /\ asked'[Len(asked) + 1] = path
           /\ \A c \in Connections : asked'[c] = asked[c] /\ answers'[c] = answers[c]
           /\ answers'[Len(asked) + 1] = <<>>
<1>1. /\ asked \in Seq(Paths) /\ answers \in Seq(Seq(AnswerSet))
      /\ Len(answers) = Len(asked) /\ Len(asked) \in Nat
      /\ Connections = 1 .. Len(asked)
  BY DEF Types, NetType, Connections
<1>2. /\ asked' \in Seq(Paths) /\ Len(asked') = Len(asked) + 1
      /\ Connections' = 1 .. Len(asked) + 1
      /\ asked'[Len(asked) + 1] = path
      /\ \A c \in Connections : asked'[c] = asked[c]
  BY <1>1 DEF Connect, Connections
<1>3. /\ answers' \in Seq(Seq(AnswerSet)) /\ Len(answers') = Len(asked')
      /\ \A c \in Connections : answers'[c] = answers[c]
      /\ answers'[Len(asked) + 1] = <<>>
  <2>1. <<>> \in Seq(AnswerSet)
    OBVIOUS
  <2> QED
    BY <1>1, <1>2, <2>1 DEF Connect
<1>4. backlog' \in Seq(Connections')
  <2>1. backlog \in Seq(Connections')
    BY <1>1, <1>2, SeqMonotonic DEF Types, NetType
  <2>2. Len(asked) + 1 \in Connections'
    BY <1>1, <1>2
  <2> QED
    BY <2>1, <2>2 DEF Connect
<1>5. \A c \in Connections' : \A i \in DOMAIN answers'[c] :
         answers'[c][i].code = "directory" => answers'[c][i].of \in DOMAIN fs
  <2> SUFFICES ASSUME NEW c \in Connections', NEW i \in DOMAIN answers'[c],
                      answers'[c][i].code = "directory"
               PROVE  answers'[c][i].of \in DOMAIN fs
    OBVIOUS
  <2>1. CASE c \in Connections
    BY <1>3, <2>1 DEF Types, NetType
  <2>2. CASE c = Len(asked) + 1
    BY <1>3, <2>2
  <2> QED
    BY <1>1, <1>2, <2>1, <2>2
<1>6. NetType'
  BY <1>1, <1>2, <1>3, <1>4, <1>5 DEF Types, NetType
<1>7. ServerType'
  BY <1>1, <1>2 DEF Types, ServerType, Fds, serverVars
<1>8. QueueType' /\ AccType' /\ WkType'
  BY TypesKept DEF serverVars
<1>9. Len(asked) + 1 \in Connections' /\ Connections \subseteq Connections'
  BY <1>1, <1>2
<1> QED
  BY <1>1, <1>2, <1>3, <1>6, <1>7, <1>8, <1>9

\* A step of one client.
LEMMA ClientTypes ==
    ASSUME Types, NEW u \in Users, NEW r \in ClientSet,
           client' = [client EXCEPT ![u] = r],
           Connections \subseteq Connections',
           r.wait \in {0} \cup Connections',
           r.state = "waiting" => r.wait # 0,
           r.state = "walking" => r.stack # <<>>,
           saved' \subseteq [at : Paths, content : Seq(Words)]
    PROVE  ClientType'
<1>1. client \in [Users -> ClientSet]
  BY DEF Types, ClientType, ClientSet
<1>2. client' \in [Users -> ClientSet]
  BY <1>1
<1>3. \A v \in Users :
         /\ client'[v].wait \in {0} \cup Connections'
         /\ client'[v].state = "waiting" => client'[v].wait # 0
         /\ client'[v].state = "walking" => client'[v].stack # <<>>
  <2> SUFFICES ASSUME NEW v \in Users
               PROVE  /\ client'[v].wait \in {0} \cup Connections'
                      /\ client'[v].state = "waiting" => client'[v].wait # 0
                      /\ client'[v].state = "walking" => client'[v].stack # <<>>
    OBVIOUS
  <2>1. CASE v = u
    BY <1>1, <2>1
  <2>2. CASE v # u
    BY <1>1, <2>2 DEF Types, ClientType
  <2> QED
    BY <2>1, <2>2
<1> QED
  BY <1>2, <1>3 DEF ClientType, ClientSet

\* The entries of a listing as the client asks for them.
LEMMA TokensType ==
    ASSUME NEW list \in Seq(Words)
    PROVE  /\ Tokens(list) \in Paths /\ Tokens(list) # <<>>
           /\ list # <<>> => Len(Tokens(list)) = Len(list)
           /\ list # <<>> => \A i \in 1 .. Len(list) :
                 Tokens(list)[i] = [name |-> list[i], nl |-> i = Len(list)]
<1>1. CASE list = <<>>
  <2>1. "" \in Words
    BY WordAssumption
  <2> DEFINE e == [name |-> "", nl |-> TRUE]
  <2>2. Tokens(list) = <<e>>
    BY <1>1 DEF Tokens
  <2>3. e \in Names
    BY <2>1 DEF Names
  <2> HIDE DEF e
  <2>4. <<e>> \in Seq(Names) /\ <<e>> # <<>>
    BY <2>3
  <2> QED
    BY <1>1, <2>2, <2>4 DEF Paths
<1>2. CASE list # <<>>
  <2> DEFINE n == Len(list)
             s == Tokens(list)
  <2>1. n \in Nat /\ n # 0 /\ DOMAIN list = 1 .. n /\ \A i \in 1 .. n : list[i] \in Words
    BY <1>2
  <2>2. s = [i \in 1 .. n |-> [name |-> list[i], nl |-> i = n]]
    BY <1>2, <2>1 DEF Tokens
  <2>3. \A i \in 1 .. n : [name |-> list[i], nl |-> i = n] \in Names
    BY <2>1 DEF Names
  <2> HIDE DEF s, n
  <2>4. s \in [1 .. n -> Names]
    BY <2>2, <2>3
  <2>5. s \in Seq(Names) /\ Len(s) = n
    BY <2>1, <2>4
  <2> QED
    BY <1>2, <2>1, <2>2, <2>5 DEF Paths, s, n
<1> QED
  BY <1>1, <1>2

\* The entries a client has left to ask for, and the path of the next.
LEMMA FrameTypes ==
    ASSUME Types, NEW u \in Users, client[u].state = "walking"
    PROVE  /\ client[u] \in ClientSet
           /\ client[u].stack \in Seq(Paths) /\ client[u].stack # <<>>
           /\ Head(client[u].stack) \in Paths
           /\ Tail(client[u].stack) \in Seq(Paths)
           /\ Head(client[u].stack) # <<>> =>
                 /\ NewQuery(u) \in Paths
                 /\ NextFrame(u) \in ClientSet
                 /\ NextFrame(u).stack # <<>>
                 /\ NextFrame(u).state = "walking"
                 /\ NextFrame(u).wait = client[u].wait
                 /\ NextFrame(u).query = client[u].query
                 /\ NextFrame(u).newquery = NewQuery(u)
<1> DEFINE c == client[u]
<1>1. c \in ClientSet /\ c.stack \in Seq(Paths) /\ c.stack # <<>>
  BY DEF Types, ClientType, ClientSet
<1>2. Head(c.stack) \in Paths /\ Tail(c.stack) \in Seq(Paths)
  BY <1>1
<1>3. ASSUME Head(c.stack) # <<>>
      PROVE  /\ NewQuery(u) \in Paths
             /\ NextFrame(u) \in ClientSet
             /\ NextFrame(u).stack # <<>>
             /\ NextFrame(u).state = "walking"
             /\ NextFrame(u).wait = c.wait
             /\ NextFrame(u).query = c.query
             /\ NextFrame(u).newquery = NewQuery(u)
  <2>1. FrameQuery(u) \in Paths
    BY <1>1 DEF FrameQuery, ClientSet
  <2>2. Head(Head(c.stack)) \in Names /\ Tail(Head(c.stack)) \in Paths
    BY <1>2, <1>3 DEF Paths
  <2>3. NewQuery(u) \in Paths
    BY <2>1, <2>2 DEF NewQuery, Paths
  <2> DEFINE top == Tail(Head(c.stack))
             rest == Tail(c.stack)
  <2>4. <<top>> \o rest \in Seq(Paths) /\ <<top>> \o rest # <<>>
    <3>1. top \in Paths /\ rest \in Seq(Paths)
      BY <1>2, <2>2
    <3> HIDE DEF top, rest
    <3>2. <<top>> \in Seq(Paths) /\ Len(<<top>>) = 1
      BY <3>1
    <3>3. /\ <<top>> \o rest \in Seq(Paths)
          /\ Len(<<top>> \o rest) = 1 + Len(rest) /\ Len(rest) \in Nat
      BY <3>1, <3>2, ConcatProperties
    <3> QED
      BY <3>3
  <2>5. NextFrame(u) = [c EXCEPT !.newquery = NewQuery(u),
                                 !.stack = <<top>> \o rest]
    BY DEF NextFrame
  <2> HIDE DEF top, rest
  <2> QED
    BY <1>1, <2>3, <2>4, <2>5 DEF ClientSet
<1> QED
  BY <1>1, <1>2, <1>3

\* The client's record behind its first request, and behind another.
Started(c, path, wait) ==
    [c EXCEPT !.state = "waiting", !.query = path, !.wait = wait]
Asking(c, wait) == [c EXCEPT !.state = "waiting", !.wait = wait]

\* A client that has sent its first request.
LEMMA StartedIs ==
    ASSUME NEW c \in ClientSet, NEW path \in Paths, NEW wait \in Nat
    PROVE  LET r == Started(c, path, wait)
           IN  /\ r \in ClientSet /\ r.wait = wait /\ r.state = "waiting"
               /\ r.query = path /\ r.newquery = c.newquery
               /\ r.stack = c.stack
BY DEF ClientSet, ClientStates, Started

\* A client that has sent one for an entry.
LEMMA AskingIs ==
    ASSUME NEW c \in ClientSet, NEW wait \in Nat
    PROVE  LET r == Asking(c, wait)
           IN  /\ r \in ClientSet /\ r.wait = wait /\ r.state = "waiting"
               /\ r.query = c.query /\ r.newquery = c.newquery
               /\ r.stack = c.stack
BY DEF ClientSet, ClientStates, Asking

\* A client that starts, or goes on with the next entry.
LEMMA AskTypes ==
    ASSUME Types, NEW u \in Users, UNCHANGED serverVars,
           \/ \E path \in Queries : Start(u, path)
           \/ AskEntry(u)
    PROVE  Types'
<1>1. CASE \E path \in Queries : Start(u, path)
  <2> PICK path \in Queries : Start(u, path)
    BY <1>1
  <2> DEFINE r == Started(client[u], path, Len(asked) + 1)
  <2>1. path \in Paths
    BY QueryAssumption
  <2>2. /\ NetType' /\ ServerType' /\ QueueType' /\ AccType' /\ WkType'
        /\ Len(asked) + 1 \in Connections' /\ Connections \subseteq Connections'
        /\ Len(asked) \in Nat
    BY <2>1, ConnectTypes DEF Start
  <2>3. r \in ClientSet /\ r.wait = Len(asked) + 1 /\ r.state = "waiting"
    <3>1. client[u] \in ClientSet /\ Len(asked) + 1 \in Nat
      BY <2>2 DEF Types, ClientType, ClientSet
    <3> QED
      BY <2>1, <3>1, StartedIs
  <2>4. client' = [client EXCEPT ![u] = r] /\ UNCHANGED saved
    BY DEF Start, Started, Types, ClientType
  <2> HIDE DEF r
  <2>5. ClientType'
    <3>1. saved' \subseteq [at : Paths, content : Seq(Words)]
      BY <2>4 DEF Types, ClientType
    <3>2. r.wait \in {0} \cup Connections' /\ r.wait # 0 /\ r.state # "walking"
      BY <2>2, <2>3
    <3> QED
      BY <2>2, <2>3, <2>4, <3>1, <3>2, ClientTypes
  <2> QED
    BY <2>2, <2>5 DEF Types
<1>2. CASE AskEntry(u)
  <2> DEFINE r == Asking(NextFrame(u), Len(asked) + 1)
  <2>1. client[u].state = "walking" /\ Head(client[u].stack) # <<>>
    BY <1>2 DEF AskEntry, AtEntry
  <2>2. NewQuery(u) \in Paths /\ NextFrame(u) \in ClientSet
    BY <2>1, FrameTypes
  <2>3. /\ NetType' /\ ServerType' /\ QueueType' /\ AccType' /\ WkType'
        /\ Len(asked) + 1 \in Connections' /\ Connections \subseteq Connections'
        /\ Len(asked) \in Nat
    BY <1>2, <2>2, ConnectTypes DEF AskEntry
  <2>4. r \in ClientSet /\ r.wait = Len(asked) + 1 /\ r.state = "waiting"
    <3>1. Len(asked) + 1 \in Nat
      BY <2>3
    <3> QED
      BY <2>2, <3>1, AskingIs
  <2>5. client' = [client EXCEPT ![u] = r] /\ UNCHANGED saved
    BY <1>2 DEF AskEntry, Asking
  <2> HIDE DEF r
  <2>6. ClientType'
    <3>1. saved' \subseteq [at : Paths, content : Seq(Words)]
      BY <2>5 DEF Types, ClientType
    <3>2. r.wait \in {0} \cup Connections' /\ r.wait # 0 /\ r.state # "walking"
      BY <2>3, <2>4
    <3> QED
      BY <2>3, <2>4, <2>5, <3>1, <3>2, ClientTypes
  <2> QED
    BY <2>3, <2>6 DEF Types
<1> QED
  BY <1>1, <1>2

\* A client that waits was given a connection.
LEMMA WaitingIs ==
    ASSUME Types, NEW u \in Users, Waiting(u)
    PROVE  /\ client[u] \in ClientSet
           /\ client[u].wait \in Connections
           /\ answers[client[u].wait] \in Seq(AnswerSet)
           /\ \A a \in Responses(u) :
                 /\ a \in AnswerSet
                 /\ a.code = "directory" => a.of \in DOMAIN fs
<1>1. client[u] \in ClientSet /\ client[u].wait \in Connections
  BY DEF Types, ClientType, ClientSet, Waiting
<1>2. answers[client[u].wait] \in Seq(AnswerSet)
  BY <1>1 DEF Types, NetType, Connections
<1>3. \A a \in Responses(u) :
         /\ a \in AnswerSet
         /\ a.code = "directory" => a.of \in DOMAIN fs
  BY <1>1, <1>2 DEF Types, NetType, Responses
<1> QED
  BY <1>1, <1>2, <1>3

\* A step of a client alone.
LEMMA AloneTypes ==
    ASSUME Types, NEW u \in Users, NEW r \in ClientSet,
           UNCHANGED <<serverVars, netVars>>,
           client' = [client EXCEPT ![u] = r],
           r.wait = client[u].wait,
           r.state # "waiting",
           r.state = "walking" => r.stack # <<>>,
           saved' \subseteq [at : Paths, content : Seq(Words)]
    PROVE  Types'
<1>1. UNCHANGED <<env, asked>> /\ Connections' = Connections
  BY DEF netVars, Connections
<1>2. NetType' /\ ServerType' /\ QueueType' /\ AccType' /\ WkType'
  BY <1>1, TypesKept DEF serverVars
<1>3. r.wait \in {0} \cup Connections'
  BY <1>1 DEF Types, ClientType
<1>4. ClientType'
  BY <1>1, <1>3, ClientTypes
<1> QED
  BY <1>2, <1>4 DEF Types

\* A call that ends leaves the rest of its client as it was.
LEMMA ReturnIs ==
    ASSUME Types, NEW u \in Users
    PROVE  /\ Return(u) \in ClientSet
           /\ Return(u).wait = client[u].wait
           /\ Return(u).state \in {"done", "walking"}
           /\ Return(u).state = "walking" <=> client[u].stack # <<>>
           /\ Return(u).stack = client[u].stack
           /\ Return(u).query = client[u].query
           /\ Return(u).newquery = client[u].newquery
<1>1. client[u] \in ClientSet
  BY DEF Types, ClientType, ClientSet
<1> QED
  BY <1>1 DEF Return, ClientSet, ClientStates

\* A client that crashes.
LEMMA CrashedTypes ==
    ASSUME Types, NEW u \in Users, Crashed(u),
           UNCHANGED <<serverVars, netVars, saved>>
    PROVE  Types'
<1> DEFINE r == [client[u] EXCEPT !.state = "crashed"]
<1>1. r \in ClientSet /\ r.wait = client[u].wait /\ r.state = "crashed"
  BY DEF Types, ClientType, ClientSet, ClientStates
<1>2. client' = [client EXCEPT ![u] = r]
  BY DEF Crashed
<1>3. saved' \subseteq [at : Paths, content : Seq(Words)]
  BY DEF Types, ClientType
<1> HIDE DEF r
<1> QED
  BY <1>1, <1>2, <1>3, AloneTypes

\* A client reads its response.
LEMMA ReceiveTypes ==
    ASSUME Types, NEW u \in Users, UNCHANGED serverVars,
           \/ ReceiveError(u) \/ ReceiveDirectory(u) \/ ReceiveFile(u)
           \/ ReceiveNoRoom(u) \/ ReceiveNothing(u)
    PROVE  Types'
<1> DEFINE SavedSet == [at : Paths, content : Seq(Words)]
<1>1. saved \subseteq SavedSet
  BY DEF Types, ClientType
<1> HIDE DEF SavedSet
<1>2. Waiting(u) /\ UNCHANGED netVars
  BY DEF ReceiveError, ReceiveDirectory, ReceiveFile, ReceiveNoRoom,
         ReceiveNothing
<1>3. /\ client[u] \in ClientSet
      /\ \A a \in Responses(u) :
            /\ a \in AnswerSet
            /\ a.code = "directory" => a.of \in DOMAIN fs
  BY <1>2, WaitingIs
<1>4. CASE client' = [client EXCEPT ![u] = Return(u)] /\ saved' \subseteq SavedSet
  BY <1>2, <1>4, ReturnIs, AloneTypes DEF SavedSet
<1>5. CASE Crashed(u) /\ UNCHANGED saved
  BY <1>2, <1>5, CrashedTypes
<1>6. CASE ReceiveDirectory(u)
  <2> PICK a \in Responses(u) :
           /\ a.code = "directory"
           /\ client' = [client EXCEPT ![u].state = "walking",
                           ![u].stack = <<Tokens(fs[a.of].list)>> \o @]
    BY <1>6 DEF ReceiveDirectory
  <2> DEFINE entries == Tokens(fs[a.of].list)
             r == [client[u] EXCEPT !.state = "walking",
                                    !.stack = <<entries>> \o @]
  <2>1. fs[a.of].list \in Seq(Words)
    BY <1>3, FileAssumption DEF Types, NetType
  <2>2. entries \in Paths
    BY <2>1, TokensType
  <2> HIDE DEF entries
  <2>3. client[u].stack \in Seq(Paths)
    BY <1>3 DEF ClientSet
  <2>4. <<entries>> \o client[u].stack \in Seq(Paths)
        /\ <<entries>> \o client[u].stack # <<>>
    <3>1. <<entries>> \in Seq(Paths) /\ Len(<<entries>>) = 1
      BY <2>2
    <3>2. Len(<<entries>> \o client[u].stack) = 1 + Len(client[u].stack)
      BY <2>3, <3>1, ConcatProperties
    <3>3. Len(client[u].stack) \in Nat
      BY <2>3
    <3> QED
      BY <2>3, <3>1, <3>2, <3>3, ConcatProperties
  <2>5. /\ r \in ClientSet /\ r.state = "walking" /\ r.stack # <<>>
        /\ r.wait = client[u].wait
    BY <1>3, <2>4 DEF ClientSet, ClientStates
  <2>6. client' = [client EXCEPT ![u] = r] /\ UNCHANGED saved
    BY <1>6 DEF ReceiveDirectory, entries, Types, ClientType
  <2> HIDE DEF r
  <2> QED
    BY <1>1, <1>2, <2>5, <2>6, AloneTypes DEF SavedSet
<1>7. CASE ReceiveFile(u)
  <2>1. PICK a \in Responses(u) :
           saved' = {s \in saved : s.at # OldQuery(u)}
                      \cup {[at |-> OldQuery(u), content |-> a.of]}
    BY <1>7 DEF ReceiveFile
  <2>2. OldQuery(u) \in Paths /\ a.of \in Seq(Words)
    BY <1>3 DEF OldQuery, ClientSet, AnswerSet
  <2>3. [at |-> OldQuery(u), content |-> a.of] \in SavedSet
    BY <2>2 DEF SavedSet
  <2>4. saved' \subseteq SavedSet
    BY <1>1, <2>1, <2>3
  <2> QED
    BY <1>4, <1>7, <2>4 DEF ReceiveFile
<1>8. CASE ReceiveError(u) \/ ReceiveNothing(u) \/ ReceiveNoRoom(u)
  BY <1>1, <1>4, <1>5, <1>8 DEF ReceiveError, ReceiveNothing, ReceiveNoRoom
<1> QED
  BY <1>6, <1>7, <1>8

\* A client goes on in a listing without a request.
LEMMA WalkTypes ==
    ASSUME Types, NEW u \in Users, UNCHANGED serverVars,
           SkipEntry(u) \/ Overflow(u) \/ EndFrame(u)
    PROVE  Types'
<1>1. /\ UNCHANGED <<netVars, saved>> /\ client[u].state = "walking"
      /\ saved' \subseteq [at : Paths, content : Seq(Words)]
  BY DEF SkipEntry, Overflow, EndFrame, AtEntry, Types, ClientType
<1>2. CASE SkipEntry(u)
  BY <1>1, <1>2, FrameTypes, AloneTypes DEF SkipEntry, AtEntry
<1>3. CASE Overflow(u)
  BY <1>1, <1>3, CrashedTypes DEF Overflow
<1>4. CASE EndFrame(u)
  <2> DEFINE state == IF Len(client[u].stack) = 1 THEN "done" ELSE "walking"
             r == [client[u] EXCEPT !.stack = Tail(@), !.state = state]
  <2>1. /\ client[u] \in ClientSet
        /\ client[u].stack \in Seq(Paths) /\ client[u].stack # <<>>
        /\ Tail(client[u].stack) \in Seq(Paths)
    BY <1>1, FrameTypes
  <2>2. state = "walking" => Tail(client[u].stack) # <<>>
    <3>1. state = "walking" => Len(client[u].stack) # 1
      OBVIOUS
    <3>2. /\ Len(client[u].stack) \in Nat /\ Len(client[u].stack) # 0
          /\ Len(Tail(client[u].stack)) = Len(client[u].stack) - 1
      BY <2>1, HeadTailProperties
    <3>3. state = "walking" => Len(Tail(client[u].stack)) # 0
      BY <3>1, <3>2
    <3> HIDE DEF state
    <3>4. Len(<<>>) = 0
      OBVIOUS
    <3> QED
      BY <3>3, <3>4
  <2>3. client' = [client EXCEPT ![u] = r]
    BY <1>4 DEF EndFrame, Types, ClientType
  <2>4. state \in {"done", "walking"}
    OBVIOUS
  <2> HIDE DEF state
  <2>5. /\ r \in ClientSet /\ r.wait = client[u].wait /\ r.state = state
        /\ r.stack = Tail(client[u].stack)
    BY <2>1, <2>4 DEF ClientSet, ClientStates
  <2> HIDE DEF r
  <2> QED
    BY <1>1, <2>2, <2>3, <2>4, <2>5, AloneTypes
<1> QED
  BY <1>2, <1>3, <1>4

\* Every step keeps the types.
LEMMA TypesStep == Types /\ [Next]_vars => Types'
<1> SUFFICES ASSUME Types, [Next]_vars PROVE Types'
  OBVIOUS
<1>1. CASE UNCHANGED vars
  <2>1. UNCHANGED <<netVars, next, front, rear, acc, wk, fd, requestBuff,
                    request, client, saved>>
    BY <1>1 DEF vars, serverVars, clientVars
  <2> QED
    BY <2>1, TypesKept DEF Types, netVars
<1>2. CASE ServerStep /\ UNCHANGED clientVars
  <2>1. CASE AcceptorStep
    BY <1>2, <2>1, AcceptTypes, WriteTypes, TestRearTypes, LinkTypes
       DEF AcceptorStep
  <2>2. CASE \E t \in Threads : WorkerStep(t)
    BY <1>2, <2>2, TakeTypes, RespondTypes, CloseTypes DEF WorkerStep
  <2>3. CASE Interrupt
    <3>1. UNCHANGED <<serverVars, env, fs, asked, answers, backlog, shut>>
          /\ up' = "exited"
      BY <2>3 DEF Interrupt
    <3>2. NetType'
      BY <3>1 DEF Types, NetType, Connections
    <3> QED
      BY <1>2, <3>1, <3>2, TypesKept DEF Types, clientVars, serverVars
  <2> QED
    BY <1>2, <2>1, <2>2, <2>3 DEF ServerStep
<1>3. CASE /\ \E u \in Users : \/ \E path \in Queries : Start(u, path)
                               \/ ClientStep(u)
           /\ UNCHANGED serverVars
  BY <1>3, AskTypes, ReceiveTypes, WalkTypes DEF ClientStep
<1> QED
  BY <1>1, <1>2, <1>3 DEF Next

\* The first states have these types.
LEMMA TypesInit == Init => Types
<1> SUFFICES ASSUME Init PROVE Types
  OBVIOUS
<1> USE DEF Init, NetInit, ServerInit, ClientInit
<1>1. NetType
  BY DEF NetType, Connections
<1>2. QueueType /\ AccType
  BY DEF QueueType, AccType, Nodes, AccPc, Fds, Enqueuing
<1>3. WkType
  BY DEF WkType, WorkPc, Nodes, Fds
<1>4. <<>> \in Paths /\ <<>> \in Seq(Paths)
  BY DEF Paths
<1>5. ServerType
  BY <1>4 DEF ServerType, Fds
<1>6. ClientType
  BY <1>4 DEF ClientType, ClientStates
<1> QED
  BY <1>1, <1>2, <1>3, <1>5, <1>6 DEF Types

\* The variables of server and clients keep their types: descriptors, nodes of
\* the queue and connections that are written down anywhere exist.
THEOREM TypeCorrect == Spec => []TypeOK
<1>1. Spec => []Types
  BY TypesInit, TypesStep, PTL DEF Spec
<1>2. Types => TypeOK
  <2> SUFFICES ASSUME Types PROVE TypeOK
    OBVIOUS
  <2>1. \A n \in DOMAIN next : next[n] \in 0 .. Len(next)
    BY DEF Types, QueueType, Nodes
  <2>2. acc.pc \in AccPc /\ acc.fd \in {NoFd} \cup DOMAIN fd
    BY DEF Types, AccType, ServerType, Fds
  <2>3. DOMAIN answers = Connections
    BY DEF Types, NetType, Connections
  <2>4. \A c \in Connections : \A i \in DOMAIN answers[c] :
           answers[c][i].code \in Codes
    <3>1. \A c \in Connections : answers[c] \in Seq(AnswerSet)
      BY <2>3 DEF Types, NetType
    <3>2. \A c \in Connections : \A i \in DOMAIN answers[c] :
             answers[c][i] \in AnswerSet
      BY <3>1
    <3> QED
      BY <3>2 DEF AnswerSet
  <2>5. \A u \in Users : /\ client[u].state \in ClientStates
                         /\ client[u].wait \in {0} \cup Connections
    BY DEF Types, ClientType
  <2>6. \A t \in Threads : wk[t].pc \in WorkPc
    BY DEF Types, WkType
  <2> QED
    BY <2>1, <2>2, <2>3, <2>4, <2>5, <2>6
       DEF Types, TypeOK, NetType, QueueType, ServerType, Nodes
<1> QED
  BY <1>1, <1>2, PTL

=============================================================================
