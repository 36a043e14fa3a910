----------------------------- MODULE HttpProofs -----------------------------
(***************************************************************************)
(* The queue of the server, and what it promises to clients that make one  *)
(* request at a time.                                                      *)
(***************************************************************************)
EXTENDS HttpTypeProofs, FiniteSetTheorems

-----------------------------------------------------------------------------
(* The inductive invariant: the queue, when operations take turns           *)

Linked(last) == \A n \in front .. last - 1 : next[n] = n + 1

IsList == /\ (front = 0) <=> (rear = 0)
          /\ front # 0 => /\ rear = Len(next)
                          /\ Linked(rear)
                          /\ next[rear] = 0

EnqueueSound ==
    /\ Enqueuing => Dequeuing = {} /\ acc.node = Len(next) /\ next[acc.node] = 0
    /\ acc.pc = "front" => front = 0
    /\ acc.pc = "link" => /\ acc.rear = acc.node - 1
                          /\ front \in 1 .. acc.rear
                          /\ Linked(acc.rear)
    /\ acc.pc = "rear" => front \in 1 .. acc.node /\ Linked(acc.node)

DequeueSound ==
    /\ \A s, t \in Dequeuing : s = t
    /\ \A t \in Threads :
          /\ wk[t].pc \in {"next", "front"} =>
                IsList /\ front # 0 /\ wk[t].node = front
          /\ wk[t].pc = "front" => wk[t].next = next[front]
          /\ wk[t].pc = "rear" => front = 0

QueueInv == ~env.races => /\ EnqueueSound
                          /\ DequeueSound
                          /\ Dequeuing = {} /\ ~Enqueuing => IsList

-----------------------------------------------------------------------------
(* The inductive invariant: where the one request is                        *)

Current == Len(asked)
Pending == Current # 0 /\ Current \notin shut /\ answers[Current] = <<>>

Socket(i)  == i \in DOMAIN fd /\ fd[i] \in Connections
NoSockets  == \A i \in DOMAIN fd : fd[i] \in {Free, NoSocket}
OnlyAt(i)  == /\ i \in DOMAIN fd /\ fd[i] = Current
              /\ \A j \in DOMAIN fd : j # i => fd[j] \in {Free, NoSocket}

AllAtTest  == \A t \in Threads : wk[t].pc = "test"
OnlyIn(t)  == \A s \in Threads : s # t => wk[s].pc = "test"
AccIdle    == backlog = <<>> /\ acc.pc \in {"accept", "rear"}
InRequest  == OnlyAt(request.fd) /\ request.path = asked[Current]

AllShut    == /\ Connections \subseteq shut
              /\ NoSockets /\ AccIdle /\ AllAtTest /\ front = 0
InBacklog  == /\ Pending /\ NoSockets /\ AllAtTest /\ front = 0
              /\ backlog = <<Current>> /\ acc.pc \in {"accept", "rear"}
AtAcceptor == /\ Pending /\ OnlyAt(acc.fd) /\ AllAtTest /\ front = 0
              /\ backlog = <<>>
              /\ acc.pc \in {"fd", "query", "test", "front", "link"}
              /\ requestBuff = asked[Current]
              /\ acc.pc # "fd" => request.fd = acc.fd
              /\ acc.pc \in {"test", "front", "link"} =>
                    request.path = asked[Current]
              /\ acc.pc = "front" => next[acc.node] = 0
Lost       == Pending /\ AccIdle /\ AllAtTest /\ front = 0
Queued     == /\ Pending /\ InRequest /\ AccIdle /\ AllAtTest
              /\ front # 0 /\ next[front] = 0
Taken(t)   == /\ Pending /\ InRequest /\ AccIdle /\ OnlyIn(t)
              /\ wk[t].pc \in {"next", "front", "rear", "fd", "respond"}
              /\ wk[t].pc = "next" => next[wk[t].node] = 0
              /\ wk[t].pc = "front" => wk[t].next = 0
              /\ wk[t].pc \in {"rear", "fd", "respond"} => front = 0
              /\ wk[t].pc = "respond" => wk[t].fd = request.fd
Closing(t) == /\ Current # 0 /\ Current \notin shut
              /\ answers[Current] # <<>>
              /\ OnlyAt(wk[t].fd) /\ AccIdle /\ OnlyIn(t) /\ front = 0
              /\ wk[t].pc = "close"
              /\ wk[t].file # NoFd => fd[wk[t].file] = NoSocket

OneRequest == \/ AllShut \/ InBacklog \/ AtAcceptor \/ Lost \/ Queued
              \/ \E t \in Threads : Taken(t) \/ Closing(t)

Resting(u) == client[u].state \in {"off", "done"}

OneClient ==
    /\ \A u, v \in Users : u # v => Resting(u) \/ Resting(v)
    /\ \A u \in Users : client[u].state = "off" => client[u].stack = <<>>
    /\ \A u \in Users : client[u].state = "waiting" =>
          client[u].wait = Current /\ asked[Current] = OldQuery(u)
    /\ up = "up" /\ (\A u \in Users : client[u].state # "waiting") =>
          Connections \subseteq shut

AnswersSound ==
    \A c \in Connections :
        /\ answers[c] \in {<<>>, <<Served(asked[c])>>}
        /\ c \in shut => answers[c] # <<>>
        /\ c # Current => c \in shut

DisciplinedInv == Disciplined => /\ up = "up" => OneRequest
                                 /\ OneClient
                                 /\ AnswersSound
                                 /\ SavedIsServed

\* The environment of a behaviour stays.
LEMMA EnvKept == [Next]_vars => UNCHANGED env
BY DEF Next, vars, netVars, ServerStep, AcceptorStep, Accept, WriteFd,
       WriteQuery, TestRear, SetFront, LinkRear, SetRear, WorkerStep,
       TakeFront, ReadNext, AdvanceFront, ClearRear, ReadFd, RespondNone,
       RespondOpen, RespondNoFd, RespondCrash, Crash, Close, Interrupt,
       Start, ClientStep, ReceiveError, ReceiveDirectory, ReceiveFile,
       ReceiveNoRoom, ReceiveNothing, AskEntry, SkipEntry, Overflow, EndFrame

-----------------------------------------------------------------------------
(* The queue                                                                *)

InQueue == {"next", "front", "rear"}

\* Steps that do not touch the queue, taken by threads that are not inside it.
LEMMA QueueKept ==
    ASSUME Types, QueueInv, UNCHANGED <<env, next, front, rear>>,
           acc' = acc \/ (~Enqueuing /\ ~Enqueuing'),
           \A t \in Threads : \/ wk'[t] = wk[t]
                              \/ wk[t].pc \notin InQueue /\ wk'[t].pc \notin InQueue
    PROVE  QueueInv'
<1> SUFFICES ASSUME ~env.races PROVE QueueInv'
  BY DEF QueueInv
<1>1. EnqueueSound /\ DequeueSound /\ (Dequeuing = {} /\ ~Enqueuing => IsList)
  BY DEF QueueInv
<1>2. Threads' = Threads /\ Dequeuing' = Dequeuing
  BY DEF Threads, Dequeuing, InQueue
<1>3. IsList' <=> IsList
  BY DEF IsList, Linked
<1>4. Enqueuing' <=> Enqueuing
  BY DEF Enqueuing
<1>5. EnqueueSound'
  BY <1>1, <1>2, <1>4 DEF EnqueueSound, Linked, Enqueuing
<1>6. DequeueSound'
  <2>1. \A s, t \in Dequeuing' : s = t
    BY <1>1, <1>2 DEF DequeueSound
  <2>2. ASSUME NEW t \in Threads
        PROVE  /\ wk'[t].pc \in {"next", "front"} =>
                     IsList' /\ front' # 0 /\ wk'[t].node = front'
               /\ wk'[t].pc = "front" => wk'[t].next = next'[front']
               /\ wk'[t].pc = "rear" => front' = 0
    BY <1>1, <1>3 DEF DequeueSound, InQueue
  <2> QED
    BY <1>2, <2>1, <2>2 DEF DequeueSound
<1> QED
  BY <1>1, <1>2, <1>3, <1>4, <1>5, <1>6 DEF QueueInv

\* enQueue(): nobody else is inside the queue.
LEMMA EnqueueStep ==
    ASSUME Types, Types', QueueInv,
           TestRear \/ SetFront \/ LinkRear \/ SetRear
    PROVE  QueueInv'
<1> SUFFICES ASSUME ~env.races PROVE QueueInv'
  BY DEF QueueInv, TestRear, SetFront, LinkRear, SetRear, netVars
<1>1. EnqueueSound /\ DequeueSound /\ (Dequeuing = {} /\ ~Enqueuing => IsList)
  BY DEF QueueInv
<1>2. UNCHANGED <<env, wk>>
  BY DEF TestRear, SetFront, LinkRear, SetRear, netVars
<1>3. Dequeuing = {} /\ Dequeuing' = {} /\ Threads' = Threads
  <2>1. Dequeuing = {}
    BY <1>1 DEF TestRear, SetFront, LinkRear, SetRear, MayEnter, EnqueueSound,
                Enqueuing
  <2> QED
    BY <1>2, <2>1 DEF Threads, Dequeuing
<1>4. DequeueSound'
  <2>1. \A t \in Threads : wk'[t].pc \notin InQueue
    BY <1>2, <1>3 DEF Dequeuing, InQueue
  <2> QED
    BY <1>3, <2>1 DEF DequeueSound, InQueue
<1>5. /\ next \in Seq(Nat) /\ front \in Nat /\ rear \in Nat /\ Len(next) \in Nat
      /\ front <= Len(next)
      /\ (acc.node \in Nat /\ acc.node # 0) \/ ~Enqueuing
      /\ acc.rear \in Nat /\ acc.rear <= Len(next)
      /\ DOMAIN next = 1 .. Len(next)
  BY DEF Types, QueueType, AccType, Nodes
<1>6. acc = [pc |-> acc.pc, fd |-> acc.fd, node |-> acc.node, rear |-> acc.rear]
  BY DEF Types, AccType
<1>7. CASE TestRear
  <2>1. /\ IsList /\ next' = Append(next, 0) /\ UNCHANGED <<front, rear>>
        /\ acc'.pc = IF rear = 0 THEN "front" ELSE "link"
        /\ acc'.node = Len(next) + 1 /\ acc'.rear = rear
    BY <1>1, <1>6, <1>7 DEF TestRear, MayEnter
  <2>2. /\ Len(next') = Len(next) + 1 /\ next'[Len(next) + 1] = 0
        /\ \A n \in 1 .. Len(next) : next'[n] = next[n]
    BY <1>5, <2>1
  <2>3. CASE rear = 0
    <3>1. front = 0 /\ acc'.pc = "front"
      BY <2>1, <2>3 DEF IsList
    <3>2. /\ acc'.node = Len(next') /\ next'[acc'.node] = 0 /\ front' = 0
          /\ acc'.pc # "link" /\ acc'.pc # "rear" /\ Enqueuing'
      BY <2>1, <2>2, <3>1 DEF Enqueuing
    <3>3. EnqueueSound'
      BY <1>3, <3>2 DEF EnqueueSound
    <3> QED
      BY <1>4, <3>2, <3>3 DEF QueueInv
  <2>4. CASE rear # 0
    <3>1. /\ rear = Len(next) /\ front \in 1 .. rear
          /\ \A n \in front .. rear - 1 : next[n] = n + 1
      <4>1. IsList
        BY <2>1
      <4>2. front # 0 /\ rear = Len(next) /\ Linked(rear)
        BY <2>4, <4>1 DEF IsList
      <4> QED
        BY <1>5, <4>2 DEF Linked
    <3>2. \A n \in front .. rear - 1 : next'[n] = n + 1
      BY <1>5, <2>2, <3>1
    <3>3. acc'.pc = "link" /\ acc'.rear = acc'.node - 1
      BY <1>5, <2>1, <2>4, <3>1
    <3>4. Enqueuing' /\ acc'.pc # "front" /\ acc'.pc # "rear"
      BY <3>3 DEF Enqueuing
    <3>5. acc'.node = Len(next') /\ next'[acc'.node] = 0
      BY <2>1, <2>2
    <3>6. front' \in 1 .. acc'.rear
      BY <2>1, <3>1
    <3>7. Linked(acc.rear)'
      BY <2>1, <3>2 DEF Linked
    <3>8. EnqueueSound'
      BY <1>3, <3>3, <3>4, <3>5, <3>6, <3>7 DEF EnqueueSound
    <3> QED
      BY <1>4, <3>4, <3>8 DEF QueueInv
  <2> QED
    BY <2>3, <2>4
<1>8. CASE SetFront
  <2>1. /\ UNCHANGED next /\ front' = acc.node /\ acc.pc = "front"
        /\ acc'.pc = "rear" /\ acc'.node = acc.node
    BY <1>6, <1>8 DEF SetFront
  <2>2. acc.node = Len(next) /\ next[acc.node] = 0 /\ acc.node \in 1 .. acc.node
    BY <1>1, <1>5, <2>1 DEF EnqueueSound, Enqueuing
  <2>3. Enqueuing' /\ acc'.pc # "front" /\ acc'.pc # "link"
    BY <2>1 DEF Enqueuing
  <2>4. /\ acc'.node = Len(next') /\ next'[acc'.node] = 0
        /\ front' \in 1 .. acc'.node
    BY <2>1, <2>2
  <2>5. Linked(acc.node)'
    BY <1>5, <2>1, <2>3 DEF Linked, Enqueuing
  <2>6. EnqueueSound'
    BY <1>3, <2>3, <2>4, <2>5 DEF EnqueueSound
  <2> QED
    BY <1>4, <2>3, <2>6 DEF QueueInv
<1>9. CASE LinkRear
  <2>1. /\ next' = [next EXCEPT ![acc.rear] = acc.node] /\ UNCHANGED front
        /\ acc.pc = "link" /\ acc'.pc = "rear" /\ acc'.node = acc.node
    BY <1>6, <1>9 DEF LinkRear
  <2>2. /\ acc.node = Len(next) /\ next[acc.node] = 0 /\ acc.node \in Nat
        /\ acc.rear = acc.node - 1 /\ front \in 1 .. acc.rear
        /\ \A n \in front .. acc.rear - 1 : next[n] = n + 1
    BY <1>1, <1>5, <2>1 DEF EnqueueSound, Enqueuing, Linked
  <2>3. /\ Len(next') = Len(next)
        /\ \A n \in 1 .. Len(next) :
              next'[n] = IF n = acc.rear THEN acc.node ELSE next[n]
    BY <1>5, <2>1, ExceptSeq
  <2>4. acc.node \in 1 .. Len(next) /\ acc.node # acc.rear
    <3>1. acc.node # 0
      BY <1>5, <2>1 DEF Enqueuing
    <3>2. acc.node \in Nat /\ acc.node = Len(next) /\ acc.rear = acc.node - 1
      BY <2>2
    <3> QED
      BY <3>1, <3>2
  <2>5. next'[acc.node] = 0
    BY <2>2, <2>3, <2>4
  <2>6. \A n \in front .. acc.node - 1 : next'[n] = n + 1
    <3> SUFFICES ASSUME NEW n \in front .. acc.node - 1
                 PROVE  next'[n] = n + 1
      OBVIOUS
    <3>1. front \in Int /\ acc.rear = acc.node - 1 /\ acc.node \in 1 .. Len(next)
          /\ 1 <= front
      <4>1. front \in 1 .. acc.rear /\ acc.rear = acc.node - 1
        BY <2>2
      <4> QED
        BY <2>4, <4>1
    <3>2. n \in 1 .. Len(next) /\ (n = acc.rear \/ n \in front .. acc.rear - 1)
      <4>1. n \in Int /\ front <= n /\ n <= acc.node - 1 /\ acc.node \in Int
        BY <3>1
      <4>2. Len(next) \in Int /\ acc.node <= Len(next)
        BY <1>5, <2>2
      <4> QED
        BY <3>1, <4>1, <4>2
    <3>3. n = acc.rear => acc.node = n + 1
      BY <3>1
    <3> QED
      BY <2>2, <2>3, <3>2, <3>3
  <2>7. front' \in 1 .. acc'.node /\ acc'.node = Len(next') /\ next'[acc'.node] = 0
    <3>1. acc'.node = Len(next') /\ next'[acc'.node] = 0
      BY <2>1, <2>2, <2>3, <2>5
    <3>2. front \in 1 .. acc.node
      BY <2>2
    <3> QED
      BY <2>1, <3>1, <3>2
  <2>8. Linked(acc.node)'
    BY <2>1, <2>6 DEF Linked
  <2>9. Enqueuing' /\ acc'.pc # "front" /\ acc'.pc # "link"
    BY <2>1 DEF Enqueuing
  <2>10. EnqueueSound'
    BY <1>3, <2>7, <2>8, <2>9 DEF EnqueueSound
  <2> QED
    BY <1>4, <2>9, <2>10 DEF QueueInv
<1>10. CASE SetRear
  <2>1. /\ UNCHANGED <<next, front>> /\ rear' = acc.node /\ acc.pc = "rear"
        /\ acc'.pc = "accept"
    BY <1>6, <1>10 DEF SetRear
  <2>2. /\ acc.node = Len(next) /\ next[acc.node] = 0
        /\ front \in 1 .. acc.node /\ Linked(acc.node)
    BY <1>1, <2>1 DEF EnqueueSound, Enqueuing
  <2>3. IsList'
    <3>1. Linked(rear)'
      BY <2>1, <2>2 DEF Linked
    <3>2. rear' = Len(next') /\ next'[rear'] = 0 /\ rear' # 0 /\ front' # 0
      BY <1>5, <2>1, <2>2 DEF Enqueuing
    <3> QED
      BY <3>1, <3>2 DEF IsList
  <2>4. ~Enqueuing' /\ EnqueueSound'
    <3>1. acc'.pc \notin {"front", "link", "rear"}
      BY <2>1
    <3> QED
      BY <3>1 DEF EnqueueSound, Enqueuing
  <2> QED
    BY <1>4, <2>3, <2>4 DEF QueueInv
<1> QED
  BY <1>7, <1>8, <1>9, <1>10

\* deQueue(): nobody else is inside the queue.
LEMMA DequeueStep ==
    ASSUME Types, Types', QueueInv, NEW t \in Threads,
           TakeFront(t) \/ ReadNext(t) \/ AdvanceFront(t) \/ ClearRear(t)
    PROVE  QueueInv'
<1> SUFFICES ASSUME ~env.races PROVE QueueInv'
  BY DEF QueueInv, TakeFront, ReadNext, AdvanceFront, ClearRear, netVars
<1>1. EnqueueSound /\ DequeueSound /\ (Dequeuing = {} /\ ~Enqueuing => IsList)
  BY DEF QueueInv
<1>2. UNCHANGED <<env, acc, next>> /\ Threads' = Threads
  BY DEF TakeFront, ReadNext, AdvanceFront, ClearRear, netVars, Threads
<1>3. ~Enqueuing /\ ~Enqueuing' /\ EnqueueSound'
  <2>1. ~Enqueuing
    <3>1. TakeFront(t) => ~Enqueuing
      BY DEF TakeFront, MayEnter
    <3>2. ~TakeFront(t) => t \in Dequeuing
      BY DEF ReadNext, AdvanceFront, ClearRear, Dequeuing
    <3> QED
      BY <1>1, <3>1, <3>2 DEF EnqueueSound
  <2> QED
    BY <1>2, <2>1 DEF Enqueuing, EnqueueSound
<1>4. \A s \in Threads : s # t => wk[s].pc \notin InQueue
  <2>1. TakeFront(t) => Dequeuing = {}
    BY DEF TakeFront, MayEnter
  <2>2. ~TakeFront(t) => t \in Dequeuing
    BY DEF ReadNext, AdvanceFront, ClearRear, Dequeuing
  <2> QED
    BY <1>1, <2>1, <2>2 DEF DequeueSound, Dequeuing, InQueue
<1>5. /\ wk[t] \in [pc : WorkPc, node : Nodes, next : Nodes, fd : Fds, file : Fds]
      /\ wk \in [Threads -> [pc : WorkPc, node : Nodes, next : Nodes,
                             fd : Fds, file : Fds]]
  BY DEF Types, WkType
<1>6. \A s \in Threads : s # t => wk'[s] = wk[s]
  BY <1>5 DEF TakeFront, ReadNext, AdvanceFront, ClearRear
<1>7. /\ next \in Seq(Nat) /\ front \in Nat /\ rear \in Nat /\ Len(next) \in Nat
      /\ front <= Len(next) /\ DOMAIN next = 1 .. Len(next)
  BY DEF Types, QueueType, Nodes
\* What remains to be shown, once t is known to be the only thread inside.
<1>8. ASSUME wk'[t].pc \in InQueue,
             wk'[t].pc \in {"next", "front"} =>
                IsList' /\ front' # 0 /\ wk'[t].node = front',
             wk'[t].pc = "front" => wk'[t].next = next'[front'],
             wk'[t].pc = "rear" => front' = 0
      PROVE  QueueInv'
  <2>1. t \in Dequeuing' /\ Dequeuing' # {}
    BY <1>2, <1>8 DEF Dequeuing, InQueue
  <2>2. \A s \in Threads : s # t => wk'[s].pc \notin InQueue
    BY <1>4, <1>6
  <2>3. \A s, r \in Dequeuing' : s = r
    BY <1>2, <2>2 DEF Dequeuing, InQueue
  <2>4. DequeueSound'
    BY <1>2, <1>8, <2>2, <2>3 DEF DequeueSound, InQueue
  <2> QED
    BY <1>3, <2>1, <2>4 DEF QueueInv
<1>9. ASSUME wk'[t].pc \notin InQueue, IsList' PROVE QueueInv'
  <2>1. \A s \in Threads : wk'[s].pc \notin InQueue
    BY <1>4, <1>6, <1>9
  <2>2. Dequeuing' = {}
    BY <1>2, <2>1 DEF Dequeuing, InQueue
  <2>3. DequeueSound'
    BY <1>2, <2>1, <2>2 DEF DequeueSound, InQueue
  <2> QED
    BY <1>3, <1>9, <2>3 DEF QueueInv
<1>10. CASE TakeFront(t)
  <2>1. /\ UNCHANGED <<next, front, rear>> /\ front # 0
        /\ wk'[t].pc = "next" /\ wk'[t].node = front
    BY <1>5, <1>10 DEF TakeFront
  <2>2. IsList
    BY <1>1, <1>10 DEF TakeFront, MayEnter
  <2>3. IsList'
    BY <2>1, <2>2 DEF IsList, Linked
  <2> QED
    BY <1>8, <2>1, <2>3 DEF InQueue
<1>11. CASE ReadNext(t)
  <2>1. /\ UNCHANGED <<next, front, rear>> /\ wk[t].pc = "next"
        /\ wk'[t].pc = "front" /\ wk'[t].node = wk[t].node
        /\ wk'[t].next = next[wk[t].node]
    BY <1>5, <1>11 DEF ReadNext
  <2>2. IsList /\ front # 0 /\ wk[t].node = front
    BY <1>1, <2>1 DEF DequeueSound
  <2>3. IsList'
    BY <2>1, <2>2 DEF IsList, Linked
  <2> QED
    BY <1>8, <2>1, <2>2, <2>3 DEF InQueue
<1>12. CASE AdvanceFront(t)
  <2>1. /\ UNCHANGED <<next, rear>> /\ wk[t].pc = "front" /\ front' = wk[t].next
        /\ wk'[t].pc = IF wk[t].next = 0 THEN "rear" ELSE "fd"
    BY <1>5, <1>12 DEF AdvanceFront
  <2>2. IsList /\ front # 0 /\ wk[t].next = next[front]
    BY <1>1, <2>1 DEF DequeueSound
  <2>3. rear = Len(next) /\ Linked(rear) /\ next[rear] = 0
    BY <2>2 DEF IsList
  <2>4. CASE front = rear
    <3>1. front' = 0 /\ wk'[t].pc = "rear"
      BY <2>1, <2>2, <2>3, <2>4
    <3> QED
      BY <1>8, <3>1 DEF InQueue
  <2>5. CASE front # rear
    <3>1. front \in front .. rear - 1
      <4>1. front < rear
        <5>1. front \in Nat /\ Len(next) \in Nat /\ front <= Len(next)
          BY <1>7
        <5>2. rear = Len(next) /\ front # rear
          BY <2>3, <2>5
        <5> QED
          BY <5>1, <5>2
      <4> QED
        BY <1>7, <4>1
    <3>2. next[front] = front + 1
      BY <2>3, <3>1 DEF Linked
    <3>3. front' = front + 1 /\ wk'[t].pc = "fd" /\ front' # 0 /\ rear' # 0
      BY <1>7, <2>1, <2>2, <2>3, <3>2
    <3>4. Linked(rear)'
      BY <1>7, <2>1, <2>3, <3>3 DEF Linked
    <3>5. IsList'
      BY <2>1, <2>3, <3>3, <3>4 DEF IsList
    <3> QED
      BY <1>9, <3>3, <3>5 DEF InQueue
  <2> QED
    BY <2>4, <2>5
<1>13. CASE ClearRear(t)
  <2>1. /\ UNCHANGED front /\ rear' = 0 /\ wk[t].pc = "rear" /\ wk'[t].pc = "fd"
    BY <1>5, <1>13 DEF ClearRear
  <2>2. front = 0
    BY <1>1, <2>1 DEF DequeueSound
  <2>3. IsList'
    BY <2>1, <2>2 DEF IsList
  <2> QED
    BY <1>9, <2>1, <2>3 DEF InQueue
<1> QED
  BY <1>10, <1>11, <1>12, <1>13

\* Every step keeps the queue.
LEMMA QueueStep == Types /\ QueueInv /\ [Next]_vars => QueueInv'
<1> SUFFICES ASSUME Types, Types', QueueInv, [Next]_vars PROVE QueueInv'
  BY TypesStep
<1>1. /\ acc \in [pc : AccPc, fd : Fds, node : Nodes, rear : Nodes]
      /\ wk \in [Threads -> [pc : WorkPc, node : Nodes, next : Nodes,
                             fd : Fds, file : Fds]]
  BY DEF Types, AccType, WkType
<1>2. CASE UNCHANGED serverVars /\ UNCHANGED env
  BY <1>2, QueueKept DEF serverVars
<1>3. CASE Accept \/ WriteFd \/ WriteQuery
  <2>1. UNCHANGED <<env, next, front, rear, wk>>
    BY <1>3 DEF Accept, WriteFd, WriteQuery, netVars
  <2>2. /\ acc.pc \in {"accept", "fd", "query"}
        /\ acc'.pc \in {"fd", "query", "test"}
    BY <1>1, <1>3 DEF Accept, WriteFd, WriteQuery
  <2>3. ~Enqueuing /\ ~Enqueuing'
    BY <2>2 DEF Enqueuing
  <2> QED
    BY <2>1, <2>3, QueueKept
<1>4. CASE TestRear \/ SetFront \/ LinkRear \/ SetRear
  BY <1>4, EnqueueStep
<1>5. ASSUME NEW t \in Threads, WorkerStep(t) PROVE QueueInv'
  <2>1. CASE TakeFront(t) \/ ReadNext(t) \/ AdvanceFront(t) \/ ClearRear(t)
    BY <2>1, DequeueStep
  <2>2. CASE RespondCrash(t)
    BY <2>2, QueueKept DEF RespondCrash, Crash, serverVars
  <2>3. CASE ReadFd(t) \/ RespondNone(t) \/ RespondOpen(t) \/ RespondNoFd(t)
             \/ Close(t)
    <3>1. UNCHANGED <<env, next, front, rear, acc>>
      BY <2>3 DEF ReadFd, RespondNone, RespondOpen, RespondNoFd, Close, netVars
    <3>2. \A s \in Threads : s # t => wk'[s] = wk[s]
      BY <1>1, <2>3
         DEF ReadFd, RespondNone, RespondOpen, RespondNoFd, Close
    <3>3. wk[t].pc \in {"fd", "respond", "close"}
      BY <2>3 DEF ReadFd, RespondNone, RespondOpen, RespondNoFd, Close
    <3>4. wk'[t].pc \in {"respond", "close", "test"}
      BY <1>1, <2>3
         DEF ReadFd, RespondNone, RespondOpen, RespondNoFd, Close
    <3>5. wk[t].pc \notin InQueue /\ wk'[t].pc \notin InQueue
      BY <3>3, <3>4 DEF InQueue
    <3> QED
      BY <3>1, <3>2, <3>5, QueueKept
  <2> QED
    BY <1>5, <2>1, <2>2, <2>3 DEF WorkerStep
<1>6. CASE Interrupt
  BY <1>2, <1>6 DEF Interrupt
<1>7. CASE \E u \in Users : (\E path \in Queries : Start(u, path)) \/ ClientStep(u)
  <2>1. UNCHANGED env
    BY <1>7 DEF Start, ClientStep, ReceiveError, ReceiveDirectory, ReceiveFile,
                ReceiveNoRoom, ReceiveNothing, AskEntry, SkipEntry, Overflow,
                EndFrame, netVars
  <2>2. UNCHANGED serverVars \/ ServerStep
    BY <1>7 DEF Next, vars, serverVars
  <2> QED
    BY <1>2, <1>3, <1>4, <1>5, <1>6, <2>1, <2>2 DEF ServerStep, AcceptorStep
<1> QED
  BY <1>2, <1>3, <1>4, <1>5, <1>6, <1>7
     DEF Next, ServerStep, AcceptorStep, vars, netVars

\* When no two threads are in the queue at once it is a list that ends in the
\* node allocated last (server.h:235-263).
THEOREM QueueIsSound == Spec => []QueueSound
<1>1. Init => QueueInv
  <2> SUFFICES ASSUME Init PROVE QueueInv
    OBVIOUS
  <2>1. acc.pc = "accept" /\ front = 0 /\ rear = 0 /\ \A t \in Threads : wk[t].pc = "test"
    BY DEF Init, ServerInit
  <2> QED
    BY <2>1 DEF QueueInv, EnqueueSound, DequeueSound, IsList, Enqueuing, Dequeuing
<1>2. Types /\ QueueInv => QueueSound
  <2> SUFFICES ASSUME QueueInv PROVE QueueSound
    OBVIOUS
  <2> QED
    BY DEF QueueInv, QueueSound, IsList, Linked
<1> QED
  BY <1>1, <1>2, TypesInit, TypesStep, QueueStep, PTL DEF Spec

-----------------------------------------------------------------------------
(* One request at a time                                                    *)

\* Connections count up to the current one.
LEMMA CurrentIs ==
    ASSUME Types
    PROVE  /\ Current \in Nat /\ Connections = 1 .. Current
           /\ Current # 0 => Current \in Connections
           /\ DOMAIN answers = Connections
           /\ shut \subseteq Connections
BY DEF Types, NetType, Current, Connections

\* Who is in the middle of something says where the request is.
LEMMA PhaseIs ==
    ASSUME OneRequest
    PROVE  /\ backlog # <<>> => InBacklog
           /\ acc.pc \notin {"accept", "rear"} => AtAcceptor
           /\ \A t \in Threads : wk[t].pc # "test" => Taken(t) \/ Closing(t)
           /\ front # 0 => Queued \/ \E t \in Threads : Taken(t)
<1>1. backlog # <<>> => InBacklog
  BY DEF OneRequest, AllShut, AtAcceptor, Lost, Queued, Taken, Closing, AccIdle
<1>2. acc.pc \notin {"accept", "rear"} => AtAcceptor
  BY DEF OneRequest, AllShut, InBacklog, Lost, Queued, Taken, Closing, AccIdle
<1>3. \A t \in Threads : wk[t].pc # "test" => Taken(t) \/ Closing(t)
  BY DEF OneRequest, AllShut, InBacklog, AtAcceptor, Lost, Queued, Taken,
         Closing, AllAtTest, OnlyIn
<1>4. front # 0 => Queued \/ \E t \in Threads : Taken(t)
  BY DEF OneRequest, AllShut, InBacklog, AtAcceptor, Lost, Closing
<1> QED
  BY <1>1, <1>2, <1>3, <1>4

\* main(), for as long as it finds a descriptor.
LEMMA RequestAtAcceptor ==
    ASSUME Types, Types', OneRequest, FreeFds # {}, AcceptorStep
    PROVE  OneRequest'
<1>1. /\ acc = [pc |-> acc.pc, fd |-> acc.fd, node |-> acc.node, rear |-> acc.rear]
      /\ acc \in [pc : AccPc, fd : Fds, node : Nodes, rear : Nodes]
  BY DEF Types, AccType
<1>2. UNCHANGED <<env, asked, answers, shut, wk>>
  BY DEF AcceptorStep, Accept, WriteFd, WriteQuery, TestRear, SetFront,
         LinkRear, SetRear, netVars
<1>3. /\ UNCHANGED <<Current, Connections, Threads>>
      /\ Pending' <=> Pending
      /\ AllAtTest' <=> AllAtTest
      /\ \A t \in Threads : OnlyIn(t)' <=> OnlyIn(t)
  BY <1>2 DEF Current, Connections, Threads, Pending, AllAtTest, OnlyIn
<1>4. CASE Accept
  <2> DEFINE i == Min(FreeFds)
  <2>1. /\ backlog # <<>> /\ acc'.pc = "fd" /\ acc'.fd = i
        /\ fd' = [fd EXCEPT ![i] = Head(backlog)]
        /\ requestBuff' = asked[Head(backlog)]
        /\ backlog' = Tail(backlog) /\ UNCHANGED front
    BY <1>1, <1>4 DEF Accept
  <2>2. InBacklog /\ i \in DOMAIN fd /\ fd[i] = Free
    BY <2>1, PhaseIs, FreeFdIs DEF Types
  <2> HIDE DEF i
  <2>3. Head(backlog) = Current /\ Tail(backlog) = <<>>
    BY <2>2 DEF InBacklog
  <2>4. OnlyAt(acc.fd)'
    BY <1>3, <2>1, <2>2, <2>3 DEF InBacklog, NoSockets, OnlyAt
  <2>5. AtAcceptor'
    BY <1>2, <1>3, <2>1, <2>2, <2>3, <2>4 DEF AtAcceptor, InBacklog
  <2> QED
    BY <2>5 DEF OneRequest
<1>5. CASE WriteFd \/ WriteQuery
  <2>1. /\ UNCHANGED <<fd, requestBuff, backlog, front>>
        /\ acc'.fd = acc.fd
    BY <1>1, <1>5 DEF WriteFd, WriteQuery, netVars
  <2>2. \/ /\ acc.pc = "fd" /\ acc'.pc = "query"
           /\ request'.fd = acc.fd
        \/ /\ acc.pc = "query" /\ acc'.pc = "test"
           /\ request'.path = requestBuff /\ request'.fd = request.fd
    BY <1>1, <1>5 DEF WriteFd, WriteQuery, Types, ServerType
  <2>3. AtAcceptor
    BY <2>2, PhaseIs
  <2>4. OnlyAt(acc.fd)'
    BY <1>3, <2>1, <2>3 DEF AtAcceptor, OnlyAt
  <2>5. AtAcceptor'
    BY <1>2, <1>3, <2>1, <2>2, <2>3, <2>4 DEF AtAcceptor
  <2> QED
    BY <2>5 DEF OneRequest
<1>6. CASE TestRear
  <2>1. /\ UNCHANGED <<fd, requestBuff, request, backlog, front>>
        /\ acc'.fd = acc.fd /\ acc.pc = "test"
        /\ acc'.pc \in {"front", "link"}
        /\ next' = Append(next, 0) /\ acc'.node = Len(next) + 1
    BY <1>1, <1>6 DEF TestRear, netVars
  <2>2. AtAcceptor
    BY <2>1, PhaseIs
  <2>3. OnlyAt(acc.fd)'
    BY <1>3, <2>1, <2>2 DEF AtAcceptor, OnlyAt
  <2>4. next'[acc'.node] = 0
    BY <2>1 DEF Types, QueueType
  <2>5. AtAcceptor'
    BY <1>2, <1>3, <2>1, <2>2, <2>3, <2>4 DEF AtAcceptor
  <2> QED
    BY <2>5 DEF OneRequest
<1>7. CASE SetFront
  <2>1. /\ UNCHANGED <<fd, request, backlog, next>>
        /\ acc.pc = "front" /\ acc'.pc = "rear" /\ front' = acc.node
    BY <1>1, <1>7 DEF SetFront, netVars
  <2>2. AtAcceptor /\ acc.node # 0
    BY <2>1, PhaseIs DEF Types, AccType, Enqueuing
  <2>3. OnlyAt(request.fd)'
    BY <1>3, <2>1, <2>2 DEF AtAcceptor, OnlyAt
  <2>4. InRequest' /\ AccIdle'
    BY <1>2, <1>3, <2>1, <2>2, <2>3 DEF AtAcceptor, InRequest, AccIdle
  <2>5. front' # 0 /\ next'[front'] = 0
    BY <2>1, <2>2 DEF AtAcceptor
  <2>6. Queued'
    BY <1>3, <2>2, <2>4, <2>5 DEF Queued, AtAcceptor
  <2> QED
    BY <2>6 DEF OneRequest
<1>8. CASE LinkRear
  <2>1. /\ UNCHANGED <<backlog, front>>
        /\ acc.pc = "link" /\ acc'.pc = "rear"
    BY <1>1, <1>8 DEF LinkRear, netVars
  <2>2. AtAcceptor
    BY <2>1, PhaseIs
  <2>3. Lost'
    BY <1>3, <2>1, <2>2 DEF AtAcceptor, Lost, AccIdle
  <2> QED
    BY <2>3 DEF OneRequest
<1>9. CASE SetRear
  <2>1. /\ UNCHANGED <<fd, request, backlog, front, next>>
        /\ acc.pc = "rear" /\ acc'.pc = "accept"
    BY <1>1, <1>9 DEF SetRear, netVars
  <2>2. AllShut \/ InBacklog \/ Lost \/ Queued \/ \E t \in Threads : Taken(t) \/ Closing(t)
    BY <2>1 DEF OneRequest, AtAcceptor
  <2>3. /\ NoSockets' <=> NoSockets
        /\ AccIdle => AccIdle'
        /\ InRequest' <=> InRequest
        /\ \A j : OnlyAt(j)' <=> OnlyAt(j)
    BY <1>2, <1>3, <2>1 DEF NoSockets, AccIdle, InRequest, OnlyAt
  <2>4. CASE AllShut
    BY <1>2, <1>3, <2>1, <2>3, <2>4 DEF AllShut, OneRequest
  <2>5. CASE InBacklog
    BY <1>2, <1>3, <2>1, <2>3, <2>5 DEF InBacklog, OneRequest
  <2>6. CASE Lost
    BY <1>2, <1>3, <2>1, <2>3, <2>6 DEF Lost, OneRequest
  <2>7. CASE Queued
    BY <1>2, <1>3, <2>1, <2>3, <2>7 DEF Queued, OneRequest
  <2>8. ASSUME NEW t \in Threads, Taken(t) PROVE OneRequest'
    <3>1. Taken(t)'
      BY <1>2, <1>3, <2>1, <2>3, <2>8 DEF Taken
    <3> QED
      BY <1>3, <3>1 DEF OneRequest
  <2>9. ASSUME NEW t \in Threads, Closing(t) PROVE OneRequest'
    <3>1. Closing(t)'
      BY <1>2, <1>3, <2>1, <2>3, <2>9 DEF Closing
    <3> QED
      BY <1>3, <3>1 DEF OneRequest
  <2> QED
    BY <2>2, <2>4, <2>5, <2>6, <2>7, <2>8, <2>9
<1> QED
  BY <1>4, <1>5, <1>6, <1>7, <1>8, <1>9 DEF AcceptorStep

\* A worker answers the one request, to the connection it came on.
LEMMA RespondIs ==
    ASSUME Types, OneRequest, FreeFds # {}, NEW t \in Threads,
           RespondNone(t) \/ RespondOpen(t) \/ RespondNoFd(t)
    PROVE  /\ Taken(t) /\ Current \in Connections /\ answers[Current] = <<>>
           /\ answers' = [answers EXCEPT ![Current] = <<Served(asked[Current])>>]
           /\ UNCHANGED <<env, fs, asked, backlog, shut, up, request, front, acc>>
           /\ wk'[t].pc = "close" /\ wk'[t].fd = request.fd
           /\ \A s \in Threads : s # t => wk'[s] = wk[s]
           /\ OnlyAt(request.fd)'
           /\ wk'[t].file # NoFd => fd'[wk'[t].file] = NoSocket
<1>1. /\ wk[t] \in [pc : WorkPc, node : Nodes, next : Nodes, fd : Fds, file : Fds]
      /\ wk \in [Threads -> [pc : WorkPc, node : Nodes, next : Nodes,
                             fd : Fds, file : Fds]]
  BY DEF Types, WkType
<1>2. wk[t].pc = "respond"
  BY DEF RespondNone, RespondOpen, RespondNoFd
<1>3. Taken(t)
  BY <1>2, PhaseIs DEF Closing
<1>4. /\ Current \in Connections /\ answers[Current] = <<>>
      /\ OnlyAt(request.fd) /\ wk[t].fd = request.fd
      /\ request.path = asked[Current]
  BY <1>2, <1>3, CurrentIs DEF Taken, Pending, InRequest
<1>5. Write(wk[t].fd, Served(request.path))
  BY DEF RespondNone, RespondOpen, RespondNoFd
<1>6. answers' = [answers EXCEPT ![Current] = <<Served(asked[Current])>>]
  <2>1. answers' = [answers EXCEPT ![Current] = Append(@, Served(asked[Current]))]
    BY <1>4, <1>5 DEF Write, OnlyAt
  <2>2. Append(<<>>, Served(asked[Current])) = <<Served(asked[Current])>>
    OBVIOUS
  <2> QED
    BY <1>4, <2>1, <2>2
<1>7. UNCHANGED <<env, fs, asked, backlog, shut, up, request, front, acc>>
  BY DEF RespondNone, RespondOpen, RespondNoFd
<1>8. wk'[t].pc = "close" /\ wk'[t].fd = wk[t].fd
  BY <1>1 DEF RespondNone, RespondOpen, RespondNoFd
<1>9. \A s \in Threads : s # t => wk'[s] = wk[s]
  BY <1>1 DEF RespondNone, RespondOpen, RespondNoFd
<1>10. UNCHANGED <<Current, Connections>>
  BY <1>7 DEF Current, Connections
<1>11. /\ OnlyAt(request.fd)'
       /\ wk'[t].file # NoFd => fd'[wk'[t].file] = NoSocket
  <2>1. CASE RespondNone(t)
    <3>1. UNCHANGED fd /\ wk'[t].file = NoFd
      BY <1>1, <2>1 DEF RespondNone
    <3> QED
      BY <1>4, <1>7, <1>10, <3>1 DEF OnlyAt
  <2>2. CASE RespondOpen(t)
    <3> DEFINE i == Min(FreeFds)
    <3>1. /\ fd' = [fd EXCEPT ![i] = NoSocket]
          /\ wk'[t].file = IF Kind = "file" THEN i ELSE NoFd
      BY <1>1, <2>2 DEF RespondOpen
    <3>2. i \in DOMAIN fd /\ fd[i] = Free
      BY FreeFdIs DEF Types
    <3>3. fd[request.fd] = Current /\ Current # Free
      BY <1>3, <1>4 DEF OnlyAt, Taken, Pending, Free
    <3> HIDE DEF i
    <3>4. i # request.fd
      BY <3>2, <3>3
    <3>5. OnlyAt(request.fd)'
      BY <1>4, <1>7, <1>10, <3>1, <3>2, <3>4 DEF OnlyAt
    <3>6. wk'[t].file # NoFd => fd'[wk'[t].file] = NoSocket
      BY <3>1, <3>2
    <3> QED
      BY <3>5, <3>6
  <2>3. ~RespondNoFd(t)
    BY DEF RespondNoFd
  <2> QED
    BY <2>1, <2>2, <2>3
<1> QED
  BY <1>3, <1>4, <1>6, <1>7, <1>8, <1>9, <1>11

\* A worker closes the connection of the one request, which it has answered.
LEMMA CloseIs ==
    ASSUME Types, OneRequest, NEW t \in Threads, Close(t)
    PROVE  /\ Closing(t) /\ Current \in Connections
           /\ shut' = shut \cup {Current}
           /\ NoSockets'
           /\ wk'[t].pc = "test"
           /\ \A s \in Threads : s # t => wk'[s] = wk[s]
           /\ UNCHANGED <<env, fs, asked, answers, backlog, up, request, front, acc>>
<1> DEFINE closed == {wk[t].fd, wk[t].file} \cap DOMAIN fd
<1>1. /\ wk[t].pc = "close"
      /\ fd' = [i \in DOMAIN fd |-> IF i \in closed THEN Free ELSE fd[i]]
      /\ shut' = shut \cup ({fd[i] : i \in closed} \ {Free, NoSocket})
      /\ wk' = [wk EXCEPT ![t] = [pc |-> "test", node |-> 0, next |-> 0,
                                  fd |-> NoFd, file |-> NoFd]]
      /\ UNCHANGED <<env, fs, asked, answers, backlog, up, request, front, acc>>
  BY DEF Close
<1>2. wk \in [Threads -> [pc : WorkPc, node : Nodes, next : Nodes,
                          fd : Fds, file : Fds]]
  BY DEF Types, WkType
<1>3. Closing(t)
  BY <1>1, PhaseIs DEF Taken
<1>4. /\ Current \in Connections /\ Current \in Nat /\ Current # 0
      /\ OnlyAt(wk[t].fd)
      /\ wk[t].file # NoFd => fd[wk[t].file] = NoSocket
  BY <1>3, CurrentIs DEF Closing
<1>5. wk[t].file = NoFd => wk[t].file \notin DOMAIN fd
  <2>1. env.nfds \in Nat /\ DOMAIN fd = 1 .. env.nfds
    BY EnvIs DEF Types, ServerType
  <2> QED
    BY <2>1 DEF NoFd
<1>6. {fd[i] : i \in closed} \ {Free, NoSocket} = {Current}
  <2>1. wk[t].fd \in closed /\ fd[wk[t].fd] = Current
    BY <1>4 DEF OnlyAt
  <2>2. \A i \in closed : fd[i] = Current \/ fd[i] = NoSocket
    BY <1>4, <1>5, <2>1
  <2>3. Current # Free /\ Current # NoSocket
    BY <1>4 DEF Free, NoSocket
  <2> HIDE DEF closed
  <2> QED
    BY <2>1, <2>2, <2>3
<1>7. NoSockets'
  BY <1>1, <1>4 DEF NoSockets, OnlyAt
<1>8. wk'[t].pc = "test" /\ \A s \in Threads : s # t => wk'[s] = wk[s]
  BY <1>1, <1>2
<1> QED
  BY <1>1, <1>3, <1>4, <1>6, <1>7, <1>8

\* A worker, for as long as it finds a descriptor.
LEMMA RequestAtWorker ==
    ASSUME Types, Types', Disciplined, OneRequest, AnswersSound, FreeFds # {},
           NEW t \in Threads, WorkerStep(t), up' = "up"
    PROVE  OneRequest'
<1>1. /\ wk[t] \in [pc : WorkPc, node : Nodes, next : Nodes, fd : Fds, file : Fds]
      /\ wk \in [Threads -> [pc : WorkPc, node : Nodes, next : Nodes,
                             fd : Fds, file : Fds]]
  BY DEF Types, WkType
\* What remains to be shown of a step within the queue.
<1>2. ASSUME Taken(t), UNCHANGED <<fd, request, next, acc, netVars>>,
             \A s \in Threads : s # t => wk'[s] = wk[s],
             wk'[t].pc \in {"next", "front", "rear", "fd", "respond"},
             wk'[t].pc = "next" => next'[wk'[t].node] = 0,
             wk'[t].pc = "front" => wk'[t].next = 0,
             wk'[t].pc \in {"rear", "fd", "respond"} => front' = 0,
             wk'[t].pc = "respond" => wk'[t].fd = request'.fd
      PROVE  OneRequest'
  <2>1. /\ UNCHANGED <<Current, Connections, Threads>>
        /\ Pending' /\ InRequest' /\ AccIdle'
    BY <1>2 DEF Taken, netVars, Current, Connections, Threads, Pending,
                InRequest, OnlyAt, AccIdle
  <2>2. OnlyIn(t)'
    BY <1>2, <2>1 DEF Taken, OnlyIn
  <2>3. Taken(t)'
    BY <1>2, <2>1, <2>2 DEF Taken
  <2> QED
    BY <2>1, <2>3 DEF OneRequest
<1>3. CASE TakeFront(t)
  <2>1. /\ UNCHANGED <<fd, request, front, next, acc, netVars>>
        /\ front # 0 /\ MayEnter /\ wk[t].pc = "test"
        /\ wk'[t].pc = "next" /\ wk'[t].node = front
        /\ \A s \in Threads : s # t => wk'[s] = wk[s]
    BY <1>1, <1>3 DEF TakeFront
  <2>2. \A s \in Threads : ~Taken(s)
    <3> SUFFICES ASSUME NEW s \in Threads, Taken(s) PROVE FALSE
      OBVIOUS
    <3>1. s # t
      BY <2>1 DEF Taken
    <3>2. ~env.races
      BY <3>1, EnvIs DEF Disciplined, Types
    <3>3. wk[s].pc \notin {"next", "front", "rear"}
      BY <2>1, <3>2 DEF MayEnter, Dequeuing
    <3> QED
      BY <2>1, <3>3 DEF Taken
  <2>3. Queued
    BY <2>1, <2>2, PhaseIs
  <2>4. /\ UNCHANGED <<Current, Connections, Threads>>
        /\ Pending' /\ InRequest' /\ AccIdle'
    BY <2>1, <2>3 DEF Queued, netVars, Current, Connections, Threads, Pending,
                      InRequest, OnlyAt, AccIdle
  <2>5. OnlyIn(t)'
    BY <2>1, <2>3, <2>4 DEF Queued, AllAtTest, OnlyIn
  <2>6. Taken(t)'
    BY <2>1, <2>3, <2>4, <2>5 DEF Taken, Queued
  <2> QED
    BY <2>4, <2>6 DEF OneRequest
<1>4. CASE ReadNext(t)
  <2>1. /\ UNCHANGED <<fd, request, front, next, acc, netVars>>
        /\ wk[t].pc = "next" /\ wk'[t].pc = "front"
        /\ wk'[t].next = next[wk[t].node]
        /\ \A s \in Threads : s # t => wk'[s] = wk[s]
    BY <1>1, <1>4 DEF ReadNext
  <2>2. Taken(t)
    BY <2>1, PhaseIs DEF Closing
  <2> QED
    BY <1>2, <2>1, <2>2 DEF Taken
<1>5. CASE AdvanceFront(t)
  <2>1. /\ UNCHANGED <<fd, request, next, acc, netVars>>
        /\ wk[t].pc = "front" /\ front' = wk[t].next
        /\ wk'[t].pc = IF wk[t].next = 0 THEN "rear" ELSE "fd"
        /\ \A s \in Threads : s # t => wk'[s] = wk[s]
    BY <1>1, <1>5 DEF AdvanceFront
  <2>2. Taken(t)
    BY <2>1, PhaseIs DEF Closing
  <2>3. front' = 0 /\ wk'[t].pc = "rear"
    BY <2>1, <2>2 DEF Taken
  <2> QED
    BY <1>2, <2>1, <2>2, <2>3
<1>6. CASE ClearRear(t)
  <2>1. /\ UNCHANGED <<fd, request, front, next, acc, netVars>>
        /\ wk[t].pc = "rear" /\ wk'[t].pc = "fd"
        /\ \A s \in Threads : s # t => wk'[s] = wk[s]
    BY <1>1, <1>6 DEF ClearRear
  <2>2. Taken(t)
    BY <2>1, PhaseIs DEF Closing
  <2> QED
    BY <1>2, <2>1, <2>2 DEF Taken
<1>7. CASE ReadFd(t)
  <2>1. /\ UNCHANGED <<fd, request, front, next, acc, netVars>>
        /\ wk[t].pc = "fd" /\ wk'[t].pc = "respond" /\ wk'[t].fd = request.fd
        /\ \A s \in Threads : s # t => wk'[s] = wk[s]
    BY <1>1, <1>7 DEF ReadFd
  <2>2. Taken(t)
    BY <2>1, PhaseIs DEF Closing
  <2> QED
    BY <1>2, <2>1, <2>2 DEF Taken
<1>8. CASE RespondNone(t) \/ RespondOpen(t) \/ RespondNoFd(t)
  <2>1. /\ Taken(t) /\ Current \in Connections
        /\ answers' = [answers EXCEPT ![Current] = <<Served(asked[Current])>>]
        /\ UNCHANGED <<env, asked, backlog, shut, request, front, acc>>
        /\ wk'[t].pc = "close" /\ wk'[t].fd = request.fd
        /\ \A s \in Threads : s # t => wk'[s] = wk[s]
        /\ OnlyAt(request.fd)'
        /\ wk'[t].file # NoFd => fd'[wk'[t].file] = NoSocket
    BY <1>8, RespondIs
  <2>2. UNCHANGED <<Current, Connections, Threads>> /\ AccIdle'
    BY <2>1 DEF Current, Connections, Threads, Taken, AccIdle
  <2>3. answers'[Current] # <<>>
    BY <2>1, CurrentIs
  <2>4. OnlyIn(t)' /\ OnlyAt(wk[t].fd)' /\ front' = 0
    <3>1. wk[t].pc = "respond"
      BY <1>8 DEF RespondNone, RespondOpen, RespondNoFd
    <3> QED
      BY <2>1, <2>2, <3>1 DEF Taken, OnlyIn
  <2>5. Closing(t)'
    BY <2>1, <2>2, <2>3, <2>4 DEF Closing, Taken, Pending
  <2> QED
    BY <2>2, <2>5 DEF OneRequest
<1>9. ~RespondCrash(t)
  BY DEF RespondCrash, Crash
<1>10. CASE Close(t)
  <2>1. /\ Closing(t) /\ Current \in Connections
        /\ shut' = shut \cup {Current} /\ NoSockets' /\ wk'[t].pc = "test"
        /\ \A s \in Threads : s # t => wk'[s] = wk[s]
        /\ UNCHANGED <<env, asked, backlog, front, acc>>
    BY <1>10, CloseIs
  <2>2. UNCHANGED <<Current, Connections, Threads>>
    BY <2>1 DEF Current, Connections, Threads
  <2>3. AllAtTest' /\ AccIdle' /\ front' = 0
    BY <2>1, <2>2 DEF Closing, OnlyIn, AllAtTest, AccIdle
  <2>4. Connections' \subseteq shut'
    BY <2>1, <2>2 DEF AnswersSound
  <2>5. AllShut'
    BY <2>1, <2>3, <2>4 DEF AllShut
  <2> QED
    BY <2>5 DEF OneRequest
<1> QED
  BY <1>3, <1>4, <1>5, <1>6, <1>7, <1>8, <1>9, <1>10 DEF WorkerStep

\* The server's part in the promises to clients.
LEMMA PromisesAtServer ==
    ASSUME Types, Types', Disciplined, OneRequest, OneClient, AnswersSound,
           SavedIsServed, FreeFds # {}, ServerStep, UNCHANGED clientVars,
           up = "up"
    PROVE  OneClient' /\ AnswersSound' /\ SavedIsServed'
<1>1. UNCHANGED <<env, fs, asked, client, saved>>
  BY DEF ServerStep, AcceptorStep, Accept, WriteFd, WriteQuery, TestRear,
         SetFront, LinkRear, SetRear, WorkerStep, TakeFront, ReadNext,
         AdvanceFront, ClearRear, ReadFd, RespondNone, RespondOpen,
         RespondNoFd, RespondCrash, Crash, Close, Interrupt, netVars,
         clientVars
<1>2. UNCHANGED <<Current, Connections, Threads>>
  BY <1>1 DEF Current, Connections, Threads
<1>3. /\ \/ UNCHANGED answers
         \/ /\ Current \in Connections
            /\ answers' = [answers EXCEPT ![Current] = <<Served(asked[Current])>>]
      /\ \/ UNCHANGED shut
         \/ UNCHANGED answers /\ Current \in Connections
            /\ shut' = shut \cup {Current} /\ answers[Current] # <<>>
  <2>1. CASE \E t \in Threads : Close(t)
    <3> PICK t \in Threads : Close(t)
      BY <2>1
    <3>1. Closing(t) /\ Current \in Connections
      BY CloseIs
    <3> QED
      BY <3>1, CloseIs DEF Closing
  <2>2. CASE \E t \in Threads : RespondNone(t) \/ RespondOpen(t) \/ RespondNoFd(t)
    BY <2>2, RespondIs
  <2>3. CASE UNCHANGED <<answers, shut>>
    BY <2>3
  <2> QED
    BY <2>1, <2>2, <2>3
       DEF ServerStep, AcceptorStep, Accept, WriteFd, WriteQuery, TestRear,
           SetFront, LinkRear, SetRear, WorkerStep, TakeFront, ReadNext,
           AdvanceFront, ClearRear, ReadFd, RespondCrash, Crash, Interrupt,
           netVars
<1>4. shut \subseteq shut'
  BY <1>3
<1>5. OneClient'
  <2>1. \A u, v \in Users : u # v => Resting(u)' \/ Resting(v)'
    BY <1>1 DEF OneClient, Resting
  <2>2. \A u \in Users : client'[u].state = "off" => client'[u].stack = <<>>
    BY <1>1 DEF OneClient
  <2>3. \A u \in Users : client'[u].state = "waiting" =>
           client'[u].wait = Current' /\ asked'[Current'] = OldQuery(u)'
    BY <1>1, <1>2 DEF OneClient, OldQuery
  <2>4. (\A u \in Users : client'[u].state # "waiting") =>
           Connections' \subseteq shut'
    BY <1>1, <1>2, <1>4 DEF OneClient
  <2> QED
    BY <2>1, <2>2, <2>3, <2>4 DEF OneClient
<1>6. \A c \in Connections : Served(asked[c])' = Served(asked[c])
  BY <1>1 DEF Served
<1>7. AnswersSound'
  <2> SUFFICES ASSUME NEW c \in Connections
               PROVE  /\ answers'[c] \in {<<>>, <<Served(asked[c])>>}
                      /\ c \in shut' => answers'[c] # <<>>
                      /\ c # Current => c \in shut'
    BY <1>2, <1>6 DEF AnswersSound
  <2>1. /\ answers[c] \in {<<>>, <<Served(asked[c])>>}
        /\ c \in shut => answers[c] # <<>>
        /\ c # Current => c \in shut
    BY DEF AnswersSound
  <2>2. answers'[c] = answers[c] \/ answers'[c] = <<Served(asked[c])>>
    BY <1>3, CurrentIs
  <2>3. <<Served(asked[c])>> # <<>>
    OBVIOUS
  <2>4. c \in shut' => answers'[c] # <<>>
    <3>1. CASE UNCHANGED shut
      BY <2>1, <2>2, <2>3, <3>1
    <3>2. CASE UNCHANGED answers /\ shut' = shut \cup {Current} /\ answers[Current] # <<>>
      BY <2>1, <3>2
    <3> QED
      BY <1>3, <3>1, <3>2
  <2> QED
    BY <1>4, <2>1, <2>2, <2>4
<1>8. SavedIsServed'
  BY <1>1 DEF SavedIsServed, Disciplined
<1> QED
  BY <1>5, <1>7, <1>8

\* The path the answer of which the client reads.
PathOf(r) == IF r.stack = <<>> THEN r.query ELSE r.newquery

\* A client makes a request when the one before is done with.
LEMMA AskIs ==
    ASSUME Types, Disciplined, OneClient, NEW u \in Users,
           \/ \E path \in Queries : Start(u, path)
           \/ AskEntry(u)
    PROVE  \E path \in Paths, r \in ClientSet :
              /\ Connect(path) /\ up = "up"
              /\ UNCHANGED <<saved, env, fs, shut, up>>
              /\ client' = [client EXCEPT ![u] = r]
              /\ r.state = "waiting" /\ r.wait = Len(asked) + 1
              /\ PathOf(r) = path
              /\ \A v \in Users : v # u => Resting(v)
              /\ client[u].state # "waiting"
<1>0. Len(asked) + 1 \in Nat /\ client[u] \in ClientSet
  BY DEF Types, NetType, ClientType, ClientSet
<1>1. CASE \E path \in Queries : Start(u, path)
  <2> PICK path \in Queries : Start(u, path)
    BY <1>1
  <2> DEFINE r == Started(client[u], path, Len(asked) + 1)
  <2>1. path \in Paths
    BY QueryAssumption
  <2>2. /\ r \in ClientSet /\ r.wait = Len(asked) + 1 /\ r.state = "waiting"
        /\ r.query = path /\ r.stack = client[u].stack
    BY <1>0, <2>1, StartedIs
  <2>3. client' = [client EXCEPT ![u] = r]
    BY DEF Start, Started, Types, ClientType
  <2> HIDE DEF r
  <2>4. client[u].stack = <<>> /\ client[u].state # "waiting"
    BY DEF Start, OneClient
  <2>5. PathOf(r) = path
    BY <2>2, <2>4 DEF PathOf
  <2>6. \A v \in Users : v # u => Resting(v)
    BY DEF Start, Disciplined, Resting
  <2>7. Connect(path) /\ up = "up" /\ UNCHANGED <<saved, env, fs, shut, up>>
    BY DEF Start
  <2> QED
    BY <2>1, <2>2, <2>3, <2>4, <2>5, <2>6, <2>7
<1>2. CASE AskEntry(u)
  <2> DEFINE next_ == NextFrame(u)
             r == Asking(next_, Len(asked) + 1)
  <2>1. client[u].state = "walking" /\ Head(client[u].stack) # <<>>
    BY <1>2 DEF AskEntry, AtEntry
  <2>2. /\ NewQuery(u) \in Paths /\ next_ \in ClientSet /\ next_.stack # <<>>
        /\ next_.newquery = NewQuery(u)
    BY <2>1, FrameTypes
  <2>3. client' = [client EXCEPT ![u] = r]
    BY <1>2 DEF AskEntry, Asking
  <2> HIDE DEF next_
  <2>4. /\ r \in ClientSet /\ r.wait = Len(asked) + 1 /\ r.state = "waiting"
        /\ r.newquery = next_.newquery /\ r.stack = next_.stack
    BY <1>0, <2>2, AskingIs
  <2> HIDE DEF r
  <2>5. PathOf(r) = NewQuery(u)
    BY <2>2, <2>4 DEF PathOf
  <2>6. \A v \in Users : v # u => Resting(v)
    BY <2>1 DEF OneClient, Resting
  <2>7. Connect(NewQuery(u)) /\ up = "up" /\ UNCHANGED <<saved, env, fs, shut, up>>
    BY <1>2 DEF AskEntry
  <2> QED
    BY <2>1, <2>2, <2>3, <2>4, <2>5, <2>6, <2>7
<1> QED
  BY <1>1, <1>2

\* A request that is made.
LEMMA PromisesAtAsk ==
    ASSUME Types, Types', Disciplined, OneRequest, OneClient, AnswersSound,
           SavedIsServed, UNCHANGED serverVars, NEW u \in Users,
           \/ \E path \in Queries : Start(u, path)
           \/ AskEntry(u)
    PROVE  OneRequest' /\ OneClient' /\ AnswersSound' /\ SavedIsServed'
<1> PICK path \in Paths, r \in ClientSet :
              /\ Connect(path) /\ up = "up"
              /\ UNCHANGED <<saved, env, fs, shut, up>>
              /\ client' = [client EXCEPT ![u] = r]
              /\ r.state = "waiting" /\ r.wait = Len(asked) + 1
              /\ PathOf(r) = path
              /\ \A v \in Users : v # u => Resting(v)
              /\ client[u].state # "waiting"
  BY AskIs
<1>1. /\ Len(asked) \in Nat /\ Connections = 1 .. Len(asked)
      /\ Len(asked') = Len(asked) + 1
      /\ asked'[Len(asked) + 1] = path
      /\ \A c \in Connections : asked'[c] = asked[c] /\ answers'[c] = answers[c]
      /\ answers'[Len(asked) + 1] = <<>>
  BY ConnectTypes
<1>2. Connections \subseteq shut
  BY DEF OneClient, Resting
<1>3. AllShut
  <2>1. Current # 0 => Current \in shut
    BY <1>2, CurrentIs
  <2> QED
    BY <2>1 DEF OneRequest, InBacklog, AtAcceptor, Lost, Queued, Taken,
                Closing, Pending
<1>4. Current' = Len(asked) + 1 /\ Current' # 0 /\ Connections' = 1 .. Current'
  <2>1. asked' \in Seq(Paths)
    BY DEF Types, NetType
  <2> QED
    BY <1>1, <2>1 DEF Current, Connections
<1>5. Current' \notin shut'
  BY <1>1, <1>4, CurrentIs
<1>6. client \in [Users -> ClientSet]
  BY DEF Types, ClientType, ClientSet
<1>7. OneRequest'
  <2>1. backlog' = <<Current'>>
    BY <1>3, <1>4 DEF AllShut, AccIdle, Connect
  <2>2. Pending'
    BY <1>1, <1>4, <1>5 DEF Pending
  <2>3. InBacklog'
    BY <1>3, <2>1, <2>2 DEF InBacklog, AllShut, AccIdle, NoSockets, AllAtTest,
                            serverVars, Threads
  <2> QED
    BY <2>3 DEF OneRequest
<1>8. OneClient'
  <2>1. \A v \in Users : v # u => client'[v] = client[v] /\ Resting(v)'
    BY <1>6 DEF Resting
  <2>2. client'[u] = r
    BY <1>6
  <2>3. OldQuery(u)' = path
    BY <2>2 DEF OldQuery, PathOf
  <2>4. \A v \in Users : client'[v].state = "waiting" => v = u
    BY <2>1 DEF Resting
  <2>5. client'[u].wait = Current' /\ asked'[Current'] = OldQuery(u)'
    BY <1>1, <1>4, <2>2, <2>3
  <2>6. \A v \in Users : client'[v].state = "off" => client'[v].stack = <<>>
    BY <2>1, <2>2 DEF OneClient
  <2>7. client'[u].state = "waiting"
    BY <2>2
  <2> QED
    BY <2>1, <2>4, <2>5, <2>6, <2>7 DEF OneClient
<1>9. AnswersSound'
  <2>1. \A c \in Connections : Served(asked[c])' = Served(asked[c])
    BY <1>1 DEF Served
  <2>2. \A c \in Connections' : c \in Connections \/ c = Current'
    BY <1>1, <1>4
  <2>3. answers'[Current'] = <<>>
    BY <1>1, <1>4
  <2> QED
    BY <1>1, <1>2, <1>5, <2>1, <2>2, <2>3 DEF AnswersSound
<1>10. SavedIsServed'
  BY DEF SavedIsServed, Disciplined
<1> QED
  BY <1>7, <1>8, <1>9, <1>10

\* A client that reads a response, or goes through a listing.
LEMMA AloneIs ==
    ASSUME Types, NEW u \in Users, ClientStep(u), ~AskEntry(u)
    PROVE  /\ UNCHANGED netVars
           /\ client[u].state \in {"waiting", "walking"}
           /\ client[u].state = "waiting" => Closed(client[u].wait)
           /\ \A v \in Users : v # u => client'[v] = client[v]
           /\ client'[u].state \in {"done", "walking", "crashed"}
<1>1. /\ client \in [Users -> ClientSet] /\ client[u] \in ClientSet
  BY DEF Types, ClientType, ClientSet
<1>2. /\ UNCHANGED netVars
      /\ client[u].state \in {"waiting", "walking"}
      /\ client[u].state = "waiting" => Closed(client[u].wait)
  BY DEF ClientStep, ReceiveError, ReceiveDirectory, ReceiveFile, ReceiveNoRoom,
         ReceiveNothing, SkipEntry, Overflow, EndFrame, Waiting, AtEntry
<1>3. CASE client' = [client EXCEPT ![u] = Return(u)]
  BY <1>1, <1>2, <1>3, ReturnIs
<1>4. CASE Crashed(u)
  BY <1>1, <1>2, <1>4 DEF Crashed, ClientSet
<1>5. CASE ReceiveDirectory(u)
  BY <1>1, <1>2, <1>5 DEF ReceiveDirectory, ClientSet
<1>6. CASE SkipEntry(u)
  <2>1. client' = [client EXCEPT ![u] = NextFrame(u)]
        /\ NextFrame(u).state = "walking"
    BY <1>6, FrameTypes DEF SkipEntry, AtEntry
  <2> QED
    BY <1>1, <1>2, <2>1
<1>7. CASE EndFrame(u)
  BY <1>1, <1>2, <1>7 DEF EndFrame, ClientSet
<1> QED
  BY <1>3, <1>4, <1>5, <1>6, <1>7
     DEF ClientStep, ReceiveError, ReceiveFile, ReceiveNoRoom, ReceiveNothing,
         Overflow

\* A file is saved from the answer to the path that it is saved under.
LEMMA FileIs ==
    ASSUME Types, Disciplined, OneClient, AnswersSound, NEW u \in Users,
           ReceiveFile(u)
    PROVE  /\ OldQuery(u) \in Paths
           /\ Served(OldQuery(u)).code = "ok"
           /\ saved' = {s \in saved : s.at # OldQuery(u)}
                         \cup {[at |-> OldQuery(u),
                                content |-> ServerSees(OldQuery(u))]}
<1>1. Waiting(u) /\ client[u] \in ClientSet /\ client[u].wait \in Connections
  BY WaitingIs DEF ReceiveFile
<1>2. OldQuery(u) \in Paths
  BY <1>1 DEF OldQuery, ClientSet
<1>3. client[u].wait = Current /\ asked[Current] = OldQuery(u)
  BY <1>1 DEF OneClient, Waiting
<1>4. answers[Current] \in {<<>>, <<Served(OldQuery(u))>>}
  BY <1>1, <1>3 DEF AnswersSound
<1>5. PICK a \in Responses(u) :
         /\ a.code = "ok"
         /\ saved' = {s \in saved : s.at # OldQuery(u)}
                       \cup {[at |-> OldQuery(u), content |-> a.of]}
  BY DEF ReceiveFile
<1>6. a = Served(OldQuery(u))
  <2>1. PICK i \in DOMAIN answers[Current] : a = answers[Current][i]
    BY <1>3 DEF Responses
  <2>2. answers[Current] = <<Served(OldQuery(u))>>
    BY <1>4, <2>1
  <2> QED
    BY <2>1, <2>2
<1>7. a.of = ServerSees(OldQuery(u))
  BY <1>2, <1>5, <1>6, ServedIs
<1> QED
  BY <1>2, <1>5, <1>6, <1>7

\* A step of a client without a request.
LEMMA PromisesAlone ==
    ASSUME Types, Types', Disciplined, up = "up" => OneRequest, OneClient,
           AnswersSound, SavedIsServed, UNCHANGED serverVars, NEW u \in Users,
           ClientStep(u), ~AskEntry(u)
    PROVE  /\ up' = "up" => OneRequest'
           /\ OneClient' /\ AnswersSound' /\ SavedIsServed'
<1>1. /\ UNCHANGED netVars
      /\ client[u].state \in {"waiting", "walking"}
      /\ client[u].state = "waiting" => Closed(client[u].wait)
      /\ \A v \in Users : v # u => client'[v] = client[v]
      /\ client'[u].state \in {"done", "walking", "crashed"}
  BY AloneIs
<1>2. UNCHANGED <<Current, Connections, Threads>>
  BY <1>1 DEF Current, Connections, Threads, netVars
<1>3. OneRequest' <=> OneRequest
  BY <1>1, <1>2
     DEF OneRequest, AllShut, InBacklog, AtAcceptor, Lost, Queued, Taken,
         Closing, Pending, NoSockets, OnlyAt, AllAtTest, OnlyIn, AccIdle,
         InRequest, netVars, serverVars
<1>4. OneClient'
  <2>1. \A v \in Users : v # u => client'[v] = client[v] /\ Resting(v)
    BY <1>1 DEF OneClient, Resting
  <2>2. \A v \in Users : client'[v].state # "waiting"
    BY <1>1, <2>1 DEF Resting
  <2>3. \A v, w \in Users : v # w => Resting(v)' \/ Resting(w)'
    BY <2>1 DEF Resting
  <2>4. \A v \in Users : client'[v].state = "off" => client'[v].stack = <<>>
    BY <1>1, <2>1 DEF OneClient
  <2>5. up' = "up" => Connections' \subseteq shut'
    <3> SUFFICES ASSUME up = "up" PROVE Connections \subseteq shut
      BY <1>1, <1>2 DEF netVars
    <3>1. CASE client[u].state = "waiting"
      <4>1. Current \in shut
        BY <1>1, <3>1 DEF OneClient, Closed
      <4> QED
        BY <4>1 DEF AnswersSound
    <3>2. CASE client[u].state = "walking"
      <4>1. \A v \in Users : client[v].state # "waiting"
        BY <2>1, <3>2 DEF Resting
      <4> QED
        BY <4>1 DEF OneClient
    <3> QED
      BY <1>1, <3>1, <3>2
  <2> QED
    BY <2>2, <2>3, <2>4, <2>5 DEF OneClient
<1>5. AnswersSound'
  <2>1. UNCHANGED <<fs, asked, answers, shut>>
    BY <1>1 DEF netVars
  <2>2. \A c \in Connections : Served(asked[c])' = Served(asked[c])
    BY <2>1 DEF Served
  <2> QED
    BY <1>2, <2>1, <2>2 DEF AnswersSound
<1>6. SavedIsServed'
  <2>1. CASE ReceiveFile(u)
    <3>1. \A s \in saved' : s \in saved \/ s = [at |-> OldQuery(u),
                                   content |-> ServerSees(OldQuery(u))]
      BY <2>1, FileIs
    <3> QED
      BY <3>1 DEF SavedIsServed
  <2>2. CASE UNCHANGED saved
    BY <2>2 DEF SavedIsServed
  <2> QED
    BY <2>1, <2>2
       DEF ClientStep, ReceiveError, ReceiveDirectory, ReceiveNoRoom,
           ReceiveNothing, SkipEntry, Overflow, EndFrame
<1> QED
  BY <1>1, <1>3, <1>4, <1>5, <1>6 DEF netVars

\* Every step keeps the invariant, as long as a descriptor is free.
LEMMA DisciplinedStep ==
    Types /\ DisciplinedInv /\ FreeFds # {} /\ [Next]_vars => DisciplinedInv'
<1> SUFFICES ASSUME Types, Types', DisciplinedInv, FreeFds # {}, [Next]_vars
             PROVE  DisciplinedInv'
  BY TypesStep
<1> SUFFICES ASSUME Disciplined' PROVE DisciplinedInv'
  BY DEF DisciplinedInv
<1>1. CASE UNCHANGED vars
  <2>1. UNCHANGED <<netVars, serverVars, clientVars>>
    BY <1>1 DEF vars
  <2>2. UNCHANGED <<Current, Connections, Threads>>
    BY <2>1 DEF netVars, Current, Connections, Threads
  <2>3. Disciplined
    BY <2>1 DEF Disciplined, netVars
  <2>4. OneRequest' <=> OneRequest
    BY <2>1, <2>2
       DEF OneRequest, AllShut, InBacklog, AtAcceptor, Lost, Queued, Taken,
           Closing, Pending, NoSockets, OnlyAt, AllAtTest, OnlyIn, AccIdle,
           InRequest, netVars, serverVars
  <2>5. OneClient' <=> OneClient
    BY <2>1, <2>2 DEF OneClient, Resting, OldQuery, netVars, clientVars
  <2>6. AnswersSound' <=> AnswersSound
    <3>1. UNCHANGED <<fs, asked, answers, shut>>
      BY <2>1 DEF netVars
    <3>2. \A c \in Connections : Served(asked[c])' = Served(asked[c])
      BY <3>1 DEF Served
    <3> QED
      BY <2>2, <3>1, <3>2 DEF AnswersSound
  <2>7. SavedIsServed' <=> SavedIsServed
    BY <2>1 DEF SavedIsServed, Disciplined, netVars, clientVars
  <2>8. up' = up
    BY <2>1 DEF netVars
  <2> QED
    BY <2>3, <2>4, <2>5, <2>6, <2>7, <2>8 DEF DisciplinedInv
<1>2. CASE up = "up" /\ ServerStep /\ UNCHANGED clientVars
  <2>1. UNCHANGED env
    BY <1>2 DEF ServerStep, AcceptorStep, Accept, WriteFd, WriteQuery, TestRear,
         SetFront, LinkRear, SetRear, WorkerStep, TakeFront, ReadNext,
         AdvanceFront, ClearRear, ReadFd, RespondNone, RespondOpen,
         RespondNoFd, RespondCrash, Crash, Close, Interrupt, netVars
  <2>2. /\ Disciplined /\ OneRequest /\ OneClient /\ AnswersSound
        /\ SavedIsServed
    BY <1>2, <2>1 DEF DisciplinedInv, Disciplined
  <2>3. OneClient' /\ AnswersSound' /\ SavedIsServed'
    BY <1>2, <2>2, PromisesAtServer
  <2>4. up' = "up" => OneRequest'
    <3>1. AcceptorStep => OneRequest'
      BY <2>2, RequestAtAcceptor
    <3>2. ASSUME NEW t \in Threads, WorkerStep(t), up' = "up" PROVE OneRequest'
      BY <2>2, <3>2, RequestAtWorker
    <3>3. Interrupt => up' # "up"
      BY DEF Interrupt
    <3> QED
      BY <1>2, <3>1, <3>2, <3>3 DEF ServerStep
  <2> QED
    BY <2>3, <2>4 DEF DisciplinedInv
<1>3. CASE /\ \E u \in Users : (\E path \in Queries : Start(u, path)) \/ ClientStep(u)
           /\ UNCHANGED serverVars
  <2> PICK u \in Users : (\E path \in Queries : Start(u, path)) \/ ClientStep(u)
    BY <1>3
  <2>1. CASE (\E path \in Queries : Start(u, path)) \/ AskEntry(u)
    <3>1. up = "up" /\ UNCHANGED env
      BY <2>1 DEF Start, AskEntry
    <3>2. /\ Disciplined /\ OneRequest /\ OneClient /\ AnswersSound
          /\ SavedIsServed
      BY <3>1 DEF DisciplinedInv, Disciplined
    <3>3. OneRequest' /\ OneClient' /\ AnswersSound' /\ SavedIsServed'
      BY <1>3, <2>1, <3>2, PromisesAtAsk
    <3> QED
      BY <3>3 DEF DisciplinedInv
  <2>2. CASE ClientStep(u) /\ ~AskEntry(u)
    <3>1. UNCHANGED env
      BY <2>2, AloneIs DEF netVars
    <3>2. /\ Disciplined /\ (up = "up" => OneRequest) /\ OneClient
          /\ AnswersSound /\ SavedIsServed
      BY <3>1 DEF DisciplinedInv, Disciplined
    <3>3. /\ up' = "up" => OneRequest'
          /\ OneClient' /\ AnswersSound' /\ SavedIsServed'
      BY <1>3, <2>2, <3>2, PromisesAlone
    <3> QED
      BY <3>3 DEF DisciplinedInv
  <2> QED
    BY <2>1, <2>2
<1> QED
  BY <1>1, <1>2, <1>3 DEF Next

\* The first states have no request.
LEMMA DisciplinedInit == Init => DisciplinedInv
<1> SUFFICES ASSUME Init PROVE DisciplinedInv
  OBVIOUS
<1>1. /\ asked = <<>> /\ answers = <<>> /\ backlog = <<>> /\ shut = {}
      /\ saved = {} /\ front = 0 /\ acc.pc = "accept"
      /\ fd = [i \in 1 .. env.nfds |-> Free]
      /\ \A t \in Threads : wk[t].pc = "test"
      /\ \A u \in Users : client[u].state = "off" /\ client[u].stack = <<>>
  BY DEF Init, NetInit, ServerInit, ClientInit
<1>2. Connections = {} /\ Current = 0
  BY <1>1 DEF Connections, Current
<1>3. AllShut
  BY <1>1, <1>2 DEF AllShut, NoSockets, AccIdle, AllAtTest
<1>4. OneClient
  BY <1>1, <1>2 DEF OneClient, Resting
<1>5. AnswersSound /\ SavedIsServed
  BY <1>1, <1>2 DEF AnswersSound, SavedIsServed
<1> QED
  BY <1>3, <1>4, <1>5 DEF DisciplinedInv, OneRequest

\* Types and the invariant hold as long as descriptors last.
LEMMA DisciplinedAlways ==
    Spec /\ [](FreeFds # {}) => [](Types /\ DisciplinedInv)
BY TypesInit, TypesStep, DisciplinedInit, DisciplinedStep, PTL DEF Spec

\* As long as descriptors last, no connection is closed before it was answered
\* (server.h:59-60, 109-110, 189-190).  Without a descriptor main() makes up a
\* request from the one before.
THEOREM ClosedOnceAnswered ==
    Spec /\ [](FreeFds # {}) => []ShutAnswered
<1>1. Types /\ DisciplinedInv => ShutAnswered
  BY DEF DisciplinedInv, AnswersSound, ShutAnswered, Types, NetType
<1> QED
  BY <1>1, DisciplinedAlways, PTL

\* As long as descriptors last, a file is saved with what the server has for
\* the path it is saved under (client.h:103, 171-211).
THEOREM FilesAreServed ==
    Spec /\ [](FreeFds # {}) => []SavedIsServed
<1>1. DisciplinedInv => SavedIsServed
  BY DEF DisciplinedInv, SavedIsServed
<1> QED
  BY <1>1, DisciplinedAlways, PTL

-----------------------------------------------------------------------------
(* The promise of HttpService                                               *)

\* Both modules mean the same by what a path deserves.
LEMMA PromiseIsSame ==
    ASSUME NEW path
    PROVE  Service!Served(path) = Served(path)
BY DEF Service!Served, Served, Service!ServerSees, ServerSees,
       Service!NotFound, NotFound, Service!Answer, Answer

\* A request that is made.
LEMMA ConnectAsks ==
    ASSUME Types, Types', NEW path \in Paths, Connect(path)
    PROVE  /\ Len(asked') = Len(asked) + 1
           /\ IsPrefix(asked, asked')
           /\ answers' = Append(answers, <<>>)
<1>1. /\ asked' = Append(asked, path) /\ answers' = Append(answers, <<>>)
      /\ asked \in Seq(Paths) /\ Len(asked) \in Nat
  BY DEF Connect, Types, NetType
<1>2. Len(asked') = Len(asked) + 1 /\ asked' \in Seq(Paths)
  BY <1>1
<1>3. SubSeq(asked, 1, Len(asked)) = SubSeq(asked', 1, Len(asked))
  <2>1. /\ DOMAIN SubSeq(asked, 1, Len(asked)) = 1 .. Len(asked)
        /\ DOMAIN SubSeq(asked', 1, Len(asked)) = 1 .. Len(asked)
    BY <1>1, <1>2
  <2>2. \A i \in 1 .. Len(asked) :
           SubSeq(asked, 1, Len(asked))[i] = SubSeq(asked', 1, Len(asked))[i]
    BY <1>1, <1>2
  <2> QED
    BY <1>1, <1>2, <2>1, <2>2, SeqEqual
<1> QED
  BY <1>1, <1>2, <1>3 DEF IsPrefix

\* Every step is a request, an answer or neither for HttpService.
LEMMA ServiceStep ==
    Types /\ DisciplinedInv /\ FreeFds # {} /\ [Next]_vars =>
        [Service!Ask \/ Service!Reply]_<<
            IF Disciplined THEN asked ELSE <<>>,
            IF Disciplined THEN answers ELSE <<>> >>
<1> SUFFICES ASSUME Types, Types', DisciplinedInv, FreeFds # {}, [Next]_vars
             PROVE  [Service!Ask \/ Service!Reply]_<<
                       IF Disciplined THEN asked ELSE <<>>,
                       IF Disciplined THEN answers ELSE <<>> >>
  BY TypesStep
<1>1. UNCHANGED env
  BY EnvKept
<1>2. Disciplined' <=> Disciplined
  BY <1>1 DEF Disciplined
<1>3. CASE ~Disciplined
  BY <1>2, <1>3
<1> SUFFICES ASSUME Disciplined
             PROVE  Service!Ask \/ Service!Reply \/ UNCHANGED <<asked, answers>>
  BY <1>2, <1>3
<1>4. CASE UNCHANGED <<asked, answers>>
  BY <1>4
<1>5. ASSUME NEW u \in Users, (\E path \in Queries : Start(u, path)) \/ AskEntry(u)
      PROVE  Service!Ask
  <2>1. PICK path \in Paths : Connect(path)
    BY <1>5, AskIs DEF DisciplinedInv
  <2>2. /\ Len(asked') = Len(asked) + 1
        /\ IsPrefix(asked, asked')
        /\ answers' = Append(answers, <<>>)
    BY <2>1, ConnectAsks
  <2> QED
    BY <1>2, <2>2 DEF Service!Ask, Service!IsPrefix, IsPrefix
<1>6. ASSUME NEW t \in Threads,
             RespondNone(t) \/ RespondOpen(t) \/ RespondNoFd(t),
             up = "up"
      PROVE  Service!Reply
  <2>1. /\ Current \in Connections /\ answers[Current] = <<>>
        /\ answers' = [answers EXCEPT ![Current] = <<Served(asked[Current])>>]
        /\ UNCHANGED asked
    BY <1>6, RespondIs DEF DisciplinedInv
  <2>2. Service!Served(asked[Current]) = Served(asked[Current])
    BY PromiseIsSame
  <2> QED
    BY <1>2, <2>1, <2>2 DEF Service!Reply, Connections
<1>7. CASE up = "up" /\ ServerStep
  BY <1>4, <1>6, <1>7
     DEF ServerStep, AcceptorStep, Accept, WriteFd, WriteQuery, TestRear,
         SetFront, LinkRear, SetRear, WorkerStep, TakeFront, ReadNext,
         AdvanceFront, ClearRear, ReadFd, RespondCrash, Crash, Close,
         Interrupt, netVars
<1>8. ASSUME NEW u \in Users, ClientStep(u), ~AskEntry(u)
      PROVE  UNCHANGED <<asked, answers>>
  BY <1>8, AloneIs DEF netVars
<1> QED
  BY <1>4, <1>5, <1>7, <1>8 DEF Next, vars, netVars

\* As long as descriptors last, the server keeps the promise of HttpService to
\* clients that ask one after the other: whatever workers there are, each
\* request is answered at most once and as it deserves (server.c:125-132,
\* server.h:46-190).
THEOREM ImplementsService == Spec /\ [](FreeFds # {}) => ServiceSpec
<1>1. Init => /\ (IF Disciplined THEN asked ELSE <<>>) = <<>>
              /\ (IF Disciplined THEN answers ELSE <<>>) = <<>>
  BY DEF Init, NetInit
<1> QED
  BY <1>1, ServiceStep, DisciplinedAlways, PTL
     DEF Spec, ServiceSpec, Service!Spec

-----------------------------------------------------------------------------
(* The descriptors the server loses                                         *)

LeakedFds    == {i \in DOMAIN fd : Leaked(i)}
LeakyAnswers == {c \in Connections : NeverClosed(c)}

\* A worker holds a file only when it is about to close it.
FilesSound == \A t \in Threads : wk[t].pc # "close" => wk[t].file = NoFd

\* Both are finite sets.
LEMMA LeaksFinite ==
    ASSUME Types
    PROVE  /\ IsFiniteSet(LeakedFds) /\ IsFiniteSet(LeakyAnswers)
           /\ DescriptorsLost <=>
                 (Disciplined => Cardinality(LeakedFds) = Cardinality(LeakyAnswers))
<1>1. env.nfds \in Nat /\ DOMAIN fd = 1 .. env.nfds
  BY EnvIs DEF Types, ServerType
<1>2. Current \in Nat /\ Connections = 1 .. Current
  BY CurrentIs
<1>3. IsFiniteSet(DOMAIN fd) /\ IsFiniteSet(Connections)
  BY <1>1, <1>2, FS_Interval
<1>4. LeakedFds \in SUBSET DOMAIN fd /\ LeakyAnswers \in SUBSET Connections
  BY DEF LeakedFds, LeakyAnswers
<1> QED
  BY <1>3, <1>4, FS_Subset DEF DescriptorsLost, LeakedFds, LeakyAnswers

\* A step that changes neither of them.
LEMMA LeaksKept ==
    ASSUME Types, Types', DescriptorsLost, Disciplined' => Disciplined,
           LeakedFds' = LeakedFds, LeakyAnswers' = LeakyAnswers
    PROVE  DescriptorsLost'
BY LeaksFinite DEF DescriptorsLost, LeakedFds, LeakyAnswers

\* Descriptors that no step touches.
LEMMA FdsKept ==
    ASSUME UNCHANGED <<fd, env>>, \A t \in Threads : wk'[t].file = wk[t].file
    PROVE  LeakedFds' = LeakedFds
BY DEF LeakedFds, Leaked, Threads

\* Workers close what they read before they take another node.
LEMMA FilesStep == Types /\ FilesSound /\ [Next]_vars => FilesSound'
<1> SUFFICES ASSUME Types, FilesSound, [Next]_vars, NEW s \in Threads'
             PROVE  wk'[s].pc # "close" => wk'[s].file = NoFd
  BY DEF FilesSound
<1>1. wk \in [Threads -> [pc : WorkPc, node : Nodes, next : Nodes,
                          fd : Fds, file : Fds]]
  BY DEF Types, WkType
<1>2. Threads' = Threads
  BY EnvKept DEF Threads
<1>3. s \in Threads /\ (wk[s].pc # "close" => wk[s].file = NoFd)
  BY <1>2 DEF FilesSound
<1>4. CASE UNCHANGED wk
  BY <1>3, <1>4
<1>5. ASSUME NEW t \in Threads,
             TakeFront(t) \/ ReadNext(t) \/ AdvanceFront(t) \/ ClearRear(t) \/ ReadFd(t)
      PROVE  wk'[s].pc # "close" => wk'[s].file = NoFd
  <2>1. wk[t].pc # "close" /\ wk'[s].file = wk[s].file /\ (s # t => wk'[s] = wk[s])
    BY <1>1, <1>3, <1>5 DEF TakeFront, ReadNext, AdvanceFront, ClearRear, ReadFd
  <2> QED
    BY <1>3, <2>1
<1>6. ASSUME NEW t \in Threads, RespondNone(t) \/ RespondOpen(t) \/ RespondNoFd(t)
      PROVE  wk'[s].pc # "close" => wk'[s].file = NoFd
  <2>1. wk'[t].pc = "close" /\ (s # t => wk'[s] = wk[s])
    BY <1>1, <1>3, <1>6 DEF RespondNone, RespondOpen, RespondNoFd
  <2> QED
    BY <1>3, <2>1
<1>7. ASSUME NEW t \in Threads, Close(t)
      PROVE  wk'[s].pc # "close" => wk'[s].file = NoFd
  <2>1. wk'[t].file = NoFd /\ (s # t => wk'[s] = wk[s])
    BY <1>1, <1>3, <1>7 DEF Close
  <2> QED
    BY <1>3, <2>1
<1>8. \/ UNCHANGED wk
      \/ \E t \in Threads : \/ TakeFront(t) \/ ReadNext(t) \/ AdvanceFront(t)
                            \/ ClearRear(t) \/ ReadFd(t)
                            \/ RespondNone(t) \/ RespondOpen(t) \/ RespondNoFd(t)
                            \/ Close(t)
  BY DEF Next, vars, ServerStep, AcceptorStep, Accept, WriteFd,
         WriteQuery, TestRear, SetFront, LinkRear, SetRear, WorkerStep,
         RespondCrash, Crash, Interrupt, serverVars
<1> QED
  BY <1>4, <1>5, <1>6, <1>7, <1>8

\* What a worker opens, and keeps open, is what it answers with.
LEMMA LeakIsAnswer ==
    ASSUME Types, NEW path \in Paths, path = request.path
    PROVE  /\ Kind = "none" => Served(path).code \in {"bad", "missing"}
           /\ Kind \in {"dir", "odd"} =>
                 Served(path).code \in {"directory", "unsupported"}
           /\ Kind = "file" => Served(path).code = "ok"
<1> DEFINE names == ServerSees(path)
<1>1. Kind = IF path = <<>> \/ names \notin DOMAIN fs THEN "none" ELSE fs[names].kind
  BY DEF Kind
<1>2. names \in DOMAIN fs => fs[names].kind \in FileKinds
  BY FileAssumption DEF Types, NetType
<1>3. Served(path) = IF path = <<>> THEN Answer("bad", <<>>)
                     ELSE IF names \notin DOMAIN fs THEN NotFound
                     ELSE CASE fs[names].kind = "dir"  -> Answer("directory", names)
                            [] fs[names].kind = "file" -> Answer("ok", names)
                            [] OTHER                   -> Answer("unsupported", <<>>)
  BY DEF Served
<1> HIDE DEF names
<1>4. \A code, of : Answer(code, of).code = code
  BY DEF Answer
<1>5. NotFound.code = "missing"
  BY DEF NotFound, Answer
<1>6. CASE path = <<>> \/ names \notin DOMAIN fs
  BY <1>1, <1>3, <1>4, <1>5, <1>6
<1>7. CASE path # <<>> /\ names \in DOMAIN fs
  <2>1. Kind = fs[names].kind /\ Kind \in FileKinds
    BY <1>1, <1>2, <1>7
  <2>2. Kind = "dir" => Served(path).code = "directory"
    BY <1>3, <1>4, <1>7, <2>1
  <2>3. Kind = "file" => Served(path).code = "ok"
    BY <1>3, <1>4, <1>7, <2>1
  <2>4. Kind \notin {"dir", "file"} => Served(path).code = "unsupported"
    BY <1>3, <1>4, <1>7, <2>1
  <2>5. Kind # "none"
    BY <2>1 DEF FileKinds
  <2> QED
    BY <2>2, <2>3, <2>4, <2>5
<1> QED
  BY <1>6, <1>7

\* A worker answers, with a descriptor more or without.
LEMMA LeakAtRespond ==
    ASSUME Types, Types', Disciplined, OneRequest, FilesSound, DescriptorsLost,
           FreeFds # {}, NEW t \in Threads,
           RespondNone(t) \/ RespondOpen(t) \/ RespondNoFd(t)
    PROVE  DescriptorsLost'
<1> DEFINE a == Served(asked[Current])
<1>1. /\ Taken(t) /\ Current \in Connections /\ answers[Current] = <<>>
      /\ answers' = [answers EXCEPT ![Current] = <<a>>]
      /\ UNCHANGED <<env, asked>>
      /\ \A s \in Threads : s # t => wk'[s] = wk[s]
  BY RespondIs
<1>2. /\ wk[t].pc = "respond" /\ wk[t].file = NoFd
  BY DEF RespondNone, RespondOpen, RespondNoFd, FilesSound
<1>3. asked[Current] \in Paths /\ asked[Current] = request.path
  <2>1. request.path \in Paths /\ request.path = asked[Current]
    BY <1>1 DEF Taken, InRequest, Types, ServerType
  <2> QED
    BY <2>1
<1>4. /\ Kind = "none" => a.code \in {"bad", "missing"}
      /\ Kind \in {"dir", "odd"} => a.code \in {"directory", "unsupported"}
      /\ Kind = "file" => a.code = "ok"
  BY <1>3, LeakIsAnswer
<1> HIDE DEF a
<1>5. LeakyAnswers' = IF a.code \in {"directory", "unsupported"}
                      THEN LeakyAnswers \cup {Current} ELSE LeakyAnswers
  <2> PICK n : n = Current
    OBVIOUS
  <2>1. /\ Connections' = Connections
        /\ \A c \in Connections : c # n => (NeverClosed(c)' <=> NeverClosed(c))
    BY <1>1 DEF Connections, NeverClosed
  <2>2. NeverClosed(n)' <=> a.code \in {"directory", "unsupported"}
    <3>1. answers'[n] = <<a>>
      BY <1>1, CurrentIs
    <3>2. DOMAIN answers'[n] = {1} /\ answers'[n][1] = a
      BY <3>1
    <3> QED
      BY <3>2 DEF NeverClosed
  <2>3. ~NeverClosed(n)
    BY <1>1 DEF NeverClosed
  <2>4. \A c : c \in LeakyAnswers' <=>
                  c \in Connections /\ (IF c = n
                                        THEN a.code \in {"directory", "unsupported"}
                                        ELSE NeverClosed(c))
    BY <2>1, <2>2 DEF LeakyAnswers
  <2>5. \A c : c \in LeakyAnswers <=> c \in Connections /\ c # n /\ NeverClosed(c)
    BY <2>3 DEF LeakyAnswers
  <2>6. n \in Connections
    BY <1>1
  <2> QED
    BY <2>4, <2>5, <2>6
<1>6. Current \notin LeakyAnswers
  BY <1>1 DEF LeakyAnswers, NeverClosed
<1>7. Threads' = Threads
  BY <1>1 DEF Threads
<1>8. CASE RespondNone(t)
  <2>1. UNCHANGED fd /\ wk'[t].file = NoFd /\ Kind = "none"
    BY <1>8 DEF RespondNone, Types, WkType
  <2>2. LeakedFds' = LeakedFds
    BY <1>1, <1>2, <2>1, FdsKept
  <2>3. LeakyAnswers' = LeakyAnswers
    BY <1>4, <1>5, <2>1
  <2> QED
    BY <2>2, <2>3, LeaksKept
<1>9. CASE RespondOpen(t)
  <2> PICK i : i = Min(FreeFds)
    OBVIOUS
  <2>1. /\ fd' = [fd EXCEPT ![i] = NoSocket]
        /\ wk'[t].file = IF Kind = "file" THEN i ELSE NoFd
        /\ Kind \in {"dir", "file", "odd"}
    BY <1>9 DEF RespondOpen, Types, WkType
  <2>2. i \in DOMAIN fd /\ fd[i] = Free /\ Free # NoSocket /\ i # NoFd
    <3>1. i \in DOMAIN fd /\ fd[i] = Free
      BY FreeFdIs DEF Types
    <3>2. DOMAIN fd = 1 .. env.nfds /\ env.nfds \in Nat
      BY EnvIs DEF Types, ServerType
    <3> QED
      BY <3>1, <3>2 DEF Free, NoSocket, NoFd
  <2>3. \A s \in Threads : s # t => wk[s].file = NoFd
    <3>1. \A s \in Threads : s # t => wk[s].pc = "test"
      BY <1>1 DEF Taken, OnlyIn
    <3> QED
      BY <3>1 DEF FilesSound
  <2>4. \A j : j \in LeakedFds' <=>
                  j \in DOMAIN fd /\ (IF j = i THEN Kind # "file" ELSE Leaked(j))
    <3>1. DOMAIN fd' = DOMAIN fd
      BY <2>1
    <3>2. ASSUME NEW j \in DOMAIN fd, j # i PROVE Leaked(j)' <=> Leaked(j)
      <4>1. fd'[j] = fd[j]
        BY <2>1, <3>2
      <4>2. wk'[t].file # j <=> wk[t].file # j
        <5>1. j # NoFd
          <6>1. DOMAIN fd = 1 .. env.nfds /\ env.nfds \in Nat
            BY EnvIs DEF Types, ServerType
          <6> QED
            BY <6>1 DEF NoFd
        <5> QED
          BY <1>2, <2>1, <3>2, <5>1
      <4> QED
        BY <1>1, <1>7, <4>1, <4>2 DEF Leaked
    <3>3. Leaked(i)' <=> Kind # "file"
      <4>1. fd'[i] = NoSocket
        BY <2>1, <2>2
      <4>2. \A s \in Threads : s # t => wk'[s].file # i
        BY <1>1, <2>2, <2>3
      <4>3. wk'[t].file # i <=> Kind # "file"
        BY <2>1, <2>2
      <4> QED
        BY <1>7, <4>1, <4>2, <4>3 DEF Leaked
    <3> QED
      BY <2>2, <3>1, <3>2, <3>3 DEF LeakedFds
  <2>5. ~Leaked(i)
    BY <2>2 DEF Leaked
  <2>6. i \notin LeakedFds /\ \A j : j \in LeakedFds <=> j \in DOMAIN fd /\ Leaked(j)
    BY <2>5 DEF LeakedFds
  <2>7. CASE Kind = "file"
    <3>1. LeakedFds' = LeakedFds
      BY <2>4, <2>6, <2>7
    <3>2. LeakyAnswers' = LeakyAnswers
      BY <1>4, <1>5, <2>7
    <3> QED
      BY <3>1, <3>2, LeaksKept
  <2>8. CASE Kind # "file"
    <3>1. LeakedFds' = LeakedFds \cup {i}
      BY <2>2, <2>4, <2>6, <2>8
    <3>2. LeakyAnswers' = LeakyAnswers \cup {Current}
      BY <1>4, <1>5, <2>1, <2>8
    <3>3. IsFiniteSet(LeakedFds) /\ IsFiniteSet(LeakyAnswers)
      BY LeaksFinite
    <3>4. Cardinality(LeakedFds') = Cardinality(LeakedFds) + 1
      BY <2>6, <3>1, <3>3, FS_AddElement
    <3>5. Cardinality(LeakyAnswers') = Cardinality(LeakyAnswers) + 1
      BY <1>6, <3>2, <3>3, FS_AddElement
    <3>6. Cardinality(LeakedFds) = Cardinality(LeakyAnswers)
      BY LeaksFinite
    <3> QED
      BY <3>4, <3>5, <3>6 DEF DescriptorsLost, LeakedFds, LeakyAnswers
  <2> QED
    BY <2>7, <2>8
<1>10. ~RespondNoFd(t)
  BY DEF RespondNoFd
<1> QED
  BY <1>8, <1>9, <1>10

\* What a worker closes was not lost.
LEMMA LeakAtClose ==
    ASSUME Types, Types', Disciplined, OneRequest, FilesSound, DescriptorsLost,
           NEW t \in Threads, Close(t)
    PROVE  DescriptorsLost'
<1> DEFINE closed == {wk[t].fd, wk[t].file} \cap DOMAIN fd
<1>1. /\ Closing(t) /\ Current \in Connections
      /\ UNCHANGED <<env, asked, answers>>
      /\ \A s \in Threads : s # t => wk'[s] = wk[s]
  BY CloseIs
<1>2. /\ fd' = [i \in DOMAIN fd |-> IF i \in closed THEN Free ELSE fd[i]]
      /\ wk'[t].file = NoFd
  BY DEF Close, Types, WkType
<1>3. LeakyAnswers' = LeakyAnswers
  BY <1>1 DEF LeakyAnswers, NeverClosed, Connections
<1>4. ASSUME NEW i \in DOMAIN fd
      PROVE  Leaked(i)' <=> Leaked(i)
  <2>1. Threads' = Threads
    BY <1>1 DEF Threads
  <2>2. i # NoFd
    <3>1. DOMAIN fd = 1 .. env.nfds /\ env.nfds \in Nat
      BY EnvIs DEF Types, ServerType
    <3> QED
      BY <3>1 DEF NoFd
  <2>3. CASE i \in closed
    <3>1. ~Leaked(i)'
      BY <1>2, <2>3 DEF Leaked, Free, NoSocket
    <3>2. CASE i = wk[t].file
      BY <3>1, <3>2 DEF Leaked
    <3>3. CASE i = wk[t].fd
      <4>1. fd[i] = Current /\ Current \in Nat
        BY <1>1, <3>3, CurrentIs DEF Closing, OnlyAt
      <4>2. fd[i] # NoSocket
        BY <4>1 DEF NoSocket
      <4> QED
        BY <3>1, <4>2 DEF Leaked
    <3> QED
      BY <2>3, <3>2, <3>3
  <2>4. CASE i \notin closed
    <3>1. fd'[i] = fd[i] /\ wk[t].file # i
      BY <1>2, <2>4
    <3> QED
      BY <1>1, <1>2, <2>1, <2>2, <3>1 DEF Leaked
  <2> QED
    BY <2>3, <2>4
<1>5. LeakedFds' = LeakedFds
  <2>1. DOMAIN fd' = DOMAIN fd
    BY <1>2
  <2> QED
    BY <1>4, <2>1 DEF LeakedFds
<1>6. Disciplined' => Disciplined
  OBVIOUS
<1> QED
  BY <1>3, <1>5, <1>6, LeaksKept

\* Every step keeps the account.
LEMMA LeakStep ==
    /\ Types /\ DisciplinedInv /\ FilesSound /\ DescriptorsLost
    /\ FreeFds # {} /\ [Next]_vars
    => DescriptorsLost'
<1> SUFFICES ASSUME Types, Types', DisciplinedInv, FilesSound, DescriptorsLost,
                    FreeFds # {}, [Next]_vars, Disciplined'
             PROVE  DescriptorsLost'
  BY TypesStep DEF DescriptorsLost
<1>1. UNCHANGED env /\ Disciplined
  BY EnvKept DEF Disciplined
<1>2. CASE UNCHANGED <<fd, asked, answers>> /\ \A t \in Threads : wk'[t].file = wk[t].file
  <2>1. LeakedFds' = LeakedFds
    BY <1>1, <1>2, FdsKept
  <2>2. LeakyAnswers' = LeakyAnswers
    BY <1>2 DEF LeakyAnswers, NeverClosed, Connections
  <2> QED
    BY <1>1, <2>1, <2>2, LeaksKept
<1>3. ASSUME NEW u \in Users,
             (\E path \in Queries : Start(u, path)) \/ AskEntry(u),
             UNCHANGED serverVars
      PROVE  DescriptorsLost'
  <2>1. PICK path \in Paths : Connect(path) /\ UNCHANGED <<env, fs, shut, up>>
    BY <1>1, <1>3, AskIs DEF DisciplinedInv
  <2>2. /\ Connections = 1 .. Len(asked) /\ Len(asked) \in Nat
        /\ Connections' = 1 .. Len(asked) + 1
        /\ \A c \in Connections : answers'[c] = answers[c]
        /\ answers'[Len(asked) + 1] = <<>>
    <3>1. /\ Len(asked) \in Nat /\ Connections = 1 .. Len(asked)
          /\ Len(asked') = Len(asked) + 1
          /\ \A c \in Connections : answers'[c] = answers[c]
          /\ answers'[Len(asked) + 1] = <<>>
      BY <1>3, <2>1, ConnectTypes
    <3>2. Connections' = 1 .. Len(asked')
      BY CurrentIs DEF Types, NetType, Connections
    <3> QED
      BY <3>1, <3>2
  <2>3. \A c \in Connections' : NeverClosed(c)' <=> c \in Connections /\ NeverClosed(c)
    <3> SUFFICES ASSUME NEW c \in Connections'
                 PROVE  NeverClosed(c)' <=> c \in Connections /\ NeverClosed(c)
      OBVIOUS
    <3>1. CASE c \in Connections
      BY <2>2, <3>1 DEF NeverClosed
    <3>2. CASE c \notin Connections
      <4>1. c = Len(asked) + 1
        BY <2>2, <3>2
      <4>2. answers'[c] = <<>>
        BY <2>2, <4>1
      <4> QED
        BY <3>2, <4>2 DEF NeverClosed
    <3> QED
      BY <3>1, <3>2
  <2>4. Connections \subseteq Connections'
    BY <2>2
  <2>5. LeakyAnswers' = LeakyAnswers
    BY <2>3, <2>4 DEF LeakyAnswers
  <2>6. LeakedFds' = LeakedFds
    BY <1>3, <2>1, FdsKept DEF serverVars
  <2> QED
    BY <1>1, <2>5, <2>6, LeaksKept
<1>4. ASSUME NEW u \in Users, ClientStep(u), ~AskEntry(u), UNCHANGED serverVars
      PROVE  DescriptorsLost'
  BY <1>2, <1>4, AloneIs DEF netVars, serverVars
<1>5. CASE Accept
  <2>1. UNCHANGED <<wk, asked, answers>>
    BY <1>5 DEF Accept
  <2> PICK i : i = Min(FreeFds)
    OBVIOUS
  <2>2. /\ fd' = [fd EXCEPT ![i] = Head(backlog)] /\ backlog # <<>>
        /\ backlog \in Seq(Connections)
    BY <1>5 DEF Accept, Types, NetType
  <2>3. i \in DOMAIN fd /\ fd[i] = Free
    BY FreeFdIs DEF Types
  <2>4. Head(backlog) \in Connections
    BY <2>2
  <2>5. Head(backlog) # NoSocket
    BY <2>4, CurrentIs DEF NoSocket
  <2>6. \A j \in DOMAIN fd : fd'[j] = NoSocket <=> fd[j] = NoSocket
    BY <2>2, <2>3, <2>5 DEF Free, NoSocket
  <2>7. LeakedFds' = LeakedFds
    <3>1. DOMAIN fd' = DOMAIN fd /\ Threads' = Threads
      BY <1>1, <2>2 DEF Threads
    <3> QED
      BY <2>1, <2>6, <3>1 DEF LeakedFds, Leaked
  <2>8. LeakyAnswers' = LeakyAnswers
    BY <2>1 DEF LeakyAnswers, NeverClosed, Connections
  <2> QED
    BY <1>1, <2>7, <2>8, LeaksKept
<1>6. CASE AcceptorStep /\ ~Accept
  BY <1>2, <1>6 DEF AcceptorStep, WriteFd, WriteQuery, TestRear, SetFront,
                    LinkRear, SetRear, netVars
<1>7. ASSUME NEW t \in Threads, WorkerStep(t), up = "up"
      PROVE  DescriptorsLost'
  <2>1. OneRequest
    BY <1>1, <1>7 DEF DisciplinedInv
  <2>2. CASE TakeFront(t) \/ ReadNext(t) \/ AdvanceFront(t) \/ ClearRear(t) \/ ReadFd(t)
    <3>1. UNCHANGED <<fd, asked, answers>>
      BY <2>2 DEF TakeFront, ReadNext, AdvanceFront, ClearRear, ReadFd, netVars
    <3>2. wk \in [Threads -> [pc : WorkPc, node : Nodes, next : Nodes,
                              fd : Fds, file : Fds]]
      BY DEF Types, WkType
    <3>3. \A s \in Threads : wk'[s].file = wk[s].file
      BY <2>2, <3>2 DEF TakeFront, ReadNext, AdvanceFront, ClearRear, ReadFd
    <3> QED
      BY <1>2, <3>1, <3>3
  <2>3. CASE RespondNone(t) \/ RespondOpen(t) \/ RespondNoFd(t)
    BY <1>1, <2>1, <2>3, LeakAtRespond
  <2>4. CASE RespondCrash(t)
    BY <1>2, <2>4 DEF RespondCrash, Crash, serverVars
  <2>5. CASE Close(t)
    BY <1>1, <2>1, <2>5, LeakAtClose
  <2> QED
    BY <1>7, <2>2, <2>3, <2>4, <2>5 DEF WorkerStep
<1>8. CASE Interrupt \/ UNCHANGED vars
  BY <1>2, <1>8 DEF Interrupt, vars, netVars, serverVars
<1> QED
  BY <1>3, <1>4, <1>5, <1>6, <1>7, <1>8 DEF Next, ServerStep

\* At first nothing is lost.
LEMMA LeakInit == Init => FilesSound /\ DescriptorsLost
<1> SUFFICES ASSUME Init PROVE FilesSound /\ DescriptorsLost
  OBVIOUS
<1>1. FilesSound
  BY DEF Init, ServerInit, FilesSound
<1>2. Types
  BY TypesInit
<1>3. LeakedFds = {}
  BY DEF Init, ServerInit, LeakedFds, Leaked, Free, NoSocket
<1>4. LeakyAnswers = {}
  BY DEF Init, NetInit, LeakyAnswers, Connections
<1>5. DescriptorsLost
  BY <1>2, <1>3, <1>4, LeaksFinite
<1> QED
  BY <1>1, <1>5

\* As long as descriptors last, the server loses one with every directory and
\* every unsupported file it is asked for, and no other (server.h:87-190).
THEOREM LeaksAreCounted == Spec /\ [](FreeFds # {}) => []DescriptorsLost
BY DisciplinedAlways, LeakInit, FilesStep, LeakStep, PTL DEF Spec

=============================================================================
