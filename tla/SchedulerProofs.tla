--------------------------- MODULE SchedulerProofs ---------------------------
(***************************************************************************)
(* Theorems about Scheduler, for every set of users, every number of tasks *)
(* and every length of a suspension: the workload and the bounds of the    *)
(* runs are not assumed.                                                   *)
(***************************************************************************)
EXTENDS Scheduler, Groundwork, TLAPS

-----------------------------------------------------------------------------
(* The inductive invariant                                                  *)

\* A node of a process number given out, with a context of its own task.  Its
\* queuing_time is a multiple of 10, so that Quantum is always 1.
NodeSound(node, last) ==
    /\ node \in Nodes
    /\ node.pid <= last
    /\ node.ctx.at = "task"
    /\ node.ctx.pid = node.pid
    /\ node.queuing_time % 10 = 0

QueueSound(q, last) ==
    /\ q \in Seq(Nodes)
    /\ \A i \in DOMAIN q : NodeSound(q[i], last)
    /\ \A i, j \in DOMAIN q : q[i].pid = q[j].pid => i = j

\* A task is current from its dispatch on until the scheduler has linked its
\* node again; as long as its code has not ended or suspended itself it has
\* one tick left.
CurrentSound ==
    curr_task_node # Null =>
        /\ NodeSound(curr_task_node, pid)
        /\ ~curr_task_node.freed
        /\ \A i \in DOMAIN queue : queue[i].pid # curr_task_node.pid
        /\ simulation_running
        /\ scheduler = Ctx("after_task")
        /\ cpu.at \in {"task", "shell"} => /\ cur_time_quantum = 1
                                           /\ curr_task_node.state = "READY"

CpuSound ==
    /\ shellmode <=> cpu = Shell
    /\ cpu.at # "none"
    /\ cpu.at = "task" => /\ curr_task_node # Null
                          /\ cpu.pid = curr_task_node.pid
    /\ cpu.at = "idle" => curr_task_node = Null
    /\ cpu.at \in {"loop", "after_task"} => cpu = scheduler

\* The scheduler has a context from the first start on, and one of its own
\* unless Ctrl-Z came while no task was current.
SchedulerSound ==
    /\ scheduler.at \in {"none", "loop", "after_task", "idle"}
    /\ scheduler.at = "none" => cpu = Shell /\ ~simulation_running
    /\ scheduler.at = "idle" => user.ctrlZWhileIdle
    /\ cpu.at = "idle" => scheduler.at \in {"loop", "idle"}

FreedSound == ~user.removeBetween => \A i \in DOMAIN queue : ~queue[i].freed

Inv == /\ TypeOK
       /\ user \in Users
       /\ QueueSound(queue, pid)
       /\ CurrentSound
       /\ CpuSound
       /\ SchedulerSound
       /\ FreedSound
       /\ IdleContext

-----------------------------------------------------------------------------
(* Contexts, nodes and programs                                             *)

\* A context that is not a task's is told by its place alone.
LEMMA OtherContexts ==
    ASSUME NEW c \in Contexts, c.at # "task"
    PROVE  c = Ctx(c.at)
BY DEF Contexts, Ctx

\* A context that is resumed is one of the program's.
LEMMA CtxType ==
    ASSUME NEW at \in {"shell", "idle", "loop", "after_task", "none"}
    PROVE  Ctx(at) \in Contexts /\ Ctx(at).at = at
BY DEF Contexts, Ctx

\* NULL is told from a node by its task number.
LEMMA NullIsNoNode == Null \notin Nodes /\ Null.pid = 0
BY DEF Null, Nodes, ProcessNumbers

\* A task makes at most NCreate + 3 calls, and those of each kind of program.
LEMMA ProgramLength ==
    ASSUME NEW name \in TaskNames
    PROVE  \E n \in Nat : n <= NCreate + 3 /\ DOMAIN Program(name) = 1 .. n
<1>0. NCreate \in Nat
  BY UserAssumption
<1>1. CASE name \in {"task1", "task2"}
  <2> WITNESS 1 \in Nat
  <2> QED
    BY <1>0, <1>1 DEF Program
<1>2. CASE name \in {"task3", "task4"}
  <2> WITNESS 1 \in Nat
  <2> QED
    BY <1>0, <1>2 DEF Program
<1>3. CASE name = "task5"
  <2> WITNESS 3 \in Nat
  <2> QED
    BY <1>0, <1>3 DEF Program
<1>4. CASE name = "task6"
  <2> USE <1>0
  <2> WITNESS NCreate + 2 \in Nat
  <2> QED
    BY <1>0, <1>4 DEF Program
<1> QED
  BY <1>1, <1>2, <1>3, <1>4 DEF TaskNames

\* A new node is sound.
LEMMA NewNodeSound ==
    ASSUME NEW last \in Nat, NEW name \in TaskNames, NEW quantum \in Quanta,
           NEW priority \in Priorities
    PROVE  /\ NodeSound(NewNode(last + 1, name, quantum, priority), last + 1)
           /\ NewNode(last + 1, name, quantum, priority).pid = last + 1
           /\ ~NewNode(last + 1, name, quantum, priority).freed
           /\ NewNode(last + 1, name, quantum, priority).state = "READY"
<1>1. TaskCtx(last + 1, name, 1, 0) \in Contexts
  BY UserAssumption DEF TaskCtx, Contexts, ProcessNumbers
<1> QED
  BY <1>1 DEF NodeSound, NewNode, Nodes, ProcessNumbers, TaskCtx

-----------------------------------------------------------------------------
(* Queues                                                                   *)

QueueHas(q, p) == \E i \in DOMAIN q : q[i].pid = p

\* Without a node, a queue is as sound as before and no longer has its task.
LEMMA RemoveAtSound ==
    ASSUME NEW last, NEW q, QueueSound(q, last), NEW i \in DOMAIN q
    PROVE  /\ QueueSound(RemoveAt(q, i), last)
           /\ \A j \in DOMAIN RemoveAt(q, i) : \E k \in DOMAIN q :
                 k # i /\ RemoveAt(q, i)[j] = q[k]
           /\ \A k \in DOMAIN q : k # i =>
                 \E j \in DOMAIN RemoveAt(q, i) : RemoveAt(q, i)[j] = q[k]
           /\ ~QueueHas(RemoveAt(q, i), q[i].pid)
<1> DEFINE r == RemoveAt(q, i)
           From(j) == IF j < i THEN j ELSE j + 1
<1>1. q \in Seq(Nodes) /\ DOMAIN q = 1 .. Len(q) /\ Len(q) \in Nat
  BY DEF QueueSound
<1>2. /\ r \in Seq(Nodes) /\ DOMAIN r = 1 .. Len(q) - 1
      /\ \A j \in DOMAIN r : r[j] = q[From(j)]
  BY <1>1, RemoveAtIs
<1> HIDE DEF r
<1>3. \A j \in DOMAIN r : From(j) \in DOMAIN q /\ From(j) # i
  BY <1>1, <1>2
<1>4. \A j, k \in DOMAIN r : From(j) = From(k) => j = k
  BY <1>2
<1>5. \A k \in DOMAIN q : k # i => \E j \in DOMAIN r : From(j) = k
  <2> SUFFICES ASSUME NEW k \in DOMAIN q, k # i
               PROVE  \E j \in DOMAIN r : From(j) = k
    OBVIOUS
  <2>1. CASE k < i
    <3>1. k \in DOMAIN r /\ From(k) = k
      BY <1>1, <1>2, <2>1
    <3> QED
      BY <3>1
  <2>2. CASE i < k
    <3>1. k - 1 \in DOMAIN r /\ From(k - 1) = k
      BY <1>1, <1>2, <2>2
    <3> QED
      BY <3>1
  <2> QED
    BY <1>1, <2>1, <2>2
<1> HIDE DEF From
<1>6. \A j \in DOMAIN r : NodeSound(r[j], last)
  BY <1>2, <1>3 DEF QueueSound
<1>7. \A j, k \in DOMAIN r : r[j].pid = r[k].pid => j = k
  BY <1>2, <1>3, <1>4 DEF QueueSound
<1>8. \A j \in DOMAIN r : \E k \in DOMAIN q : k # i /\ r[j] = q[k]
  BY <1>2, <1>3
<1>9. \A k \in DOMAIN q : k # i => \E j \in DOMAIN r : r[j] = q[k]
  BY <1>2, <1>5
<1>10. ~QueueHas(r, q[i].pid)
  BY <1>8 DEF QueueHas, QueueSound
<1> QED
  BY <1>2, <1>6, <1>7, <1>8, <1>9, <1>10 DEF QueueSound, r

\* Linking the node of a task that is not queued, over freed nodes or not.
LEMMA EnQueueSound ==
    ASSUME NEW last \in Nat, NEW q, QueueSound(q, last), NEW node,
           NEW new \in Nat, last <= new,
           NodeSound(node, new), ~QueueHas(q, node.pid), NEW r \in EnQueue(q, node)
    PROVE  /\ QueueSound(r, new)
           /\ \A i \in DOMAIN r : r[i] = node \/ \E j \in DOMAIN q : r[i] = q[j]
           /\ \E i \in DOMAIN r : r[i] = node
           /\ (\A i \in DOMAIN q : ~q[i].freed) =>
                 /\ r = Append(q, node)
                 /\ \A j \in DOMAIN q : \E i \in DOMAIN r : r[i] = q[j]
<1>1. /\ q \in Seq(Nodes) /\ DOMAIN q = 1 .. Len(q) /\ Len(q) \in Nat
      /\ node \in Nodes
  BY DEF QueueSound, NodeSound
\* The first n nodes of q are kept.
<1>2. PICK n \in 0 .. Len(q) :
         /\ r \in Seq(Nodes) /\ DOMAIN r = 1 .. n + 1
         /\ \A i \in 1 .. n : r[i] = q[i]
         /\ r[n + 1] = node
         /\ (\A i \in DOMAIN q : ~q[i].freed) => n = Len(q) /\ r = Append(q, node)
  <2>1. CASE r = Append(q, node)
    <3> WITNESS Len(q) \in 0 .. Len(q)
    <3> QED
      BY <1>1, <2>1
  <2>2. CASE \E k \in DOMAIN q : q[k].freed /\ r = Append(SubSeq(q, 1, k - 1), node)
    <3> PICK k \in DOMAIN q : q[k].freed /\ r = Append(SubSeq(q, 1, k - 1), node)
      BY <2>2
    <3>1. k - 1 \in 0 .. Len(q)
      BY <1>1
    <3>2. /\ SubSeq(q, 1, k - 1) \in Seq(Nodes)
          /\ Len(SubSeq(q, 1, k - 1)) = k - 1
          /\ \A i \in 1 .. k - 1 : SubSeq(q, 1, k - 1)[i] = q[i]
      BY <1>1, <3>1
    <3> WITNESS k - 1 \in 0 .. Len(q)
    <3> QED
      BY <1>1, <3>1, <3>2
  <2> QED
    BY <2>1, <2>2 DEF EnQueue
<1>3. \A i \in DOMAIN r : \/ i = n + 1 /\ r[i] = node
                          \/ i \in DOMAIN q /\ r[i] = q[i]
  <2>1. \A i \in 1 .. n + 1 : i = n + 1 \/ i \in 1 .. n
    BY <1>1
  <2>2. \A i \in 1 .. n : i \in DOMAIN q
    BY <1>1
  <2> QED
    BY <1>2, <2>1, <2>2, Zenon
<1>4. \A i \in DOMAIN r : r[i].pid = node.pid => i = n + 1
  BY <1>3 DEF QueueHas
<1>5. \A i \in DOMAIN r : NodeSound(r[i], new)
  <2>1. \A i \in DOMAIN q : NodeSound(q[i], new)
    BY DEF QueueSound, NodeSound, Nodes, ProcessNumbers
  <2> QED
    BY <1>3, <2>1
<1>6. \A i, j \in DOMAIN r : r[i].pid = r[j].pid => i = j
  BY <1>3, <1>4 DEF QueueSound, QueueHas
<1>7. QueueSound(r, new)
  BY <1>2, <1>5, <1>6 DEF QueueSound
<1>8. \A i \in DOMAIN r : r[i] = node \/ \E j \in DOMAIN q : r[i] = q[j]
  BY <1>3
<1>9. n + 1 \in DOMAIN r /\ r[n + 1] = node
  BY <1>2
<1>10. ASSUME \A i \in DOMAIN q : ~q[i].freed
       PROVE  /\ r = Append(q, node)
              /\ \A j \in DOMAIN q : \E i \in DOMAIN r : r[i] = q[j]
  <2>1. n = Len(q) /\ r = Append(q, node)
    BY <1>2, <1>10
  <2>2. \A j \in DOMAIN q : j \in 1 .. n /\ j \in DOMAIN r
    BY <1>1, <1>2, <2>1
  <2> QED
    BY <1>2, <2>1, <2>2
<1> QED
  BY <1>7, <1>8, <1>9, <1>10

\* Nodes that change where they are, and stay sound, leave the queue sound.
LEMMA UpdateSound ==
    ASSUME NEW last, NEW q, QueueSound(q, last),
           NEW r, r = [i \in DOMAIN q |-> r[i]],
           \A i \in DOMAIN q : NodeSound(r[i], last) /\ r[i].pid = q[i].pid
    PROVE  QueueSound(r, last)
<1>1. q \in Seq(Nodes) /\ DOMAIN q = 1 .. Len(q) /\ Len(q) \in Nat
  BY DEF QueueSound
<1>2. r \in [1 .. Len(q) -> Nodes]
  BY <1>1 DEF NodeSound
<1>3. r \in Seq(Nodes) /\ DOMAIN r = DOMAIN q
  BY <1>1, <1>2
<1> QED
  BY <1>3 DEF QueueSound

-----------------------------------------------------------------------------
(* The shell                                                                *)

\* Where the program is, and what that says of its contexts.
LEMMA Places ==
    ASSUME Inv
    PROVE  /\ cpu \in Contexts /\ scheduler \in Contexts
           /\ cpu.at \in {"shell", "idle", "loop", "after_task", "none", "task"}
           /\ cpu.at # "task" => cpu = Ctx(cpu.at)
           /\ scheduler = Ctx(scheduler.at)
           /\ Shell.at = "shell" /\ Idle.at = "idle"
           /\ cpu.at = "shell" <=> cpu = Shell
           /\ pid \in Nat
           /\ curr_task_node \in Nodes \cup {Null}
<1>1. cpu \in Contexts /\ scheduler \in Contexts
  BY DEF Inv, TypeOK
<1>2. cpu.at \in {"shell", "idle", "loop", "after_task", "none", "task"}
  BY <1>1 DEF Contexts
<1>3. cpu.at # "task" => cpu = Ctx(cpu.at)
  BY <1>1, OtherContexts
<1>4. scheduler = Ctx(scheduler.at)
  BY <1>1, OtherContexts DEF Inv, SchedulerSound
<1>5. Shell.at = "shell" /\ Idle.at = "idle"
  BY DEF Shell, Idle, Ctx
<1> QED
  BY <1>1, <1>2, <1>3, <1>4, <1>5 DEF Inv, TypeOK, Shell

\* The number of a new task is that of no other, and its node is linked at
\* the rear of what is left of the queue.
LEMMA LinkNewSound ==
    ASSUME Inv, NEW name \in TaskNames, NEW quantum \in Quanta,
           NEW priority \in Priorities, pid' = pid + 1,
           queue' \in EnQueue(queue, NewNode(pid + 1, name, quantum, priority))
    PROVE  /\ pid' \in Nat
           /\ queue' \in Seq(Nodes)
           /\ QueueSound(queue', pid')
           /\ \A i \in DOMAIN queue' : queue'[i].pid <= pid =>
                 \E j \in DOMAIN queue : queue'[i] = queue[j]
           /\ (\A i \in DOMAIN queue : ~queue[i].freed) =>
                 \A i \in DOMAIN queue' : ~queue'[i].freed
<1> DEFINE node == NewNode(pid + 1, name, quantum, priority)
<1>1. pid \in Nat /\ QueueSound(queue, pid)
  BY DEF Inv, TypeOK
<1>2. NodeSound(node, pid + 1) /\ node.pid = pid + 1 /\ ~node.freed
  BY <1>1, NewNodeSound
<1> HIDE DEF node
<1>3. ~QueueHas(queue, node.pid)
  BY <1>1, <1>2 DEF QueueHas, QueueSound, NodeSound, Nodes, ProcessNumbers
<1>4. /\ QueueSound(queue', pid + 1)
      /\ \A i \in DOMAIN queue' :
            queue'[i] = node \/ \E j \in DOMAIN queue : queue'[i] = queue[j]
  BY <1>1, <1>2, <1>3, EnQueueSound DEF node
<1> QED
  BY <1>1, <1>2, <1>4 DEF QueueSound

\* A current task stays one when another task is created.
LEMMA CurrentKept ==
    ASSUME Inv, pid' \in Nat, pid <= pid', curr_task_node # Null,
           \A i \in DOMAIN queue' : queue'[i].pid <= pid =>
              \E j \in DOMAIN queue : queue'[i].pid = queue[j].pid
    PROVE  /\ NodeSound(curr_task_node, pid')
           /\ \A i \in DOMAIN queue' : queue'[i].pid # curr_task_node.pid
<1>1. NodeSound(curr_task_node, pid) /\ pid \in Nat
  BY DEF Inv, CurrentSound, TypeOK
<1>2. NodeSound(curr_task_node, pid')
  BY <1>1 DEF NodeSound, Nodes, ProcessNumbers
<1> QED
  BY <1>1, <1>2 DEF NodeSound, Inv, CurrentSound

\* "add" at the prompt: the new task is the last of the queue.
LEMMA AddSound ==
    ASSUME Inv, NEW a \in user.adds, Add(a), user' = user
    PROVE  Inv'
<1>1. a.name \in TaskNames /\ a.time_quantum \in Quanta /\ a.priority \in Priorities
  BY UserAssumption DEF Inv
<1>2. /\ pid' \in Nat
      /\ queue' \in Seq(Nodes)
      /\ QueueSound(queue', pid')
      /\ \A i \in DOMAIN queue' : queue'[i].pid <= pid =>
            \E j \in DOMAIN queue : queue'[i] = queue[j]
      /\ (\A i \in DOMAIN queue : ~queue[i].freed) =>
            \A i \in DOMAIN queue' : ~queue'[i].freed
  <2>1. /\ pid' = pid + 1
        /\ queue' \in EnQueue(queue,
                         NewNode(pid + 1, a.name, a.time_quantum, a.priority))
    BY DEF Add
  <2> QED
    BY <1>1, <2>1, LinkNewSound
<1>3. TypeOK'
  BY <1>2 DEF Inv, TypeOK, Add
<1>4. CurrentSound'
  <2>1. pid <= pid'
    <3>1. pid' = pid + 1
      BY DEF Add
    <3> QED
      BY <3>1, Places
  <2>2. curr_task_node # Null =>
           /\ NodeSound(curr_task_node, pid')
           /\ \A i \in DOMAIN queue' : queue'[i].pid # curr_task_node.pid
    BY <1>2, <2>1, CurrentKept
  <2> QED
    BY <2>2 DEF Inv, CurrentSound, Add
<1>5. CpuSound' /\ SchedulerSound' /\ IdleContext'
  BY DEF Inv, CpuSound, SchedulerSound, IdleContext, Add
<1>6. FreedSound'
  BY <1>2 DEF Inv, FreedSound
<1> QED
  BY <1>2, <1>3, <1>4, <1>5, <1>6 DEF Inv

\* A node that is freed and stays linked keeps the rest.
LEMMA FreedIsSound ==
    ASSUME NEW last, NEW n, NodeSound(n, last)
    PROVE  LET freed == [n EXCEPT !.freed = TRUE]
           IN  NodeSound(freed, last) /\ freed.pid = n.pid
BY DEF NodeSound, Nodes

\* removeNode() takes out a node, or marks one freed.
LEMMA RemoveNodeSound ==
    ASSUME NEW last, NEW q, QueueSound(q, last), NEW i \in DOMAIN q
    PROVE  /\ QueueSound(RemoveNode(q, i), last)
           /\ i \in {1, Len(q)} => RemoveNode(q, i) = RemoveAt(q, i)
<1>1. q \in Seq(Nodes) /\ q # <<>> /\ DOMAIN q = 1 .. Len(q) /\ Len(q) \in Nat
  BY DEF QueueSound
<1>2. CASE i \in {1, Len(q)}
  <2>1. RemoveNode(q, i) = RemoveAt(q, i)
    BY <1>1, <1>2, TailIs, FrontIs DEF RemoveNode
  <2> QED
    BY <2>1, RemoveAtSound
<1>3. CASE i \notin {1, Len(q)}
  <2> DEFINE r == [q EXCEPT ![i].freed = TRUE]
  <2>1. RemoveNode(q, i) = r
    BY <1>3 DEF RemoveNode
  <2>2. r = [j \in DOMAIN q |-> r[j]]
    OBVIOUS
  <2>3. \A j \in DOMAIN q : NodeSound(r[j], last) /\ r[j].pid = q[j].pid
    <3> SUFFICES ASSUME NEW j \in DOMAIN q
                 PROVE  NodeSound(r[j], last) /\ r[j].pid = q[j].pid
      OBVIOUS
    <3>1. NodeSound(q[j], last)
      BY DEF QueueSound
    <3>2. r[j] = q[j] \/ r[j] = [q[j] EXCEPT !.freed = TRUE]
      OBVIOUS
    <3> HIDE DEF r
    <3> QED
      BY <3>1, <3>2, FreedIsSound
  <2> HIDE DEF r
  <2>4. QueueSound(r, last)
    BY <2>2, <2>3, UpdateSound
  <2> QED
    BY <1>3, <2>1, <2>4
<1> QED
  BY <1>2, <1>3

\* "remove" of a task that is queued.
LEMMA RemoveQueuedSound ==
    ASSUME Inv, NEW p, RemoveQueued(p), user' = user
    PROVE  Inv'
<1> PICK i \in DOMAIN queue : /\ i \notin {1, Len(queue)} => user.removeBetween
                              /\ queue' = RemoveNode(queue, i)
  BY DEF RemoveQueued
<1>1. QueueSound(queue, pid)
  BY DEF Inv
<1>2. QueueSound(queue', pid') /\ pid' = pid
  BY <1>1, RemoveNodeSound DEF RemoveQueued
<1>3. TypeOK'
  BY <1>2 DEF Inv, TypeOK, RemoveQueued, QueueSound
<1>4. CurrentSound' /\ CpuSound' /\ SchedulerSound' /\ IdleContext'
  BY DEF Inv, CurrentSound, CpuSound, SchedulerSound, IdleContext, RemoveQueued
<1>5. FreedSound'
  <2> SUFFICES ASSUME ~user.removeBetween
               PROVE  \A j \in DOMAIN queue' : ~queue'[j].freed
    BY DEF FreedSound
  <2>1. queue' = RemoveAt(queue, i)
    BY <1>1, RemoveNodeSound
  <2> QED
    BY <1>1, <2>1, RemoveAtSound DEF Inv, FreedSound
<1> QED
  BY <1>2, <1>3, <1>4, <1>5 DEF Inv

\* "remove" of the task that was running: its copy of the node is cleared.
LEMMA RemoveCurrentSound ==
    ASSUME Inv, NEW p, RemoveCurrent(p), user' = user
    PROVE  Inv'
<1>1. cpu.at = "shell" /\ cpu' = cpu
  BY Places DEF RemoveCurrent, AtPrompt
<1> QED
  BY <1>1 DEF Inv, TypeOK, CurrentSound, CpuSound, SchedulerSound, FreedSound,
              IdleContext, RemoveCurrent

\* "start": the scheduler goes on, or for the first time begins.
LEMMA StartSound ==
    ASSUME Inv, Start, user' = user
    PROVE  Inv'
<1>1. /\ cpu = Shell /\ ~shellmode'
      /\ scheduler' = IF simulation_running THEN scheduler ELSE Ctx("loop")
      /\ cpu' = IF curr_task_node = Null THEN scheduler' ELSE curr_task_node.ctx
      /\ UNCHANGED <<pid, queue, curr_task_node, cur_time_quantum,
                     simulation_running, idle_ctx, fault>>
  BY DEF Start, AtPrompt
<1>2. Shell.at = "shell" /\ cpu.at = "shell"
  BY <1>1, Places
<1>3. scheduler'.at \in {"loop", "after_task", "idle"} /\ scheduler' \in Contexts
  BY <1>1, CtxType DEF Inv, SchedulerSound, TypeOK
<1>4. CASE curr_task_node = Null
  <2>1. cpu' = scheduler' /\ cpu'.at # "task" /\ cpu' # Shell
    BY <1>1, <1>2, <1>3, <1>4
  <2>2. TypeOK'
    BY <1>1, <1>3, <2>1 DEF Inv, TypeOK, Start
  <2>3. scheduler'.at = "idle" => user.ctrlZWhileIdle
    BY <1>1, CtxType DEF Inv, SchedulerSound
  <2> QED
    BY <1>1, <1>2, <1>3, <1>4, <2>1, <2>2, <2>3
    DEF Inv, CurrentSound, CpuSound, SchedulerSound, FreedSound, IdleContext
<1>5. CASE curr_task_node # Null
  <2>1. scheduler' = scheduler /\ scheduler = Ctx("after_task")
    BY <1>1, <1>5 DEF Inv, CurrentSound
  <2>2. NodeSound(curr_task_node, pid) /\ cpu' = curr_task_node.ctx
    BY <1>1, <1>5 DEF Inv, CurrentSound
  <2>3. /\ cpu' \in Contexts /\ cpu'.at = "task"
        /\ cpu'.pid = curr_task_node.pid /\ cpu' # Shell
    BY <1>2, <2>2 DEF NodeSound, Nodes
  <2>4. TypeOK'
    BY <1>1, <1>3, <2>3 DEF Inv, TypeOK, Start
  <2>5. CurrentSound'
    BY <1>1, <1>2, <1>5, <2>1 DEF Inv, CurrentSound
  <2>6. CpuSound'
    BY <1>1, <1>2, <1>5, <2>3 DEF CpuSound
  <2>7. SchedulerSound'
    BY <1>3, <2>1, <2>3 DEF Inv, SchedulerSound
  <2> QED
    BY <1>1, <2>4, <2>5, <2>6, <2>7 DEF Inv, FreedSound, IdleContext
<1> QED
  BY <1>4, <1>5

\* A program that has crashed goes nowhere.
LEMMA CrashSound ==
    ASSUME Inv, Crash, user' = user
    PROVE  Inv'
BY DEF Inv, TypeOK, CurrentSound, CpuSound, SchedulerSound, FreedSound,
       IdleContext, Crash

\* main() begins at the prompt, with an empty queue.
LEMMA InitSound == Init => Inv
<1> SUFFICES ASSUME Init PROVE Inv
  OBVIOUS
<1>1. /\ cpu = Ctx("shell") /\ scheduler = Ctx("none") /\ idle_ctx = Ctx("idle")
      /\ curr_task_node = Null
  BY DEF Init, Shell, Idle
<1>2. user \in Users /\ pid = 0 /\ queue = <<>> /\ cur_time_quantum \in Int
  BY SMT DEF Init
<1>3. shellmode = TRUE /\ simulation_running = FALSE /\ fault = "none"
  BY SMT DEF Init
<1>4. shellmode \in BOOLEAN /\ simulation_running \in BOOLEAN
  BY <1>3, Zenon
<1>5. shellmode /\ ~simulation_running
  BY <1>3, Zenon
<1>6. /\ Ctx("shell").at = "shell" /\ Ctx("none").at = "none"
      /\ Ctx("idle").at = "idle"
      /\ {Ctx("shell"), Ctx("none"), Ctx("idle")} \subseteq Contexts
  BY CtxType
<1>7. DOMAIN queue = {} /\ queue \in Seq(Nodes)
  BY <1>2
<1>8. TypeOK
  BY <1>1, <1>2, <1>3, <1>4, <1>5, <1>6, <1>7 DEF TypeOK
<1>9. QueueSound(queue, pid) /\ FreedSound
  BY <1>7 DEF QueueSound, FreedSound
<1>10. CurrentSound /\ IdleContext
  BY <1>1 DEF CurrentSound, IdleContext, Idle
<1>11. CpuSound
  BY <1>1, <1>5, <1>6 DEF CpuSound, Shell
<1>12. SchedulerSound
  BY <1>1, <1>5, <1>6 DEF SchedulerSound, Shell
<1> QED
  BY <1>2, <1>8, <1>9, <1>10, <1>11, <1>12 DEF Inv

-----------------------------------------------------------------------------
(* The scheduler                                                            *)

\* The scheduler runs where it left off, and not at the prompt.
LEMMA InSchedulerIs ==
    ASSUME Inv, InScheduler
    PROVE  /\ cpu = scheduler /\ ~shellmode /\ cpu # Shell
           /\ scheduler.at \in {"loop", "after_task"}
           /\ curr_task_node # Null => cpu.at = "after_task"
<1>1. cpu.at \in {"loop", "after_task"} /\ cpu # Shell
  BY Places DEF InScheduler
<1>2. Ctx("after_task").at = "after_task"
  BY CtxType
<1> QED
  BY <1>1, <1>2 DEF Inv, CpuSound, CurrentSound

\* The queue with the node of the task that just ran linked again.
LEMMA RequeuedSound ==
    ASSUME Inv, InScheduler, NEW q \in Requeued
    PROVE  /\ QueueSound(q, pid)
           /\ curr_task_node = Null => q = queue
           /\ \A i \in DOMAIN q :
                 \/ curr_task_node # Null /\ q[i] = curr_task_node
                 \/ \E j \in DOMAIN queue : q[i] = queue[j]
           /\ curr_task_node # Null => \E i \in DOMAIN q : q[i] = curr_task_node
           /\ ~user.removeBetween =>
                 /\ \A i \in DOMAIN q : ~q[i].freed
                 /\ \A j \in DOMAIN queue : \E i \in DOMAIN q : q[i] = queue[j]
<1>1. QueueSound(queue, pid) /\ pid \in Nat
  BY DEF Inv, TypeOK
<1>2. CASE curr_task_node = Null
  <2>1. q = queue
    BY <1>2 DEF Requeued
  <2> QED
    BY <1>1, <1>2, <2>1 DEF Inv, FreedSound
<1>3. CASE curr_task_node # Null
  <2>1. q \in EnQueue(queue, curr_task_node)
    BY <1>3, InSchedulerIs DEF Requeued
  <2>2. /\ NodeSound(curr_task_node, pid) /\ ~curr_task_node.freed
        /\ ~QueueHas(queue, curr_task_node.pid)
    BY <1>3 DEF Inv, CurrentSound, QueueHas
  <2>3. /\ QueueSound(q, pid)
        /\ \A i \in DOMAIN q :
              q[i] = curr_task_node \/ \E j \in DOMAIN queue : q[i] = queue[j]
        /\ \E i \in DOMAIN q : q[i] = curr_task_node
        /\ (\A i \in DOMAIN queue : ~queue[i].freed) =>
              \A j \in DOMAIN queue : \E i \in DOMAIN q : q[i] = queue[j]
    BY <1>1, <2>1, <2>2, EnQueueSound
  <2>4. ~user.removeBetween => \A i \in DOMAIN queue : ~queue[i].freed
    BY DEF Inv, FreedSound
  <2> QED
    BY <1>3, <2>2, <2>3, <2>4
<1> QED
  BY <1>2, <1>3

\* What a dispatch does once queue and node are chosen.
Dispatches(q, i) ==
    /\ Pops(q, i)
    /\ ~ReadsFreed(q, PopReads(q, i))
    /\ queue' = RemoveAt(q, i)
    /\ curr_task_node' = [q[i] EXCEPT !.state = "READY"]
    /\ cur_time_quantum' = Quantum(q[i])
    /\ cpu' = q[i].ctx

\* The node that is picked is a live one.
LEMMA PickedSound ==
    ASSUME NEW last, NEW q, QueueSound(q, last), NEW i \in DOMAIN q,
           ~ReadsFreed(q, PopReads(q, i))
    PROVE  /\ ~q[i].freed
           /\ Quantum(q[i]) = 1
           /\ NodeSound([q[i] EXCEPT !.state = "READY"], last)
           /\ [q[i] EXCEPT !.state = "READY"].pid = q[i].pid
           /\ [q[i] EXCEPT !.state = "READY"].state = "READY"
           /\ [q[i] EXCEPT !.state = "READY"].priority = q[i].priority
           /\ ~[q[i] EXCEPT !.state = "READY"].freed
           /\ q[i].ctx \in Contexts /\ q[i].ctx.at = "task"
           /\ q[i].ctx.pid = q[i].pid
<1>1. NodeSound(q[i], last) /\ q[i] \in Nodes
  BY DEF QueueSound, NodeSound
<1>2. i \in 1 .. Len(q) /\ Len(q) \in Nat
  BY DEF QueueSound
<1>3. ~q[i].freed
  <2>1. i \in 1 .. PopReads(q, i)
    BY <1>2 DEF PopReads
  <2> QED
    BY <2>1 DEF ReadsFreed
<1>4. Quantum(q[i]) = 1
  BY <1>1 DEF NodeSound, Nodes, Quantum
<1> QED
  BY <1>1, <1>3, <1>4 DEF NodeSound, Nodes

\* The scheduler requeues the task that ran and hands over to another.
LEMMA DispatchSound ==
    ASSUME Inv, Dispatch, user' = user
    PROVE  Inv'
<1> PICK q \in Requeued : \E i \in DOMAIN q : Dispatches(q, i)
  BY DEF Dispatch, Dispatches
<1> PICK i \in DOMAIN q : Dispatches(q, i)
  OBVIOUS
<1>1. InScheduler
  BY DEF Dispatch
<1>2. /\ QueueSound(q, pid)
      /\ ~user.removeBetween => \A k \in DOMAIN q : ~q[k].freed
  BY <1>1, RequeuedSound
<1>3. ~ReadsFreed(q, PopReads(q, i))
  BY DEF Dispatches
<1>4. /\ curr_task_node' = [q[i] EXCEPT !.state = "READY"]
      /\ queue' = RemoveAt(q, i)
      /\ cur_time_quantum' = Quantum(q[i])
      /\ cpu' = q[i].ctx
      /\ scheduler' = Ctx("after_task") /\ simulation_running' = TRUE
      /\ UNCHANGED <<pid, shellmode, idle_ctx, fault>>
  BY DEF Dispatches, Dispatch
<1>5. /\ NodeSound(curr_task_node', pid) /\ curr_task_node'.pid = q[i].pid
      /\ curr_task_node'.state = "READY" /\ ~curr_task_node'.freed
      /\ cur_time_quantum' = 1
      /\ cpu' \in Contexts /\ cpu'.at = "task" /\ cpu'.pid = q[i].pid
  BY <1>2, <1>3, <1>4, PickedSound
<1>6. /\ QueueSound(queue', pid)
      /\ \A j \in DOMAIN queue' : \E k \in DOMAIN q : queue'[j] = q[k]
      /\ ~QueueHas(queue', q[i].pid)
  BY <1>2, <1>4, RemoveAtSound
<1>7. curr_task_node' \in Nodes /\ curr_task_node' # Null
  BY <1>5, NullIsNoNode DEF NodeSound
<1>8. scheduler' \in Contexts /\ scheduler'.at = "after_task"
  BY <1>4, CtxType
<1>9. TypeOK'
  <2>1. simulation_running' \in BOOLEAN
    BY <1>4, Zenon
  <2>2. UNCHANGED <<pid, shellmode, idle_ctx, fault>> /\ cur_time_quantum' \in Int
    BY <1>4, <1>5
  <2> QED
    BY <1>5, <1>6, <1>7, <1>8, <2>1, <2>2 DEF Inv, TypeOK, QueueSound
<1>10. CurrentSound'
  BY <1>4, <1>5, <1>6 DEF CurrentSound, QueueHas
<1>11. CpuSound'
  <2>1. cpu' # Shell
    BY <1>5, Places
  <2> QED
    BY <1>1, <1>4, <1>5, <1>7, <2>1, InSchedulerIs DEF CpuSound
<1>12. SchedulerSound' /\ IdleContext'
  BY <1>4, <1>5, <1>8 DEF Inv, SchedulerSound, IdleContext
<1>13. FreedSound'
  BY <1>2, <1>6 DEF FreedSound
<1> QED
  BY <1>4, <1>6, <1>9, <1>10, <1>11, <1>12, <1>13 DEF Inv

\* The scheduler hands over to the idle loop or to the shell.
LEMMA NoTaskSound ==
    ASSUME Inv, InScheduler, user' = user, RunIdle \/ EndSimulation
    PROVE  Inv'
<1> PICK q \in Requeued : queue' = q
  BY DEF RunIdle, EndSimulation
<1>1. /\ QueueSound(queue', pid)
      /\ ~user.removeBetween => \A k \in DOMAIN queue' : ~queue'[k].freed
  BY RequeuedSound
<1>2. curr_task_node' = Null /\ UNCHANGED <<pid, idle_ctx, fault>>
  BY DEF RunIdle, EndSimulation
<1>3. idle_ctx = Idle /\ idle_ctx \in Contexts
  BY DEF Inv, IdleContext, TypeOK
<1>4. /\ cpu' \in Contexts /\ scheduler' \in Contexts /\ cpu'.at \in {"idle", "shell"}
      /\ scheduler'.at \in {"loop", "after_task"}
      /\ cpu'.at = "idle" => scheduler'.at = "loop"
  BY <1>3, Places, CtxType, InSchedulerIs DEF RunIdle, EndSimulation, Shell
<1>5. shellmode' <=> cpu' = Shell
  BY <1>3, InSchedulerIs, Places DEF RunIdle, EndSimulation
<1>6. /\ cur_time_quantum' \in Int
      /\ shellmode' \in BOOLEAN /\ simulation_running' \in BOOLEAN
  <2>1. CASE RunIdle
    <3>1. cur_time_quantum' = 1 /\ simulation_running' = TRUE
          /\ shellmode' = shellmode
      BY <2>1 DEF RunIdle
    <3>2. shellmode' \in BOOLEAN
      BY <3>1 DEF Inv, TypeOK
    <3>3. simulation_running' \in BOOLEAN
      BY <3>1, Zenon
    <3> QED
      BY <3>1, <3>2, <3>3
  <2>2. CASE EndSimulation
    <3>1. /\ cur_time_quantum' = cur_time_quantum
          /\ simulation_running' = FALSE /\ shellmode' = TRUE
      BY <2>2 DEF EndSimulation
    <3>2. shellmode' \in BOOLEAN /\ simulation_running' \in BOOLEAN
      BY <3>1, Zenon
    <3>3. cur_time_quantum' \in Int
      BY <3>1 DEF Inv, TypeOK
    <3> QED
      BY <3>2, <3>3
  <2> QED
    BY <2>1, <2>2
<1>7. TypeOK'
  BY <1>1, <1>2, <1>3, <1>4, <1>6 DEF Inv, TypeOK, QueueSound
<1>8. CurrentSound' /\ CpuSound' /\ SchedulerSound' /\ FreedSound' /\ IdleContext'
  BY <1>1, <1>2, <1>3, <1>4, <1>5
  DEF CurrentSound, CpuSound, SchedulerSound, FreedSound, IdleContext
<1> QED
  BY <1>1, <1>2, <1>7, <1>8 DEF Inv

-----------------------------------------------------------------------------
(* Tasks and signals                                                        *)

\* Task code runs as the current task.
LEMMA InTaskIs ==
    ASSUME Inv, cpu.at = "task"
    PROVE  /\ curr_task_node # Null /\ curr_task_node \in Nodes
           /\ NodeSound(curr_task_node, pid) /\ ~curr_task_node.freed
           /\ cpu.pid = curr_task_node.pid /\ curr_task_node.state = "READY"
           /\ cur_time_quantum = 1
           /\ scheduler = Ctx("after_task") /\ scheduler.at = "after_task"
           /\ simulation_running /\ ~shellmode
           /\ \A i \in DOMAIN queue : queue[i].pid # curr_task_node.pid
<1>1. curr_task_node # Null /\ cpu.pid = curr_task_node.pid /\ cpu # Shell
  BY Places DEF Inv, CpuSound
<1>2. Ctx("after_task").at = "after_task"
  BY CtxType
<1> QED
  BY <1>1, <1>2 DEF Inv, CpuSound, CurrentSound, NodeSound

\* A task that goes on with its code, having changed the queue or not.
LEMMA TaskGoesOn ==
    ASSUME Inv, user' = user, cpu.at = "task",
           cpu' \in Contexts, cpu'.at = "task", cpu'.pid = cpu.pid,
           pid' \in Nat, pid <= pid', QueueSound(queue', pid'),
           \A i \in DOMAIN queue' : queue'[i].pid <= pid =>
              \E j \in DOMAIN queue : queue'[i].pid = queue[j].pid,
           (\A i \in DOMAIN queue : ~queue[i].freed) =>
              \A i \in DOMAIN queue' : ~queue'[i].freed,
           UNCHANGED <<curr_task_node, cur_time_quantum, shellmode,
                       simulation_running, scheduler, idle_ctx, fault>>
    PROVE  Inv'
<1>1. /\ curr_task_node # Null /\ curr_task_node.state = "READY"
      /\ cur_time_quantum = 1 /\ cpu.pid = curr_task_node.pid /\ ~shellmode
      /\ scheduler.at = "after_task"
  BY InTaskIs
<1>2. TypeOK'
  BY DEF Inv, TypeOK, QueueSound
<1>3. CurrentSound'
  BY <1>1, CurrentKept DEF Inv, CurrentSound
<1>4. CpuSound'
  BY <1>1, Places DEF CpuSound
<1>5. SchedulerSound' /\ FreedSound' /\ IdleContext'
  BY <1>1 DEF Inv, SchedulerSound, FreedSound, IdleContext
<1> QED
  BY <1>2, <1>3, <1>4, <1>5 DEF Inv

\* A task that gives way to the scheduler, by itself or at a tick.
LEMMA TaskGivesWay ==
    ASSUME Inv, user' = user, cpu.at = "task", cpu' = scheduler,
           NodeSound(curr_task_node', pid), ~curr_task_node'.freed,
           curr_task_node'.pid = curr_task_node.pid,
           QueueSound(queue', pid),
           \A i \in DOMAIN queue' : \E j \in DOMAIN queue :
              queue'[i].pid = queue[j].pid /\ queue'[i].freed = queue[j].freed,
           cur_time_quantum' \in Int,
           UNCHANGED <<pid, shellmode, simulation_running, scheduler, idle_ctx,
                       fault>>
    PROVE  Inv'
<1>1. /\ simulation_running /\ ~shellmode
      /\ scheduler = Ctx("after_task") /\ scheduler.at = "after_task"
      /\ \A i \in DOMAIN queue : queue[i].pid # curr_task_node.pid
  BY InTaskIs
<1>2. TypeOK'
  BY DEF Inv, TypeOK, QueueSound, NodeSound
<1>3. CurrentSound'
  BY <1>1 DEF CurrentSound
<1>4. CpuSound'
  BY <1>1, Places DEF CpuSound
<1>5. SchedulerSound' /\ FreedSound' /\ IdleContext'
  BY <1>1 DEF Inv, SchedulerSound, FreedSound, IdleContext
<1> QED
  BY <1>2, <1>3, <1>4, <1>5 DEF Inv

\* The idle loop gives way to the scheduler, or to the shell.
LEMMA IdleGivesWay ==
    ASSUME Inv, user' = user, cpu.at = "idle",
           \/ cpu' = scheduler /\ scheduler' = scheduler /\ ~shellmode'
           \/ cpu' = Shell /\ scheduler' = cpu /\ shellmode' /\ user.ctrlZWhileIdle,
           shellmode' \in BOOLEAN, idle_ctx' = cpu \/ idle_ctx' = idle_ctx,
           QueueSound(queue', pid),
           \A i \in DOMAIN queue' : \E j \in DOMAIN queue :
              queue'[i].freed = queue[j].freed,
           cur_time_quantum' \in Int,
           UNCHANGED <<pid, curr_task_node, simulation_running, fault>>
    PROVE  Inv'
<1>1. cpu = Idle /\ idle_ctx = Idle /\ curr_task_node = Null
  BY Places DEF Inv, CpuSound, IdleContext, Idle
<1>2. scheduler.at \in {"loop", "idle"} /\ Idle.at = "idle" /\ Shell.at = "shell"
  BY Places DEF Inv, SchedulerSound
<1>3. Shell \in Contexts
  BY CtxType DEF Shell
<1>4. TypeOK'
  BY <1>3 DEF Inv, TypeOK, QueueSound
<1>5. CurrentSound' /\ CpuSound'
  BY <1>1, <1>2 DEF CurrentSound, CpuSound
<1>6. SchedulerSound' /\ FreedSound' /\ IdleContext'
  BY <1>1, <1>2 DEF Inv, SchedulerSound, FreedSound, IdleContext
<1> QED
  BY <1>4, <1>5, <1>6 DEF Inv

\* The timer keeps a node what it is.
LEMMA AgedSound ==
    ASSUME NEW last, NEW n, NodeSound(n, last)
    PROVE  /\ NodeSound(Aged(n), last)
           /\ Aged(n).pid = n.pid /\ Aged(n).freed = n.freed
<1>1. n \in Nodes /\ n.queuing_time \in Nat /\ n.msec_10 \in Nat
  BY DEF NodeSound, Nodes
<1>2. CASE n.state = "TERMINATED"
  BY <1>2 DEF Aged
<1>3. CASE n.state # "TERMINATED"
  <2> DEFINE t == IF n.queuing_time < MaxQueuing THEN n.queuing_time + 10
                                                 ELSE n.queuing_time
             m == IF n.state = "WAITING" /\ n.msec_10 # 0 THEN n.msec_10 - 1
                                                          ELSE n.msec_10
             s == IF n.state = "WAITING" /\ n.msec_10 = 0 THEN "READY"
                                                          ELSE n.state
  <2>1. t \in Nat /\ t % 10 = 0
    BY <1>1, UserAssumption DEF NodeSound
  <2>2. m \in Nat /\ s \in {"READY", "WAITING", "TERMINATED"}
    BY <1>1 DEF Nodes
  <2>3. Aged(n) = [n EXCEPT !.queuing_time = t, !.msec_10 = m, !.state = s]
    BY <1>3 DEF Aged
  <2> HIDE DEF t, m, s
  <2> QED
    BY <1>1, <2>1, <2>2, <2>3 DEF NodeSound, Nodes
<1> QED
  BY <1>2, <1>3

\* SIGALRM in a task, in the idle loop or in the scheduler.
LEMMA TickSound ==
    ASSUME Inv, Tick, user' = user
    PROVE  Inv'
<1>1. /\ queue' = [i \in DOMAIN queue |-> Aged(queue[i])]
      /\ cur_time_quantum' = IF cur_time_quantum < 0 THEN -1
                                                     ELSE cur_time_quantum - 1
      /\ cpu' = scheduler /\ cpu.at \in {"task", "idle"}
      /\ UNCHANGED <<pid, shellmode, simulation_running, scheduler, fault>>
  BY DEF Tick, SignalPoint
<1>2. QueueSound(queue, pid) /\ cur_time_quantum \in Int
  BY DEF Inv, TypeOK
<1>3. \A i \in DOMAIN queue : /\ NodeSound(queue'[i], pid)
                              /\ queue'[i].pid = queue[i].pid
                              /\ queue'[i].freed = queue[i].freed
  BY <1>1, <1>2, AgedSound DEF QueueSound
<1>4. DOMAIN queue' = DOMAIN queue /\ queue' = [i \in DOMAIN queue |-> queue'[i]]
  BY <1>1
<1>5. QueueSound(queue', pid)
  BY <1>2, <1>3, <1>4, UpdateSound
<1>6. cur_time_quantum' \in Int
  BY <1>1, <1>2
<1>7. CASE cpu.at = "task"
  <2>1. cur_time_quantum' = 0 /\ curr_task_node # Null
    BY <1>1, <1>7, InTaskIs
  <2>2. /\ curr_task_node' = [curr_task_node EXCEPT !.ctx = cpu]
        /\ idle_ctx' = idle_ctx
    BY <2>1 DEF Tick
  <2>3. /\ NodeSound(curr_task_node', pid) /\ ~curr_task_node'.freed
        /\ curr_task_node'.pid = curr_task_node.pid
    BY <1>7, <2>2, InTaskIs, Places DEF NodeSound, Nodes
  <2> QED
    BY <1>1, <1>3, <1>4, <1>5, <1>6, <1>7, <2>2, <2>3, TaskGivesWay
<1>8. CASE cpu.at = "idle"
  <2>1. curr_task_node = Null /\ ~shellmode /\ shellmode' \in BOOLEAN
    BY <1>1, <1>8, Places DEF Inv, CpuSound, TypeOK
  <2>2. idle_ctx' = cpu /\ curr_task_node' = curr_task_node
    BY <2>1 DEF Tick
  <2> QED
    BY <1>1, <1>3, <1>4, <1>5, <1>6, <1>8, <2>1, <2>2, IdleGivesWay
<1> QED
  BY <1>1, <1>7, <1>8

\* SIGTSTP in a task or in the idle loop.
LEMMA CtrlZSound ==
    ASSUME Inv, CtrlZ, user' = user
    PROVE  Inv'
<1>1. /\ cpu.at \in {"task", "idle"} /\ cpu' = Shell /\ shellmode' = TRUE
      /\ curr_task_node = Null => user.ctrlZWhileIdle
      /\ UNCHANGED <<pid, queue, cur_time_quantum, simulation_running, idle_ctx,
                     fault>>
  BY DEF CtrlZ, SignalPoint
<1>2. shellmode' \in BOOLEAN /\ shellmode'
  BY <1>1, Zenon
<1>3. Shell.at = "shell" /\ Shell \in Contexts
  BY CtxType DEF Shell
<1>4. CASE cpu.at = "task"
  <2>1. /\ curr_task_node' = [curr_task_node EXCEPT !.ctx = cpu]
        /\ scheduler' = scheduler
    BY <1>4, InTaskIs DEF CtrlZ
  <2>2. /\ NodeSound(curr_task_node', pid) /\ ~curr_task_node'.freed
        /\ curr_task_node'.pid = curr_task_node.pid
        /\ curr_task_node'.state = "READY"
    BY <1>4, <2>1, InTaskIs, Places DEF NodeSound, Nodes
  <2>3. TypeOK'
    BY <1>1, <1>2, <1>3, <2>1, <2>2 DEF Inv, TypeOK, NodeSound
  <2>4. CurrentSound'
    BY <1>1, <1>4, <2>1, <2>2, InTaskIs DEF CurrentSound
  <2>5. CpuSound'
    BY <1>1, <1>2, <1>3 DEF CpuSound
  <2>6. SchedulerSound' /\ FreedSound' /\ IdleContext'
    BY <1>1, <1>3, <1>4, <2>1, InTaskIs
    DEF Inv, SchedulerSound, FreedSound, IdleContext
  <2> QED
    BY <1>1, <2>3, <2>4, <2>5, <2>6 DEF Inv
<1>5. CASE cpu.at = "idle"
  <2>1. curr_task_node = Null
    BY <1>5 DEF Inv, CpuSound
  <2>2. scheduler' = cpu /\ curr_task_node' = curr_task_node
    BY <2>1 DEF CtrlZ
  <2>3. cur_time_quantum \in Int /\ QueueSound(queue, pid)
    BY DEF Inv, TypeOK
  <2> QED
    BY <1>1, <1>2, <1>5, <2>1, <2>2, <2>3, IdleGivesWay
<1> QED
  BY <1>1, <1>4, <1>5

\* The context of a task behind its next call.
LEMMA NextCallIs ==
    ASSUME Inv, cpu.at = "task", cpu.pos \in DOMAIN Program(cpu.name)
    PROVE  /\ NextCall \in Contexts /\ NextCall.at = "task"
           /\ NextCall.pid = cpu.pid
           /\ \A c \in Nat : /\ [NextCall EXCEPT !.child = c] \in Contexts
                             /\ [NextCall EXCEPT !.child = c].at = "task"
                             /\ [NextCall EXCEPT !.child = c].pid = cpu.pid
<1>1. cpu \in [at : {"task"}, pid : ProcessNumbers, name : TaskNames,
               pos : 1 .. NCreate + 4, child : Nat]
  BY Places DEF Contexts
<1>2. PICK n \in Nat : n <= NCreate + 3 /\ DOMAIN Program(cpu.name) = 1 .. n
  BY <1>1, ProgramLength
<1>3. cpu.pos + 1 \in 1 .. NCreate + 4
  BY <1>2, UserAssumption
<1>4. NextCall = [cpu EXCEPT !.pos = cpu.pos + 1]
  BY DEF NextCall
<1>5. NextCall \in [at : {"task"}, pid : ProcessNumbers, name : TaskNames,
                    pos : 1 .. NCreate + 4, child : Nat]
  BY <1>1, <1>3, <1>4
<1>6. NextCall.pid = cpu.pid
  BY <1>1, <1>4
<1> QED
  BY <1>5, <1>6 DEF Contexts

\* A task computes.
LEMMA ComputeSound ==
    ASSUME Inv, Compute, user' = user
    PROVE  Inv'
<1>1. /\ cpu.at = "task" /\ cpu.pos \in DOMAIN Program(cpu.name)
      /\ cpu' = NextCall
      /\ UNCHANGED <<pid, queue, curr_task_node, cur_time_quantum, shellmode,
                     simulation_running, scheduler, idle_ctx, fault>>
  BY DEF Compute, InTask
<1>2. pid \in Nat /\ QueueSound(queue, pid)
  BY DEF Inv, TypeOK
<1> QED
  BY <1>1, <1>2, NextCallIs, TaskGoesOn

\* hw_task_create() in a task.
LEMMA CreateSound ==
    ASSUME Inv, Create, user' = user
    PROVE  Inv'
<1>1. /\ cpu.at = "task" /\ cpu.pos \in DOMAIN Program(cpu.name)
      /\ pid' = pid + 1
      /\ queue' \in EnQueue(queue, NewNode(pid + 1, "task3", "S", "L"))
      /\ cpu' = [NextCall EXCEPT !.child = pid + 1]
      /\ UNCHANGED <<curr_task_node, cur_time_quantum, shellmode,
                     simulation_running, scheduler, idle_ctx, fault>>
  BY DEF Create, InTask
<1>2. pid \in Nat /\ pid <= pid' /\ pid + 1 \in Nat
  BY <1>1, Places
<1>3. "task3" \in TaskNames /\ "S" \in Quanta /\ "L" \in Priorities
  BY DEF TaskNames, Quanta, Priorities
<1>4. /\ pid' \in Nat
      /\ QueueSound(queue', pid')
      /\ \A i \in DOMAIN queue' : queue'[i].pid <= pid =>
            \E j \in DOMAIN queue : queue'[i] = queue[j]
      /\ (\A i \in DOMAIN queue : ~queue[i].freed) =>
            \A i \in DOMAIN queue' : ~queue'[i].freed
  BY <1>1, <1>3, LinkNewSound
<1>5. cpu' \in Contexts /\ cpu'.at = "task" /\ cpu'.pid = cpu.pid
  BY <1>1, <1>2, NextCallIs
<1>6. \A i \in DOMAIN queue' : queue'[i].pid <= pid =>
         \E j \in DOMAIN queue : queue'[i].pid = queue[j].pid
  BY <1>4
<1> QED
  BY <1>1, <1>2, <1>4, <1>5, <1>6, TaskGoesOn

\* hw_suspend() gives way to the scheduler.
LEMMA SuspendSound ==
    ASSUME Inv, Suspend, user' = user
    PROVE  Inv'
<1>1. /\ cpu.at = "task" /\ cpu.pos \in DOMAIN Program(cpu.name)
      /\ curr_task_node' = [curr_task_node EXCEPT !.msec_10 = Msec[cpu.name],
                                                  !.state = "WAITING",
                                                  !.ctx = NextCall]
      /\ cpu' = scheduler
      /\ UNCHANGED <<pid, queue, cur_time_quantum, shellmode,
                     simulation_running, scheduler, idle_ctx, fault>>
  BY DEF Suspend, InTask
<1>2. cpu.name \in TaskNames
  BY <1>1, Places DEF Contexts
<1>3. Msec[cpu.name] \in Nat
  BY <1>2, UserAssumption
<1>4. /\ NodeSound(curr_task_node', pid) /\ ~curr_task_node'.freed
      /\ curr_task_node'.pid = curr_task_node.pid
  BY <1>1, <1>3, InTaskIs, NextCallIs DEF NodeSound, Nodes
<1>5. QueueSound(queue, pid) /\ cur_time_quantum \in Int
  BY DEF Inv, TypeOK
<1> QED
  BY <1>1, <1>4, <1>5, TaskGivesWay

\* A node that is woken, or was not asleep, is as sound as before.
LEMMA AwokenSound ==
    ASSUME NEW last, NEW n, NodeSound(n, last)
    PROVE  LET woken == [n EXCEPT !.state = "READY", !.msec_10 = 0]
           IN  /\ NodeSound(woken, last)
               /\ woken.pid = n.pid /\ woken.freed = n.freed
               /\ woken.state = "READY"
BY DEF NodeSound, Nodes

\* Waking nodes keeps them what they are.
LEMMA WakeNodesSound ==
    ASSUME NEW last, QueueSound(queue, last), NEW places
    PROVE  /\ QueueSound(WakeNodes(places), last)
           /\ DOMAIN WakeNodes(places) = DOMAIN queue
           /\ \A i \in DOMAIN queue :
                 /\ WakeNodes(places)[i].pid = queue[i].pid
                 /\ WakeNodes(places)[i].freed = queue[i].freed
                 /\ \/ WakeNodes(places)[i].state = queue[i].state
                    \/ /\ queue[i].state = "WAITING"
                       /\ WakeNodes(places)[i].state = "READY"
<1> DEFINE r == WakeNodes(places)
<1>1. r = [i \in DOMAIN queue |-> r[i]] /\ DOMAIN r = DOMAIN queue
  BY DEF WakeNodes
<1>2. \A i \in DOMAIN queue :
         \/ r[i] = queue[i]
         \/ /\ queue[i].state = "WAITING"
            /\ r[i] = [queue[i] EXCEPT !.state = "READY", !.msec_10 = 0]
  BY DEF WakeNodes
<1> HIDE DEF r
<1>3. \A i \in DOMAIN queue : NodeSound(queue[i], last) /\ queue[i] \in Nodes
  BY DEF QueueSound, NodeSound
<1>4. \A i \in DOMAIN queue :
         /\ NodeSound(r[i], last)
         /\ r[i].pid = queue[i].pid
         /\ r[i].freed = queue[i].freed
         /\ r[i].state = queue[i].state \/ (/\ queue[i].state = "WAITING"
                                            /\ r[i].state = "READY")
  <2> SUFFICES ASSUME NEW i \in DOMAIN queue
               PROVE  /\ NodeSound(r[i], last)
                      /\ r[i].pid = queue[i].pid
                      /\ r[i].freed = queue[i].freed
                      /\ \/ r[i].state = queue[i].state
                         \/ /\ queue[i].state = "WAITING"
                            /\ r[i].state = "READY"
    OBVIOUS
  <2>1. NodeSound(queue[i], last) /\ queue[i] \in Nodes
    BY <1>3
  <2>2. CASE r[i] = queue[i]
    <3>1. NodeSound(r[i], last)
      BY ONLY <2>1, <2>2
    <3> QED
      BY ONLY <2>2, <3>1
  <2>3. CASE /\ queue[i].state = "WAITING"
             /\ r[i] = [queue[i] EXCEPT !.state = "READY", !.msec_10 = 0]
    <3> DEFINE w == [queue[i] EXCEPT !.state = "READY", !.msec_10 = 0]
    <3>1. /\ NodeSound(w, last) /\ w.pid = queue[i].pid
          /\ w.freed = queue[i].freed /\ w.state = "READY"
      BY <2>1, AwokenSound
    <3>2. r[i] = w /\ queue[i].state = "WAITING"
      BY <2>3
    <3> HIDE DEF w
    <3> QED
      BY <3>1, <3>2
  <2> QED
    BY <1>2, <2>2, <2>3
<1>5. QueueSound(r, last)
  BY <1>1, <1>4, UpdateSound
<1> QED
  BY <1>1, <1>4, <1>5 DEF r

\* hw_wakeup_pid() and hw_wakeup_taskname() in a task.
LEMMA WakeSound ==
    ASSUME Inv, Wake, user' = user
    PROVE  Inv'
<1>1. /\ cpu.at = "task" /\ cpu.pos \in DOMAIN Program(cpu.name)
      /\ cpu' = NextCall
      /\ UNCHANGED <<pid, curr_task_node, cur_time_quantum, shellmode,
                     simulation_running, scheduler, idle_ctx, fault>>
  BY DEF Wake, InTask
<1> PICK places : queue' = WakeNodes(places)
  BY DEF Wake
<1>2. pid \in Nat /\ QueueSound(queue, pid)
  BY DEF Inv, TypeOK
<1>3. /\ QueueSound(queue', pid) /\ DOMAIN queue' = DOMAIN queue
      /\ \A i \in DOMAIN queue : /\ queue'[i].pid = queue[i].pid
                                 /\ queue'[i].freed = queue[i].freed
  BY <1>2, WakeNodesSound
<1>4. pid' \in Nat /\ pid <= pid' /\ QueueSound(queue', pid')
  BY <1>1, <1>2, <1>3
<1>5. cpu' \in Contexts /\ cpu'.at = "task" /\ cpu'.pid = cpu.pid
  BY <1>1, NextCallIs
<1>6. /\ \A i \in DOMAIN queue' : queue'[i].pid <= pid =>
            \E j \in DOMAIN queue : queue'[i].pid = queue[j].pid
      /\ (\A i \in DOMAIN queue : ~queue[i].freed) =>
            \A i \in DOMAIN queue' : ~queue'[i].freed
  BY <1>3
<1> QED
  BY <1>1, <1>4, <1>5, <1>6, TaskGoesOn

\* The end of a task's function: the completion context frees the task.
LEMMA ReturnSound ==
    ASSUME Inv, Return, user' = user
    PROVE  Inv'
<1>1. /\ cpu.at = "task" /\ cpu' = scheduler
      /\ UNCHANGED <<pid, queue, cur_time_quantum, shellmode,
                     simulation_running, scheduler, idle_ctx, fault>>
  BY DEF Return
<1>2. curr_task_node' = [curr_task_node EXCEPT !.state = "TERMINATED"]
  BY <1>1, InTaskIs DEF Return
<1>3. /\ NodeSound(curr_task_node', pid) /\ ~curr_task_node'.freed
      /\ curr_task_node'.pid = curr_task_node.pid
  BY <1>1, <1>2, InTaskIs DEF NodeSound, Nodes
<1>4. QueueSound(queue, pid) /\ cur_time_quantum \in Int
  BY DEF Inv, TypeOK
<1> QED
  BY <1>1, <1>3, <1>4, TaskGivesWay

\* Every step of the simulator keeps the invariant.
LEMMA InvStep == Inv /\ [Next]_vars => Inv'
<1> SUFFICES ASSUME Inv, [Next]_vars PROVE Inv'
  OBVIOUS
<1>1. CASE UNCHANGED vars
  BY <1>1 DEF vars, Inv, TypeOK, CurrentSound, CpuSound, SchedulerSound,
              FreedSound, IdleContext
<1>2. CASE Next
  <2> USE <1>2
  <2>1. user' = user
    BY DEF Next
  <2>2. CASE ShellCommand
    BY <2>1, <2>2, AddSound, RemoveQueuedSound, RemoveCurrentSound, StartSound,
       CrashSound
    DEF ShellCommand, WalkFreed
  <2>3. CASE Schedule
    BY <2>1, <2>3, DispatchSound, NoTaskSound, CrashSound
    DEF Schedule, ScheduleFreed, RunIdle, EndSimulation
  <2>4. CASE Tick \/ TickFreed \/ CtrlZ
    BY <2>1, <2>4, TickSound, CtrlZSound, CrashSound DEF TickFreed
  <2>5. CASE TaskStep
    BY <2>1, <2>5, ComputeSound, CreateSound, SuspendSound, WakeSound,
       ReturnSound, CrashSound
    DEF TaskStep, WakeFreed
  <2> QED
    BY <2>2, <2>3, <2>4, <2>5 DEF Next
<1> QED
  BY <1>1, <1>2

-----------------------------------------------------------------------------
(* Theorems                                                                 *)

\* The inductive invariant holds in every state: the queue, the current node,
\* the contexts and where the program is fit together.
THEOREM InvHolds == Spec => []Inv
BY InitSound, InvStep, PTL DEF Spec

\* The variables keep their types, for any number of tasks: in particular every
\* context that is resumed is one of the program's, and the calls of a task
\* do not run past its code.
THEOREM TypeCorrect == Spec => []TypeOK
<1>1. Inv => TypeOK
  BY DEF Inv
<1> QED
  BY <1>1, InvHolds, PTL

\* No task is queued twice, or queued while it is current, although the node of
\* a task is copied into the queue again and again and a freed node may be
\* linked a second time.
THEOREM OneNode == Spec => []OneNodePerTask
<1>1. Inv => OneNodePerTask
  <2> SUFFICES ASSUME Inv PROVE OneNodePerTask
    OBVIOUS
  <2>1. \A i, j \in DOMAIN queue : queue[i].pid = queue[j].pid => i = j
    BY DEF Inv, QueueSound
  <2>2. \A i \in DOMAIN queue : queue[i].pid # 0
    BY DEF Inv, QueueSound, NodeSound, Nodes, ProcessNumbers
  <2>3. \A i \in DOMAIN queue : queue[i].pid # curr_task_node.pid
    BY <2>2, NullIsNoNode DEF Inv, CurrentSound
  <2> QED
    BY <2>1, <2>3 DEF OneNodePerTask, Queued
<1> QED
  BY <1>1, InvHolds, PTL

\* Task code always runs as the current task, and a task is always resumed from
\* the context it was interrupted in, through any number of ticks, Ctrl-Z,
\* starts and removals.
THEOREM ContextsOfTasks == Spec => []TaskContexts
<1>1. Inv => TaskContexts
  BY InTaskIs DEF Inv, TaskContexts, QueueSound, CurrentSound, NodeSound
<1> QED
  BY <1>1, InvHolds, PTL

\* The timer never takes a task for the idle loop: a task that runs has
\* exactly one tick left.
THEOREM IdleIsIdle == Spec => []IdleContext
<1>1. Inv => IdleContext
  BY DEF Inv
<1> QED
  BY <1>1, InvHolds, PTL

\* The scheduler's context is lost in one way only: by Ctrl-Z while no task is
\* current.
THEOREM ContextIsSaved == Spec => []ContextSaved
<1>1. Inv => ContextSaved
  <2> SUFFICES ASSUME Inv, ~user.ctrlZWhileIdle PROVE SchedulerContext
    BY DEF ContextSaved
  <2>1. cpu.at = "task" => scheduler.at = "after_task"
    BY InTaskIs
  <2>2. cpu.at = "idle" => scheduler.at = "loop"
    BY DEF Inv, SchedulerSound
  <2> QED
    BY <2>1, <2>2 DEF SchedulerContext
<1> QED
  BY <1>1, InvHolds, PTL

\* popNode() finds a ready task of a known priority if there is one.
LEMMA PopsReady ==
    ASSUME NEW q \in Seq(Nodes), \A i \in DOMAIN q : ~Pops(q, i)
    PROVE  Ready(q, "H") = {} /\ Ready(q, "L") = {}
<1>1. DOMAIN q = 1 .. Len(q) /\ Len(q) \in Nat
  OBVIOUS
<1>2. ASSUME NEW priority \in {"H", "L"}, Ready(q, priority) # {},
             priority = "L" => Ready(q, "H") = {}
      PROVE  FALSE
  <2>1. Ready(q, priority) \subseteq Nat
    BY <1>1 DEF Ready
  <2> PICK i \in Ready(q, priority) : \A j \in Ready(q, priority) : i <= j
    BY <1>2, <2>1, LeastNatural
  <2>2. /\ i \in 1 .. Len(q) /\ q[i].state = "READY"
        /\ q[i].priority = priority
    BY <1>1 DEF Ready
  <2>3. CASE Len(q) = 1
    <3>1. i = 1
      BY <2>2, <2>3
    <3> QED
      BY <1>1, <2>2, <2>3, <3>1 DEF Pops
  <2>4. CASE Len(q) > 1
    BY <1>1, <1>2, <2>2, <2>4 DEF Pops
  <2> QED
    BY <1>1, <2>2, <2>3, <2>4
<1>3. Ready(q, "H") = {}
  BY <1>2
<1>4. Ready(q, "L") = {}
  BY <1>2, <1>3
<1> QED
  BY <1>3, <1>4

\* Only the scheduler starts the idle loop.
LEMMA IdleStarts ==
    ASSUME Inv, Inv', [Next]_vars, ~user'.ctrlZWhileIdle, cpu'.at = "idle"
    PROVE  \/ RunIdle
           \/ UNCHANGED <<user, queue, cpu>>
<1>1. CASE UNCHANGED vars
  BY <1>1 DEF vars
<1>2. CASE Next
  <2>1. user' = user /\ ~user.ctrlZWhileIdle
    BY <1>2 DEF Next
  <2>2. scheduler.at # "idle" /\ Shell.at = "shell" /\ Ctx("loop").at = "loop"
    BY <2>1, Places, CtxType DEF Inv, SchedulerSound
  <2>3. cpu' # scheduler /\ cpu' # Shell
    BY <2>2
  <2>4. CASE ShellCommand
    <3>1. CASE Start
      <4>1. scheduler'.at # "idle"
        BY <2>2, <3>1 DEF Start
      <4>2. curr_task_node # Null => curr_task_node.ctx.at = "task"
        BY DEF Inv, CurrentSound, NodeSound
      <4> QED
        BY <3>1, <4>1, <4>2 DEF Start
    <3>2. CASE ~Start
      <4>1. cpu' = cpu /\ (AtPrompt => cpu = Shell)
        BY <2>4, <3>2
        DEF ShellCommand, Add, RemoveQueued, RemoveCurrent, WalkFreed, Crash,
            AtPrompt
      <4> QED
        BY <2>3, <2>4, <3>2, <4>1
        DEF ShellCommand, Add, RemoveQueued, RemoveCurrent, WalkFreed
    <3> QED
      BY <3>1, <3>2
  <2>5. CASE Schedule
    <3>1. ASSUME Dispatch PROVE FALSE
      <4> PICK q \in Requeued : \E i \in DOMAIN q : Dispatches(q, i)
        BY <3>1 DEF Dispatch, Dispatches
      <4> PICK i \in DOMAIN q : Dispatches(q, i)
        OBVIOUS
      <4>1. QueueSound(q, pid)
        BY <3>1, RequeuedSound DEF Dispatch
      <4>2. cpu'.at = "task"
        BY <4>1 DEF Dispatches, QueueSound, NodeSound
      <4> QED
        BY <4>2
    <3> QED
      BY <2>1, <2>3, <2>5, <3>1 DEF Schedule, EndSimulation, ScheduleFreed, Crash
  <2>6. CASE Tick \/ TickFreed \/ CtrlZ
    BY <2>1, <2>3, <2>6 DEF Tick, TickFreed, CtrlZ, Crash
  <2>7. CASE TaskStep
    <3>1. cpu.at = "task"
      BY <2>7 DEF TaskStep, Compute, Create, Suspend, Wake, WakeFreed, Return,
                  InTask
    <3>2. CASE Compute \/ Create \/ Wake
      <4>1. cpu.pos \in DOMAIN Program(cpu.name) /\ pid + 1 \in Nat
        BY <3>2, Places DEF Compute, Create, Wake, InTask
      <4>2. cpu'.at = "task"
        BY <3>1, <3>2, <4>1, NextCallIs DEF Compute, Create, Wake
      <4> QED
        BY <4>2
    <3>3. CASE Suspend \/ Return
      BY <2>3, <3>3 DEF Suspend, Return
    <3> QED
      BY <2>1, <2>7, <3>2, <3>3 DEF TaskStep, WakeFreed, Crash
  <2> QED
    BY <1>2, <2>4, <2>5, <2>6, <2>7 DEF Next
<1> QED
  BY <1>1, <1>2

\* The idle loop runs only while no task of a known priority could.
THEOREM WorkIsConserved == Spec => []WorkConserving
<1>1. Init => WorkConserving
  BY CtxType DEF Init, WorkConserving, Shell
<1>2. Inv /\ Inv' /\ WorkConserving /\ [Next]_vars => WorkConserving'
  <2> SUFFICES ASSUME Inv, Inv', WorkConserving, [Next]_vars,
                      ~user'.ctrlZWhileIdle, cpu'.at = "idle"
               PROVE  Ready(queue', "H") = {} /\ Ready(queue', "L") = {}
    BY DEF WorkConserving, Ready
  <2>1. CASE RunIdle
    <3>1. \A i \in DOMAIN queue' : ~Pops(queue', i)
      BY <2>1 DEF RunIdle
    <3>2. queue' \in Seq(Nodes)
      BY DEF Inv, TypeOK
    <3> QED
      BY <3>1, <3>2, PopsReady
  <2>2. CASE UNCHANGED <<user, queue, cpu>>
    BY <2>2 DEF WorkConserving
  <2> QED
    BY <2>1, <2>2, IdleStarts
<1> QED
  BY <1>1, <1>2, InvHolds, PTL DEF Spec

\* A task of low priority is never picked while one of high priority is ready.
THEOREM HighComesFirst == Spec => HighFirst
<1>1. ASSUME Inv, Dispatch
      PROVE  curr_task_node'.priority = "H" \/ Ready(queue', "H") = {}
  <2> PICK q \in Requeued : \E i \in DOMAIN q : Dispatches(q, i)
    BY <1>1 DEF Dispatch, Dispatches
  <2> PICK i \in DOMAIN q : Dispatches(q, i)
    OBVIOUS
  <2>1. QueueSound(q, pid) /\ q \in Seq(Nodes)
    BY <1>1, RequeuedSound DEF Dispatch, QueueSound
  <2>2. Pops(q, i) /\ ~ReadsFreed(q, PopReads(q, i))
    BY DEF Dispatches
  <2>3. curr_task_node'.priority = q[i].priority
    BY <2>1, <2>2, PickedSound DEF Dispatches
  <2>4. /\ queue' = RemoveAt(q, i)
        /\ \A j \in DOMAIN queue' : \E k \in DOMAIN q : k # i /\ queue'[j] = q[k]
    BY <2>1, RemoveAtSound DEF Dispatches
  <2>5. CASE Len(q) = 1
    <3>1. DOMAIN queue' = {}
      <4>1. \A k \in DOMAIN q : k = i
        BY <2>1, <2>5
      <4> QED
        BY <2>4, <4>1
    <3> QED
      BY <3>1 DEF Ready
  <2>6. CASE i \in Ready(q, "H")
    BY <2>3, <2>6 DEF Ready
  <2>7. CASE Ready(q, "H") = {}
    BY <2>4, <2>7 DEF Ready
  <2> QED
    BY <2>2, <2>5, <2>6, <2>7 DEF Pops
<1>2. Inv => [Dispatch => \/ curr_task_node'.priority = "H"
                          \/ Ready(queue', "H") = {}]_vars
  BY <1>1
<1> QED
  BY <1>2, InvHolds, PTL DEF HighFirst

-----------------------------------------------------------------------------
(* The scheduler implements the life cycle of tasks                         *)

\* TaskState as a function of the queue, the current node and the last process
\* number.
StateIn(q, c, last, p) ==
    LET places == {i \in DOMAIN q : q[i].pid = p}
    IN  CASE p > last -> "absent"
          [] c.pid = p -> IF c.state = "READY" THEN "RUNNING" ELSE c.state
          [] places # {} -> q[CHOOSE i \in places : TRUE].state
          [] OTHER -> "removed"

\* The state of a task depends on the queue, the current node and the count.
LEMMA TaskStateIs ==
    ASSUME NEW p
    PROVE  /\ TaskState(p) = StateIn(queue, curr_task_node, pid, p)
           /\ TaskState(p)' = StateIn(queue', curr_task_node', pid', p)
BY DEF TaskState, StateIn

\* A node that may be current beside a queue.
Fits(c, q, last) ==
    c = Null \/ (c \in Nodes /\ c.pid <= last /\ ~QueueHas(q, c.pid))

\* The current task is not in the queue as well.
LEMMA CurrentFits == Inv => Fits(curr_task_node, queue, pid)
BY DEF Inv, CurrentSound, NodeSound, Fits, QueueHas

\* The cases of TaskState exclude each other.
LEMMA StateInIs ==
    ASSUME NEW last \in Nat, NEW q, QueueSound(q, last), NEW c, Fits(c, q, last),
           NEW p \in Nat \ {0}
    PROVE  /\ p > last => StateIn(q, c, last, p) = "absent"
           /\ c.pid = p =>
                 /\ p <= last
                 /\ StateIn(q, c, last, p) = IF c.state = "READY" THEN "RUNNING"
                                                                  ELSE c.state
           /\ \A i \in DOMAIN q : q[i].pid = p =>
                 /\ p <= last
                 /\ StateIn(q, c, last, p) = q[i].state
           /\ p <= last /\ c.pid # p /\ ~QueueHas(q, p) =>
                 StateIn(q, c, last, p) = "removed"
<1>1. c.pid \in Nat /\ (c.pid = p => c.pid <= last /\ ~QueueHas(q, p))
  BY NullIsNoNode DEF Fits, Nodes, ProcessNumbers
<1>2. \A i \in DOMAIN q : q[i].pid \in Nat /\ q[i].pid <= last
  BY DEF QueueSound, NodeSound, Nodes, ProcessNumbers
<1>3. ASSUME p > last PROVE StateIn(q, c, last, p) = "absent"
  <2>1. c.pid # p /\ \A i \in DOMAIN q : q[i].pid # p
    BY <1>1, <1>2, <1>3
  <2> QED
    BY <1>3, <2>1 DEF StateIn
<1>4. ASSUME c.pid = p
      PROVE  /\ p <= last
             /\ StateIn(q, c, last, p) = IF c.state = "READY" THEN "RUNNING"
                                                              ELSE c.state
  <2>1. p <= last /\ ~(p > last) /\ \A i \in DOMAIN q : q[i].pid # p
    BY <1>1, <1>4 DEF QueueHas
  <2> QED
    BY <1>4, <2>1 DEF StateIn
<1>5. ASSUME NEW i \in DOMAIN q, q[i].pid = p
      PROVE  p <= last /\ StateIn(q, c, last, p) = q[i].state
  <2>1. p <= last /\ ~(p > last) /\ c.pid # p
    BY <1>1, <1>2, <1>5 DEF QueueHas
  <2>2. {k \in DOMAIN q : q[k].pid = p} = {i}
    BY <1>5 DEF QueueSound
  <2>3. (CHOOSE k \in {i} : TRUE) = i
    OBVIOUS
  <2> QED
    BY <2>1, <2>2, <2>3 DEF StateIn
<1>6. ASSUME p <= last, c.pid # p, ~QueueHas(q, p)
      PROVE  StateIn(q, c, last, p) = "removed"
  <2>1. ~(p > last) /\ {k \in DOMAIN q : q[k].pid = p} = {}
    BY <1>6 DEF QueueHas
  <2> QED
    BY <1>6, <2>1 DEF StateIn
<1> QED
  BY <1>3, <1>4, <1>5, <1>6

\* A state is one of the life cycle, and only the current task is running.
LEMMA StateInType ==
    ASSUME NEW last \in Nat, NEW q, QueueSound(q, last), NEW c, Fits(c, q, last),
           NEW p \in Nat \ {0}
    PROVE  /\ StateIn(q, c, last, p) \in Lifecycle!States
           /\ StateIn(q, c, last, p) = "RUNNING" => c.pid = p
<1>1. CASE p > last
  BY <1>1, StateInIs DEF Lifecycle!States
<1>2. CASE p <= last /\ c.pid = p
  <2>1. c.state \in {"READY", "WAITING", "TERMINATED"}
    BY <1>2, NullIsNoNode DEF Fits, Nodes
  <2> QED
    BY <1>2, <2>1, StateInIs DEF Lifecycle!States
<1>3. CASE p <= last /\ c.pid # p /\ QueueHas(q, p)
  <2> PICK i \in DOMAIN q : q[i].pid = p
    BY <1>3 DEF QueueHas
  <2>1. q[i].state \in {"READY", "WAITING", "TERMINATED"}
    BY DEF QueueSound, NodeSound, Nodes
  <2>2. StateIn(q, c, last, p) = q[i].state
    BY StateInIs
  <2> QED
    BY <2>1, <2>2 DEF Lifecycle!States
<1>4. CASE p <= last /\ c.pid # p /\ ~QueueHas(q, p)
  <2>1. StateIn(q, c, last, p) = "removed"
    BY <1>4, StateInIs
  <2> QED
    BY <2>1 DEF Lifecycle!States
<1> QED
  BY <1>1, <1>2, <1>3, <1>4

\* A task stays where it is or makes one of the moves of the life cycle.
Moved(s, t) == s = t \/ <<s, t>> \in Lifecycle!Moves

\* Steps that change the states of nodes and leave them where they are.
LEMMA InPlace ==
    ASSUME Inv, Inv', pid' = pid, curr_task_node'.pid = curr_task_node.pid,
           curr_task_node # Null =>
              \/ curr_task_node'.state = curr_task_node.state
              \/ /\ curr_task_node.state = "READY"
                 /\ curr_task_node'.state \in {"WAITING", "TERMINATED"},
           DOMAIN queue' = DOMAIN queue,
           \A i \in DOMAIN queue :
              /\ queue'[i].pid = queue[i].pid
              /\ \/ queue'[i].state = queue[i].state
                 \/ queue[i].state = "WAITING" /\ queue'[i].state = "READY",
           NEW p \in Nat \ {0}
    PROVE  Moved(TaskState(p), TaskState(p)')
<1> DEFINE c == curr_task_node
           S == StateIn(queue, curr_task_node, pid, p)
           T == StateIn(queue', curr_task_node', pid, p)
<1>1. pid \in Nat /\ QueueSound(queue, pid) /\ QueueSound(queue', pid)
  BY DEF Inv, TypeOK
<1>2. Fits(curr_task_node, queue, pid) /\ Fits(curr_task_node', queue', pid)
  BY <1>1, CurrentFits DEF Inv, CurrentSound, NodeSound, Fits, QueueHas
<1>3. TaskState(p) = S /\ TaskState(p)' = T
  BY TaskStateIs
<1> HIDE DEF S, T
<1>4. CASE p > pid
  BY <1>1, <1>2, <1>3, <1>4, StateInIs DEF Moved, S, T
<1>5. CASE p <= pid /\ curr_task_node.pid = p
  <2>1. S = IF c.state = "READY" THEN "RUNNING" ELSE c.state
    BY <1>1, <1>2, <1>5, StateInIs DEF S
  <2>2. T = IF c'.state = "READY" THEN "RUNNING" ELSE c'.state
    BY <1>1, <1>2, <1>5, StateInIs DEF T
  <2>3. curr_task_node # Null
    BY <1>5, NullIsNoNode
  <2> QED
    BY <1>3, <2>1, <2>2, <2>3 DEF Moved, Lifecycle!Moves
<1>6. CASE p <= pid /\ curr_task_node.pid # p /\ QueueHas(queue, p)
  <2> PICK i \in DOMAIN queue : queue[i].pid = p
    BY <1>6 DEF QueueHas
  <2>1. S = queue[i].state
    BY <1>1, <1>2, StateInIs DEF S
  <2>2. T = queue'[i].state
    BY <1>1, <1>2, StateInIs DEF T
  <2> QED
    BY <1>3, <2>1, <2>2 DEF Moved, Lifecycle!Moves
<1>7. CASE p <= pid /\ curr_task_node.pid # p /\ ~QueueHas(queue, p)
  <2>1. ~QueueHas(queue', p)
    BY <1>7 DEF QueueHas
  <2> QED
    BY <1>1, <1>2, <1>3, <1>7, <2>1, StateInIs DEF Moved, S, T
<1> QED
  BY <1>1, <1>4, <1>5, <1>6, <1>7

\* Linking the current node again makes a running task a ready one.
LEMMA RequeuedStates ==
    ASSUME Inv, InScheduler, ~user.removeBetween, NEW q \in Requeued,
           NEW p \in Nat \ {0}
    PROVE  \/ StateIn(q, Null, pid, p) = TaskState(p)
           \/ TaskState(p) = "RUNNING" /\ StateIn(q, Null, pid, p) = "READY"
<1> DEFINE c == curr_task_node
           S == StateIn(queue, curr_task_node, pid, p)
           T == StateIn(q, Null, pid, p)
<1>1. pid \in Nat /\ QueueSound(queue, pid) /\ Fits(c, queue, pid)
  BY CurrentFits DEF Inv, TypeOK
<1>2. Fits(Null, q, pid)
  BY DEF Fits
<1>3. /\ QueueSound(q, pid)
      /\ \A i \in DOMAIN q : \/ c # Null /\ q[i] = c
                             \/ \E j \in DOMAIN queue : q[i] = queue[j]
      /\ c # Null => \E i \in DOMAIN q : q[i] = c
      /\ \A j \in DOMAIN queue : \E i \in DOMAIN q : q[i] = queue[j]
  BY RequeuedSound
<1>4. TaskState(p) = S
  BY TaskStateIs
<1> HIDE DEF S, T
<1>5. CASE p > pid
  BY <1>1, <1>2, <1>3, <1>4, <1>5, StateInIs DEF S, T
<1>6. CASE p <= pid /\ c.pid = p
  <2>1. S = IF c.state = "READY" THEN "RUNNING" ELSE c.state
    BY <1>1, <1>6, StateInIs DEF S
  <2> PICK i \in DOMAIN q : q[i] = c
    BY <1>3, <1>6, NullIsNoNode
  <2>2. T = q[i].state
    BY <1>1, <1>2, <1>3, <1>6, StateInIs DEF T
  <2> QED
    BY <1>4, <2>1, <2>2 DEF T
<1>7. CASE p <= pid /\ c.pid # p /\ QueueHas(queue, p)
  <2> PICK j \in DOMAIN queue : queue[j].pid = p
    BY <1>7 DEF QueueHas
  <2> PICK i \in DOMAIN q : q[i] = queue[j]
    BY <1>3
  <2>1. S = queue[j].state
    BY <1>1, StateInIs DEF S
  <2>2. T = q[i].state
    BY <1>1, <1>2, <1>3, StateInIs DEF T
  <2> QED
    BY <1>4, <2>1, <2>2 DEF T
<1>8. CASE p <= pid /\ c.pid # p /\ ~QueueHas(queue, p)
  <2>1. ~QueueHas(q, p) /\ Null.pid # p
    BY <1>3, <1>8, NullIsNoNode DEF QueueHas
  <2>2. S = "removed"
    BY <1>1, <1>8, StateInIs DEF S
  <2>3. T = "removed"
    BY <1>1, <1>2, <1>3, <1>8, <2>1, StateInIs DEF T
  <2> QED
    BY <1>4, <2>2, <2>3 DEF T
<1> QED
  BY <1>1, <1>5, <1>6, <1>7, <1>8 DEF T

\* The scheduler only turns the running task into a ready one and a ready task
\* into the running one.
LEMMA ScheduleMoves ==
    ASSUME Inv, Inv', Dispatch \/ RunIdle \/ EndSimulation,
           ~user.removeBetween, NEW p \in Nat \ {0}
    PROVE  Moved(TaskState(p), TaskState(p)')
<1>0. pid \in Nat /\ pid' = pid
  BY Places DEF Dispatch, RunIdle, EndSimulation
<1>1. CASE RunIdle \/ EndSimulation
  <2> PICK q \in Requeued : queue' = q
    BY <1>1 DEF RunIdle, EndSimulation
  <2>1. InScheduler /\ curr_task_node' = Null
    BY <1>1 DEF RunIdle, EndSimulation
  <2>2. TaskState(p)' = StateIn(q, Null, pid, p)
    BY <1>0, <2>1, TaskStateIs
  <2> QED
    BY <2>1, <2>2, RequeuedStates DEF Moved, Lifecycle!Moves
<1>2. CASE Dispatch
  <2> PICK q \in Requeued : \E i \in DOMAIN q : Dispatches(q, i)
    BY <1>2 DEF Dispatch, Dispatches
  <2> PICK i \in DOMAIN q : Dispatches(q, i)
    OBVIOUS
  <2> DEFINE S == TaskState(p)
             M == StateIn(q, Null, pid, p)
             T == StateIn(queue', curr_task_node', pid, p)
  <2>1. InScheduler /\ QueueSound(q, pid) /\ Fits(Null, q, pid)
    BY <1>2, RequeuedSound DEF Dispatch, Fits
  <2>2. M = S \/ (S = "RUNNING" /\ M = "READY")
    BY <2>1, RequeuedStates
  <2>3. TaskState(p)' = T
    BY <1>0, TaskStateIs
  <2>4. curr_task_node'.pid = q[i].pid /\ curr_task_node'.state = "READY"
    BY <2>1, PickedSound DEF Dispatches
  <2>5. /\ \A j \in DOMAIN queue' : \E k \in DOMAIN q : k # i /\ queue'[j] = q[k]
        /\ \A k \in DOMAIN q : k # i => \E j \in DOMAIN queue' : queue'[j] = q[k]
    BY <2>1, RemoveAtSound DEF Dispatches
  <2>6. QueueSound(queue', pid) /\ Fits(curr_task_node', queue', pid)
    BY <1>0 DEF Inv, CurrentSound, NodeSound, Fits, QueueHas
  <2> HIDE DEF M, T
  <2>7. CASE q[i].pid = p
    <3>1. q[i].state = "READY"
      BY DEF Dispatches, Pops, Ready
    <3>2. M = "READY"
      BY <1>0, <2>1, <2>7, <3>1, StateInIs DEF M
    <3>3. T = "RUNNING"
      BY <1>0, <2>4, <2>6, <2>7, StateInIs DEF T
    <3> QED
      BY <2>2, <2>3, <3>2, <3>3 DEF Moved, Lifecycle!Moves
  <2>8. CASE q[i].pid # p
    <3>1. T = M
      <4>1. CASE p > pid
        BY <1>0, <2>1, <2>6, <4>1, StateInIs DEF T, M
      <4>2. CASE p <= pid /\ QueueHas(q, p)
        <5> PICK k \in DOMAIN q : q[k].pid = p
          BY <4>2 DEF QueueHas
        <5> PICK j \in DOMAIN queue' : queue'[j] = q[k]
          BY <2>5, <2>8
        <5>1. M = q[k].state
          BY <1>0, <2>1, StateInIs DEF M
        <5>2. T = queue'[j].state
          BY <1>0, <2>6, StateInIs DEF T
        <5> QED
          BY <5>1, <5>2
      <4>3. CASE p <= pid /\ ~QueueHas(q, p)
        <5>1. ~QueueHas(queue', p)
          BY <2>5, <4>3 DEF QueueHas
        <5>2. M = "removed"
          BY <1>0, <2>1, <4>3, NullIsNoNode, StateInIs DEF M
        <5>3. T = "removed"
          BY <1>0, <2>4, <2>6, <2>8, <4>3, <5>1, StateInIs DEF T
        <5> QED
          BY <5>2, <5>3
      <4> QED
        BY <1>0, <4>1, <4>2, <4>3
    <3> QED
      BY <2>2, <2>3, <3>1 DEF Moved, Lifecycle!Moves
  <2> QED
    BY <2>7, <2>8
<1> QED
  BY <1>1, <1>2

\* A new task is absent and then ready; no other task is touched.
LEMMA NewTaskStates ==
    ASSUME Inv, Inv', ~user.removeBetween, NEW name \in TaskNames,
           NEW quantum \in Quanta, NEW priority \in Priorities, pid' = pid + 1,
           queue' \in EnQueue(queue, NewNode(pid + 1, name, quantum, priority)),
           curr_task_node' = curr_task_node, NEW p \in Nat \ {0}
    PROVE  IF p = pid + 1
           THEN TaskState(p) = "absent" /\ TaskState(p)' = "READY"
           ELSE TaskState(p)' = TaskState(p)
<1> DEFINE node == NewNode(pid + 1, name, quantum, priority)
           c == curr_task_node
           S == StateIn(queue, curr_task_node, pid, p)
           T == StateIn(queue', curr_task_node, pid + 1, p)
<1>1. /\ pid \in Nat /\ QueueSound(queue, pid) /\ Fits(c, queue, pid)
      /\ pid + 1 \in Nat /\ QueueSound(queue', pid + 1)
  BY CurrentFits DEF Inv, TypeOK
<1>2. Fits(c, queue', pid + 1)
  <2>1. c # Null => NodeSound(c, pid + 1) /\ ~QueueHas(queue', c.pid)
    BY DEF Inv, CurrentSound, QueueHas
  <2> QED
    BY <2>1 DEF Fits, NodeSound
<1>3. TaskState(p) = S /\ TaskState(p)' = T
  BY TaskStateIs
<1>4. NodeSound(node, pid + 1) /\ node.pid = pid + 1 /\ node.state = "READY"
  BY <1>1, NewNodeSound
<1>5. ~QueueHas(queue, node.pid)
  BY <1>1, <1>4 DEF QueueHas, QueueSound, NodeSound, Nodes, ProcessNumbers
<1> HIDE DEF node, S, T
<1>6. /\ \A i \in DOMAIN queue' :
            queue'[i] = node \/ \E j \in DOMAIN queue : queue'[i] = queue[j]
      /\ \E i \in DOMAIN queue' : queue'[i] = node
      /\ \A j \in DOMAIN queue : \E i \in DOMAIN queue' : queue'[i] = queue[j]
  <2>1. \A i \in DOMAIN queue : ~queue[i].freed
    BY DEF Inv, FreedSound
  <2>2. queue' \in EnQueue(queue, node) /\ pid <= pid + 1
    BY <1>1 DEF node
  <2> QED
    BY <1>1, <1>4, <1>5, <2>1, <2>2, EnQueueSound
<1>7. CASE p = pid + 1
  <2>1. S = "absent"
    BY <1>1, <1>7, StateInIs DEF S
  <2> PICK i \in DOMAIN queue' : queue'[i] = node
    BY <1>6
  <2>2. T = "READY"
    BY <1>1, <1>2, <1>4, <1>7, StateInIs DEF T
  <2> QED
    BY <1>3, <1>7, <2>1, <2>2
<1>8. CASE p # pid + 1
  <2>1. CASE p > pid
    <3>1. S = "absent" /\ T = "absent"
      BY <1>1, <1>2, <1>8, <2>1, StateInIs DEF S, T
    <3> QED
      BY <1>3, <1>8, <3>1
  <2>2. CASE p <= pid /\ c.pid = p
    <3>1. S = T
      BY <1>1, <1>2, <2>2, StateInIs DEF S, T
    <3> QED
      BY <1>3, <1>8, <3>1
  <2>3. CASE p <= pid /\ c.pid # p /\ QueueHas(queue, p)
    <3> PICK j \in DOMAIN queue : queue[j].pid = p
      BY <2>3 DEF QueueHas
    <3> PICK i \in DOMAIN queue' : queue'[i] = queue[j]
      BY <1>6
    <3>1. S = queue[j].state
      BY <1>1, StateInIs DEF S
    <3>2. T = queue'[i].state
      BY <1>1, <1>2, StateInIs DEF T
    <3> QED
      BY <1>3, <1>8, <3>1, <3>2
  <2>4. CASE p <= pid /\ c.pid # p /\ ~QueueHas(queue, p)
    <3>1. ~QueueHas(queue', p)
      BY <1>4, <1>6, <1>8, <2>4 DEF QueueHas
    <3>2. S = "removed"
      BY <1>1, <2>4, StateInIs DEF S
    <3>3. T = "removed"
      BY <1>1, <1>2, <2>4, <3>1, StateInIs DEF T
    <3> QED
      BY <1>3, <1>8, <3>2, <3>3
  <2> QED
    BY <1>1, <2>1, <2>2, <2>3, <2>4
<1> QED
  BY <1>7, <1>8

\* "remove" makes one task a removed one; no other task is touched.
LEMMA RemovedStates ==
    ASSUME Inv, Inv', ~user.removeBetween, NEW p \in 1 .. pid,
           RemoveQueued(p) \/ RemoveCurrent(p), NEW r \in Nat \ {0}
    PROVE  IF r = p
           THEN TaskState(r) # "absent" /\ TaskState(r)' = "removed"
           ELSE TaskState(r)' = TaskState(r)
<1> DEFINE c == curr_task_node
           S == StateIn(queue, curr_task_node, pid, r)
           T == StateIn(queue', curr_task_node', pid, r)
<1>1. /\ pid \in Nat /\ QueueSound(queue, pid) /\ Fits(c, queue, pid)
      /\ pid' = pid /\ QueueSound(queue', pid)
  BY CurrentFits DEF Inv, TypeOK, RemoveQueued, RemoveCurrent
<1>2. TaskState(r) = S /\ TaskState(r)' = T
  BY <1>1, TaskStateIs
<1>3. curr_task_node' = Null /\ Fits(Null, queue', pid)
  BY DEF RemoveQueued, RemoveCurrent, Fits
<1>4. S # "absent" <=> r <= pid
  <2>1. \A s \in {"READY", "WAITING", "TERMINATED", "RUNNING"} : s # "absent"
    OBVIOUS
  <2>2. CASE r > pid
    BY <1>1, <2>2, StateInIs
  <2>3. CASE r <= pid /\ c.pid = r
    <3>1. c.state \in {"READY", "WAITING", "TERMINATED"}
      BY <2>3, NullIsNoNode DEF Inv, TypeOK, Nodes
    <3> QED
      BY <1>1, <2>3, <3>1, StateInIs
  <2>4. CASE r <= pid /\ c.pid # r /\ QueueHas(queue, r)
    <3> PICK j \in DOMAIN queue : queue[j].pid = r
      BY <2>4 DEF QueueHas
    <3>1. queue[j].state \in {"READY", "WAITING", "TERMINATED"}
      BY <1>1 DEF QueueSound, NodeSound, Nodes
    <3>2. S = queue[j].state
      BY <1>1, StateInIs
    <3> HIDE DEF S
    <3> QED
      BY <2>4, <3>1, <3>2
  <2>5. CASE r <= pid /\ c.pid # r /\ ~QueueHas(queue, r)
    BY <1>1, <2>5, StateInIs
  <2> QED
    BY <1>1, <2>2, <2>3, <2>4, <2>5
<1> HIDE DEF S, T
<1>5. CASE RemoveCurrent(p)
  <2>1. c # Null /\ c.pid = p /\ queue' = queue
    BY <1>5 DEF RemoveCurrent
  <2>2. CASE r = p
    <3>1. ~QueueHas(queue', r) /\ r <= pid
      BY <2>1, <2>2 DEF Inv, CurrentSound, QueueHas
    <3>2. T = "removed"
      BY <1>1, <1>3, <3>1, NullIsNoNode, StateInIs DEF T
    <3> QED
      BY <1>2, <1>4, <2>2, <3>1, <3>2
  <2>3. CASE r # p
    <3>1. CASE QueueHas(queue, r)
      <4> PICK j \in DOMAIN queue : queue[j].pid = r
        BY <3>1 DEF QueueHas
      <4>1. S = queue[j].state
        BY <1>1, StateInIs DEF S
      <4>2. T = queue[j].state
        BY <1>1, <1>3, <2>1, StateInIs DEF T
      <4> QED
        BY <1>2, <2>3, <4>1, <4>2
    <3>2. CASE ~QueueHas(queue, r)
      <4>1. S = T
        BY <1>1, <1>3, <2>1, <2>3, <3>2, NullIsNoNode, StateInIs DEF S, T
      <4> QED
        BY <1>2, <2>3, <4>1
    <3> QED
      BY <3>1, <3>2
  <2> QED
    BY <2>2, <2>3
<1>6. CASE RemoveQueued(p)
  <2> PICK i \in DOMAIN queue : /\ queue[i].pid = p
                                /\ i \notin {1, Len(queue)} => user.removeBetween
                                /\ queue' = RemoveNode(queue, i)
    BY <1>6 DEF RemoveQueued
  <2>1. queue' = RemoveAt(queue, i) /\ c = Null
    BY <1>1, <1>6, RemoveNodeSound DEF RemoveQueued
  <2>2. /\ \A j \in DOMAIN queue' : \E k \in DOMAIN queue :
              k # i /\ queue'[j] = queue[k]
        /\ \A k \in DOMAIN queue : k # i =>
              \E j \in DOMAIN queue' : queue'[j] = queue[k]
        /\ ~QueueHas(queue', p)
    BY <1>1, <2>1, RemoveAtSound
  <2>3. CASE r = p
    <3>1. T = "removed"
      BY <1>1, <1>3, <2>2, <2>3, NullIsNoNode, StateInIs DEF T
    <3> QED
      BY <1>2, <1>4, <2>3, <3>1
  <2>4. CASE r # p
    <3>1. CASE QueueHas(queue, r)
      <4> PICK k \in DOMAIN queue : queue[k].pid = r
        BY <3>1 DEF QueueHas
      <4> PICK j \in DOMAIN queue' : queue'[j] = queue[k]
        BY <2>2, <2>4
      <4>1. S = queue[k].state
        BY <1>1, StateInIs DEF S
      <4>2. T = queue'[j].state
        BY <1>1, <1>3, StateInIs DEF T
      <4> QED
        BY <1>2, <2>4, <4>1, <4>2
    <3>2. CASE ~QueueHas(queue, r)
      <4>1. ~QueueHas(queue', r)
        BY <2>2, <3>2 DEF QueueHas
      <4>2. S = T
        BY <1>1, <1>3, <2>1, <3>2, <4>1, NullIsNoNode, StateInIs DEF S, T
      <4> QED
        BY <1>2, <2>4, <4>2
    <3> QED
      BY <3>1, <3>2
  <2> QED
    BY <2>3, <2>4
<1> QED
  BY <1>5, <1>6

\* The state of the life cycle: one that never changes for a user who removes
\* tasks in the middle of the queue.
States == [p \in Pids |-> IF user.removeBetween THEN "absent" ELSE TaskState(p)]
Prompt == shellmode \/ user.removeBetween

\* The tasks that are followed have numbers that can be given to tasks.
LEMMA PidsArePositive == Pids \subseteq Nat \ {0}
<1>1. MaxTask \in Nat
  BY UserAssumption DEF MaxTask
<1> QED
  BY <1>1 DEF Pids

\* A step in which every task stays or moves is one of the life cycle.
LEMMA MovesAreRun ==
    ASSUME Inv', user' = user, ~user.removeBetween,
           \A p \in Nat \ {0} : Moved(TaskState(p), TaskState(p)')
    PROVE  Lifecycle!Run
<1>1. /\ pid' \in Nat /\ QueueSound(queue', pid')
      /\ Fits(curr_task_node', queue', pid') /\ shellmode' \in BOOLEAN
  BY DEF Inv, TypeOK, CurrentSound, NodeSound, Fits, QueueHas
<1>2. \A p \in Pids : /\ TaskState(p)' \in Lifecycle!States
                      /\ TaskState(p)' = "RUNNING" => curr_task_node'.pid = p
  BY <1>1, PidsArePositive, TaskStateIs, StateInType
<1>3. /\ States = [p \in Pids |-> TaskState(p)]
      /\ States' = [p \in Pids |-> TaskState(p)']
  BY DEF States
<1>4. States' \in [Pids -> Lifecycle!States]
  BY <1>2, <1>3
<1>5. \A p \in Pids : States'[p] # States[p] =>
                         <<States[p], States'[p]>> \in Lifecycle!Moves
  BY <1>3, PidsArePositive DEF Moved
<1>6. Lifecycle!OneRuns(States')
  BY <1>2, <1>3 DEF Lifecycle!OneRuns
<1>7. Prompt' \in BOOLEAN
  BY DEF Prompt
<1> QED
  BY <1>4, <1>5, <1>6, <1>7 DEF Lifecycle!Run, States, Prompt

\* A new task, when it is one of those followed.
LEMMA CreatesTask ==
    ASSUME Inv, user' = user, ~user.removeBetween, shellmode' = shellmode,
           \A p \in Nat \ {0} :
              IF p = pid + 1
              THEN TaskState(p) = "absent" /\ TaskState(p)' = "READY"
              ELSE TaskState(p)' = TaskState(p)
    PROVE  [Lifecycle!Next]_<<States, Prompt>>
<1>1. /\ States = [p \in Pids |-> TaskState(p)]
      /\ States' = [p \in Pids |-> TaskState(p)']
      /\ Prompt' = Prompt
  BY DEF States, Prompt
<1>2. CASE pid + 1 \in Pids
  <2>1. States[pid + 1] = "absent"
    BY <1>1, <1>2, PidsArePositive
  <2>2. States' = [States EXCEPT ![pid + 1] = "READY"]
    BY <1>1, <1>2, PidsArePositive
  <2>3. Lifecycle!Create(pid + 1)
    BY <1>1, <2>1, <2>2 DEF Lifecycle!Create, States, Prompt
  <2> QED
    BY <1>2, <2>3 DEF Lifecycle!Next
<1>3. CASE pid + 1 \notin Pids
  BY <1>1, <1>3, PidsArePositive
<1> QED
  BY <1>2, <1>3

\* A task that is removed, when it is one of those followed.
LEMMA RemovesTask ==
    ASSUME Inv, user' = user, ~user.removeBetween, NEW t, shellmode = TRUE,
           shellmode' = shellmode,
           \A p \in Nat \ {0} :
              IF p = t
              THEN TaskState(p) # "absent" /\ TaskState(p)' = "removed"
              ELSE TaskState(p)' = TaskState(p)
    PROVE  [Lifecycle!Next]_<<States, Prompt>>
<1>1. /\ States = [p \in Pids |-> TaskState(p)]
      /\ States' = [p \in Pids |-> TaskState(p)']
      /\ Prompt' = Prompt /\ Prompt
  BY DEF States, Prompt
<1>2. CASE t \in Pids
  <2>1. States[t] # "absent"
    BY <1>1, <1>2, PidsArePositive
  <2>2. States' = [States EXCEPT ![t] = "removed"]
    BY <1>1, <1>2, PidsArePositive
  <2>3. Lifecycle!Remove(t)
    BY <1>1, <2>1, <2>2 DEF Lifecycle!Remove, States, Prompt
  <2> QED
    BY <1>2, <2>3 DEF Lifecycle!Next
<1>3. CASE t \notin Pids
  BY <1>1, <1>3, PidsArePositive
<1> QED
  BY <1>2, <1>3

\* The steps that change no more than the states of tasks where they are.
LEMMA InPlaceSteps ==
    ASSUME Inv, Inv', Next, ~user.removeBetween,
           \/ WalkFreed \/ Start \/ ScheduleFreed \/ Tick \/ TickFreed \/ CtrlZ
           \/ Compute \/ Suspend \/ Wake \/ WakeFreed \/ Return,
           NEW p \in Nat \ {0}
    PROVE  Moved(TaskState(p), TaskState(p)')
<1>1. QueueSound(queue, pid) /\ curr_task_node \in Nodes \cup {Null}
  BY DEF Inv, TypeOK
<1>2. CASE \/ WalkFreed \/ Start \/ ScheduleFreed \/ TickFreed \/ Compute
           \/ WakeFreed
  BY <1>2, InPlace
  DEF WalkFreed, Start, ScheduleFreed, TickFreed, Compute, WakeFreed, Crash
<1>3. CASE CtrlZ
  <2>1. pid' = pid /\ queue' = queue
    BY <1>3 DEF CtrlZ
  <2>2. curr_task_node # Null =>
           curr_task_node' = [curr_task_node EXCEPT !.ctx = cpu]
    BY <1>3 DEF CtrlZ
  <2>3. curr_task_node = Null => curr_task_node' = curr_task_node
    BY <1>3 DEF CtrlZ
  <2>4. /\ curr_task_node'.pid = curr_task_node.pid
        /\ curr_task_node # Null => curr_task_node'.state = curr_task_node.state
    BY <1>1, <2>2, <2>3 DEF Nodes
  <2> QED
    BY <2>1, <2>4, InPlace
<1>4. CASE Tick
  <2>1. pid' = pid /\ queue' = [i \in DOMAIN queue |-> Aged(queue[i])]
    BY <1>4 DEF Tick
  <2>2. \/ curr_task_node' = curr_task_node
        \/ /\ curr_task_node # Null
           /\ curr_task_node' = [curr_task_node EXCEPT !.ctx = cpu]
    BY <1>4 DEF Tick
  <2>3. /\ curr_task_node'.pid = curr_task_node.pid
        /\ curr_task_node # Null => curr_task_node'.state = curr_task_node.state
    BY <1>1, <2>2 DEF Nodes
  <2>4. ASSUME NEW n, NodeSound(n, pid)
        PROVE  /\ Aged(n).pid = n.pid
               /\ \/ Aged(n).state = n.state
                  \/ n.state = "WAITING" /\ Aged(n).state = "READY"
    BY <2>4 DEF Aged, NodeSound, Nodes
  <2>5. \A i \in DOMAIN queue :
           /\ queue'[i].pid = queue[i].pid
           /\ \/ queue'[i].state = queue[i].state
              \/ queue[i].state = "WAITING" /\ queue'[i].state = "READY"
    BY <1>1, <2>1, <2>4 DEF QueueSound
  <2>6. DOMAIN queue' = DOMAIN queue
    BY <2>1
  <2> QED
    BY <2>1, <2>3, <2>5, <2>6, InPlace
<1>5. CASE Suspend \/ Return
  <2>1. cpu.at = "task" /\ pid' = pid /\ queue' = queue
    BY <1>5 DEF Suspend, Return, InTask
  <2>2. \/ curr_task_node' = [curr_task_node EXCEPT !.msec_10 = Msec[cpu.name],
                                                    !.state = "WAITING",
                                                    !.ctx = NextCall]
        \/ curr_task_node' = [curr_task_node EXCEPT !.state = "TERMINATED"]
    BY <1>5, <2>1, InTaskIs DEF Suspend, Return
  <2>3. /\ curr_task_node'.pid = curr_task_node.pid
        /\ curr_task_node.state = "READY"
        /\ curr_task_node'.state \in {"WAITING", "TERMINATED"}
    BY <2>1, <2>2, InTaskIs DEF Nodes
  <2> QED
    BY <2>1, <2>3, InPlace
<1>6. CASE Wake
  <2> PICK places : queue' = WakeNodes(places)
    BY <1>6 DEF Wake
  <2>1. pid' = pid /\ curr_task_node' = curr_task_node
    BY <1>6 DEF Wake
  <2>2. /\ DOMAIN queue' = DOMAIN queue
        /\ \A i \in DOMAIN queue :
              /\ queue'[i].pid = queue[i].pid
              /\ \/ queue'[i].state = queue[i].state
                 \/ queue[i].state = "WAITING" /\ queue'[i].state = "READY"
    BY <1>1, WakeNodesSound
  <2> QED
    BY <2>1, <2>2, InPlace
<1> QED
  BY <1>2, <1>3, <1>4, <1>5, <1>6

\* Every step of the scheduling simulator is one of the life cycle, or none.
LEMMA LifecycleStep ==
    ASSUME Inv, Inv', [Next]_vars
    PROVE  [Lifecycle!Next]_<<States, Prompt>>
<1>1. CASE UNCHANGED vars
  BY <1>1 DEF vars, States, Prompt, TaskState
<1>2. CASE Next /\ user.removeBetween
  <2>1. user' = user
    BY <1>2 DEF Next
  <2>2. States' = States
    BY <1>2, <2>1 DEF States
  <2>3. Prompt' = Prompt
    BY <1>2, <2>1 DEF Prompt
  <2> QED
    BY <2>2, <2>3
<1>3. CASE Next /\ ~user.removeBetween
  <2>0. user' = user /\ pid \in Nat
    BY <1>3, Places DEF Next
  <2>1. ASSUME \A p \in Nat \ {0} : Moved(TaskState(p), TaskState(p)')
        PROVE  [Lifecycle!Next]_<<States, Prompt>>
    BY <1>3, <2>0, <2>1, MovesAreRun DEF Lifecycle!Next
  <2>2. ASSUME NEW a \in user.adds, Add(a)
        PROVE  [Lifecycle!Next]_<<States, Prompt>>
    <3>1. /\ a.name \in TaskNames /\ a.time_quantum \in Quanta
          /\ a.priority \in Priorities
      BY UserAssumption DEF Inv
    <3>2. /\ pid' = pid + 1
          /\ queue' \in EnQueue(queue,
                           NewNode(pid + 1, a.name, a.time_quantum, a.priority))
          /\ curr_task_node' = curr_task_node /\ shellmode' = shellmode
      BY <2>2 DEF Add
    <3> QED
      BY <1>3, <2>0, <3>1, <3>2, NewTaskStates, CreatesTask
  <2>3. CASE Create
    <3>1. "task3" \in TaskNames /\ "S" \in Quanta /\ "L" \in Priorities
      BY DEF TaskNames, Quanta, Priorities
    <3>2. /\ pid' = pid + 1
          /\ queue' \in EnQueue(queue, NewNode(pid + 1, "task3", "S", "L"))
          /\ curr_task_node' = curr_task_node /\ shellmode' = shellmode
      BY <2>3 DEF Create
    <3> QED
      BY <1>3, <2>0, <3>1, <3>2, NewTaskStates, CreatesTask
  <2>4. ASSUME NEW p \in 1 .. pid, RemoveQueued(p) \/ RemoveCurrent(p)
        PROVE  [Lifecycle!Next]_<<States, Prompt>>
    <3>1. cpu = Shell /\ shellmode' = shellmode
      BY <2>4 DEF RemoveQueued, RemoveCurrent, AtPrompt
    <3>2. shellmode /\ shellmode \in BOOLEAN
      BY <3>1 DEF Inv, CpuSound, TypeOK
    <3>3. shellmode = TRUE
      BY <3>2, Zenon
    <3> QED
      BY <1>3, <2>0, <2>4, <3>1, <3>3, RemovedStates, RemovesTask
  <2>5. CASE Dispatch \/ RunIdle \/ EndSimulation
    BY <1>3, <2>1, <2>5, ScheduleMoves
  <2>6. CASE \/ WalkFreed \/ Start \/ ScheduleFreed \/ Tick \/ TickFreed \/ CtrlZ
             \/ Compute \/ Suspend \/ Wake \/ WakeFreed \/ Return
    BY <1>3, <2>1, <2>6, InPlaceSteps
  <2> QED
    BY <1>3, <2>2, <2>3, <2>4, <2>5, <2>6
    DEF Next, ShellCommand, Schedule, TaskStep
<1> QED
  BY <1>1, <1>2, <1>3

\* At first every task is absent.
LEMMA LifecycleInit == Init => Lifecycle!Init
<1> SUFFICES ASSUME Init PROVE Lifecycle!Init
  OBVIOUS
<1>1. pid = 0 /\ curr_task_node = Null /\ shellmode = TRUE
  BY SMT DEF Init
<1>2. QueueSound(queue, pid) /\ Fits(curr_task_node, queue, pid) /\ pid \in Nat
  BY InitSound, CurrentFits DEF Inv, TypeOK
<1>3. \A p \in Pids : TaskState(p) = "absent"
  BY <1>1, <1>2, PidsArePositive, TaskStateIs, StateInIs
<1>4. [p \in Pids |-> IF user.removeBetween THEN "absent" ELSE TaskState(p)]
         = [p \in Pids |-> "absent"]
  BY <1>3
<1>5. (shellmode \/ user.removeBetween) = TRUE
  BY <1>1, Zenon
<1> QED
  BY <1>4, <1>5 DEF Lifecycle!Init

\* Every execution of the simulator is one of the life cycle that TaskLifecycle
\* states, for any number of tasks, unless the user removes one in the middle of
\* the queue: at most one task runs, a task that has ended stays ended, and
\* none disappears unless it is removed from the shell.
THEOREM ImplementsLifecycle == Spec => LifecycleSpec
<1>1. Inv /\ Inv' /\ [Next]_vars => [Lifecycle!Next]_<<States, Prompt>>
  BY LifecycleStep
<1> QED
  BY <1>1, LifecycleInit, InvHolds, PTL
  DEF Spec, LifecycleSpec, Lifecycle!Spec, States, Prompt

=============================================================================
