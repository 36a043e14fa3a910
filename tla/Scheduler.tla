----------------------------- MODULE Scheduler -----------------------------
(***************************************************************************)
(* The scheduler of hw3-scheduling-simulation: tasks, an idle loop, the    *)
(* scheduler and a shell are coroutines (ucontext) of one process.  A      *)
(* 10 ms timer and Ctrl-Z are signals whose handlers switch context.       *)
(*                                                                         *)
(* A saved context is the point where its coroutine resumes.  cpu is the   *)
(* context that is running.  The code between two context switches is one  *)
(* step; signals arrive while a task or the idle loop is running, where    *)
(* the program spends its time (SignalPoint).                              *)
(*                                                                         *)
(* Definitions called Bad... are faulty variants of the one that follows   *)
(* them: each breaks one of the properties.                                *)
(***************************************************************************)
EXTENDS Integers, Sequences, SequencesExt

CONSTANTS
    Users,           \* see user
    MaxPid,          \* bound: the user adds no task once pid has reached it
    MaxQueuing,      \* bound: queuing_time is not counted beyond it
    Msec,            \* Msec[name]: argument of the task's hw_suspend call
    NCreate          \* tasks created by task6 (5)

TaskNames  == {"task1", "task2", "task3", "task4", "task5", "task6"}
Quanta     == {"S", "L"}
Priorities == {"H", "L", "other"}

ASSUME UserAssumption ==
    /\ Users \subseteq
          [adds : SUBSET [name : TaskNames, time_quantum : Quanta,
                          priority : Priorities],
           ctrlZWhileIdle : BOOLEAN, removeBetween : BOOLEAN]
    /\ MaxPid \in Nat
    /\ MaxQueuing \in Nat
    /\ Msec \in [TaskNames -> Nat]
    /\ NCreate \in Nat

VARIABLES
    user,                \* what the user does: adds: names, quanta, priorities
                         \* of tasks; ctrlZWhileIdle: Ctrl-Z while no task is
                         \* current; removeBetween: remove a task that is
                         \* neither first nor last
    pid,                 \* last process number given out
    queue,               \* queuing_task, from front to rear
    curr_task_node,      \* the node taken off the queue to run, or Null
    cur_time_quantum,    \* ticks left to the running task
    shellmode,
    simulation_running,
    cpu,                 \* the running context
    scheduler,           \* saved context of the scheduler
    idle_ctx,            \* saved context of the idle loop
    fault                \* "freed node" once freed memory has been read

vars == <<user, pid, queue, curr_task_node, cur_time_quantum, shellmode,
          simulation_running, cpu, scheduler, idle_ctx, fault>>
-----------------------------------------------------------------------------
(* Contexts, nodes and task programs                                        *)

\* "loop" is the head of scheduling_simulator()'s loop, "after_task" the
\* point behind its switch to a task; pos counts the calls a task has made
\* and child is the local variable of task5.
TaskCtx(p, name, pos, child) ==
    [at |-> "task", pid |-> p, name |-> name, pos |-> pos, child |-> child]
Ctx(at) == [at |-> at, pid |-> 0, name |-> "-", pos |-> 0, child |-> 0]
Shell   == Ctx("shell")
Idle    == Ctx("idle")

Null == [pid |-> 0]      \* curr_task_node == NULL; no node has pid 0

NewNode(p, name, quantum, priority) ==
    [pid |-> p, name |-> name, state |-> "READY", queuing_time |-> 0,
     time_quantum |-> quantum, priority |-> priority, msec_10 |-> 0,
     ctx |-> TaskCtx(p, name, 1, 0), freed |-> FALSE]

\* task.c as sequences of calls; a task returns after the last one.
Program(name) ==
    CASE name = "task1" -> <<"compute">>
      [] name = "task2" -> <<"loop">>
      [] name \in {"task3", "task4"} -> <<"suspend">>
      [] name = "task5" -> <<"create", "suspend", "wake_pid">>
      [] name = "task6" -> [i \in 1 .. NCreate |-> "create"]
                              \o <<"suspend", "wake_name">>

\* enQueue(): the node malloc returns may be one that was freed while still
\* linked; appending it cuts off what was linked behind it.
EnQueue(q, node) ==
    {Append(q, node)} \cup
    {Append(SubSeq(q, 1, k - 1), node) : k \in {j \in DOMAIN q : q[j].freed}}

\* A walk over the first n nodes reads freed memory.
ReadsFreed(q, n) == \E j \in 1 .. n : q[j].freed

Running == fault = "none"

Crash == /\ fault' = "freed node"
         /\ UNCHANGED <<pid, queue, curr_task_node, cur_time_quantum,
                        shellmode, simulation_running, cpu, scheduler,
                        idle_ctx>>

Init ==
    /\ user \in Users
    /\ pid = 0
    /\ queue = <<>>
    /\ curr_task_node = Null
    /\ cur_time_quantum = 100000
    /\ shellmode = TRUE
    /\ simulation_running = FALSE
    /\ cpu = Shell
    /\ scheduler = Ctx("none")
    /\ idle_ctx = Idle
    /\ fault = "none"

-----------------------------------------------------------------------------
(* The shell: execution()                                                   *)

AtPrompt == Running /\ cpu = Shell

\* add TASK_NAME -t TIME_QUANTUM -p PRIORITY
Add(a) ==
    /\ AtPrompt
    /\ pid < MaxPid
    /\ pid' = pid + 1
    /\ queue' \in EnQueue(queue,
                     NewNode(pid + 1, a.name, a.time_quantum, a.priority))
    /\ UNCHANGED <<curr_task_node, cur_time_quantum, shellmode,
                   simulation_running, cpu, scheduler, idle_ctx, fault>>

\* removeNode(): the front is unlinked, the rear is unlinked and freed, a node
\* in between is freed but stays linked.
RemoveNode(q, i) == IF i = 1 THEN Tail(q)
                    ELSE IF i = Len(q) THEN Front(q)
                    ELSE [q EXCEPT ![i].freed = TRUE]

\* remove pid, when no task is current
RemoveQueued(p) ==
    /\ AtPrompt
    /\ curr_task_node = Null
    /\ \E i \in DOMAIN queue :
          /\ queue[i].pid = p
          /\ i \notin {1, Len(queue)} => user.removeBetween
          /\ ~ReadsFreed(queue, i)
          /\ queue' = RemoveNode(queue, i)
    /\ UNCHANGED <<pid, curr_task_node, cur_time_quantum, shellmode,
                   simulation_running, cpu, scheduler, idle_ctx, fault>>

\* remove pid, when a task is current: any other pid is ignored
RemoveCurrent(p) ==
    /\ AtPrompt
    /\ curr_task_node # Null
    /\ p = curr_task_node.pid
    /\ curr_task_node' = Null
    /\ UNCHANGED <<pid, queue, cur_time_quantum, shellmode,
                   simulation_running, cpu, scheduler, idle_ctx, fault>>

\* ps, or remove with a number behind a freed node: the walk reads that node.
WalkFreed == /\ AtPrompt
             /\ ReadsFreed(queue, Len(queue))
             /\ Crash

\* start: the first one creates the scheduler's context
Start ==
    /\ AtPrompt
    /\ scheduler' = IF simulation_running THEN scheduler ELSE Ctx("loop")
    /\ shellmode' = FALSE
    /\ cpu' = IF curr_task_node = Null THEN scheduler' ELSE curr_task_node.ctx
    /\ UNCHANGED <<pid, queue, curr_task_node, cur_time_quantum,
                   simulation_running, idle_ctx, fault>>

-----------------------------------------------------------------------------
(* scheduling_simulator()                                                   *)

\* Tasks that have ended count as work.
BadHasWork(q) == q # <<>>

HasWork(q) == \E i \in DOMAIN q : q[i].state \in {"READY", "WAITING"}

Ready(q, priority) ==
    {i \in DOMAIN q : q[i].state = "READY" /\ q[i].priority = priority}

\* The second search, for low priority, is left out.
BadPopsHigh(q, i) ==
    \/ Len(q) = 1 /\ i = 1 /\ q[1].state = "READY"
    \/ Len(q) > 1 /\ i \in Ready(q, "H") /\ \A j \in Ready(q, "H") : i <= j

\* Priorities are not looked at.
BadPopsFirst(q, i) ==
    /\ q[i].state = "READY"
    /\ \A j \in DOMAIN q : q[j].state = "READY" => i <= j

\* popNode(): a node that is alone is taken whatever its priority.
Pops(q, i) ==
    \/ Len(q) = 1 /\ i = 1 /\ q[1].state = "READY"
    \/ /\ Len(q) > 1
       /\ \/ i \in Ready(q, "H")
          \/ i \in Ready(q, "L") /\ Ready(q, "H") = {}
       /\ \A j \in Ready(q, q[i].priority) : i <= j

\* The nodes popNode() looks at before it takes node i (0 when it takes none).
PopReads(q, i) == IF i > 0 /\ q[i].priority = "H" THEN i ELSE Len(q)

InScheduler == Running /\ cpu.at \in {"loop", "after_task"}

\* The node is not linked again.
BadRequeuedNot == {queue}

\* The node is linked at the front.
BadRequeuedFront == IF cpu.at = "after_task" /\ curr_task_node # Null
                    THEN {<<curr_task_node>> \o queue}
                    ELSE {queue}

\* Back from a task its node is linked again at the rear.
Requeued == IF cpu.at = "after_task" /\ curr_task_node # Null
            THEN EnQueue(queue, curr_task_node)
            ELSE {queue}

\* time_quantum is honoured and nothing else changed: the first of the two ticks
\* saves the task as if it were the idle loop.
BadQuantum(node) == IF node.time_quantum = "L" THEN 2 ELSE 1

\* The quantum is chosen by queuing_time, a multiple of 10, where time_quantum
\* was meant ('L' is 76).
Quantum(node) == IF node.queuing_time = 76 THEN 2 ELSE 1

\* The node that is picked stays in the queue.
BadDispatch ==
    /\ InScheduler
    /\ \E q \in Requeued : \E i \in DOMAIN q :
          /\ Pops(q, i)
          /\ queue' = q
          /\ curr_task_node' = [q[i] EXCEPT !.state = "READY"]
          /\ cur_time_quantum' = Quantum(q[i])
          /\ cpu' = q[i].ctx
    /\ scheduler' = Ctx("after_task")
    /\ simulation_running' = TRUE
    /\ UNCHANGED <<pid, shellmode, idle_ctx, fault>>

Dispatch ==
    /\ InScheduler
    /\ \E q \in Requeued : \E i \in DOMAIN q :
          /\ Pops(q, i)
          /\ ~ReadsFreed(q, PopReads(q, i))
          /\ queue' = RemoveAt(q, i)
          /\ curr_task_node' = [q[i] EXCEPT !.state = "READY"]
          /\ cur_time_quantum' = Quantum(q[i])
          /\ cpu' = q[i].ctx
    /\ scheduler' = Ctx("after_task")
    /\ simulation_running' = TRUE
    /\ UNCHANGED <<pid, shellmode, idle_ctx, fault>>

RunIdle ==
    /\ InScheduler
    /\ \E q \in Requeued :
          /\ HasWork(q)
          /\ \A i \in DOMAIN q : ~Pops(q, i)
          /\ ~ReadsFreed(q, Len(q))
          /\ queue' = q
    /\ curr_task_node' = Null
    /\ cur_time_quantum' = 1
    /\ scheduler' = Ctx("loop")
    /\ cpu' = idle_ctx
    /\ simulation_running' = TRUE
    /\ UNCHANGED <<pid, shellmode, idle_ctx, fault>>

\* No work is left: scheduling_simulator() returns to the shell.
EndSimulation ==
    /\ InScheduler
    /\ \E q \in Requeued :
          /\ ~HasWork(q)
          /\ ~ReadsFreed(q, Len(q))
          /\ queue' = q
    /\ curr_task_node' = Null
    /\ simulation_running' = FALSE
    /\ shellmode' = TRUE
    /\ cpu' = Shell
    /\ UNCHANGED <<pid, cur_time_quantum, scheduler, idle_ctx, fault>>

ScheduleFreed ==
    /\ InScheduler
    /\ \E q \in Requeued :
          \/ \E i \in DOMAIN q : Pops(q, i) /\ ReadsFreed(q, PopReads(q, i))
          \/ (\A i \in DOMAIN q : ~Pops(q, i)) /\ ReadsFreed(q, Len(q))
    /\ Crash

Schedule == Dispatch \/ RunIdle \/ EndSimulation \/ ScheduleFreed

-----------------------------------------------------------------------------
(* Signals                                                                  *)

\* No signal is masked, so they also arrive in scheduling_simulator(), in
\* enQueue() and behind the prompt.  That is assumed not to happen: hardly any
\* time is spent there.
SignalPoint == Running /\ cpu.at \in {"task", "idle"}

\* The time left is counted below zero.
BadAgedBelow(n) ==
    IF n.state # "WAITING" THEN n
    ELSE [n EXCEPT !.msec_10 = @ - 1,
                   !.state = IF n.msec_10 = 0 THEN "READY" ELSE @]

\* The time left is not counted.
BadAgedNever(n) ==
    IF n.state = "WAITING" /\ n.msec_10 = 0 THEN [n EXCEPT !.state = "READY"]
                                           ELSE n

\* setQueueAndSuspendTime() for one node
Aged(n) ==
    IF n.state = "TERMINATED" THEN n
    ELSE [n EXCEPT
            !.queuing_time = IF @ < MaxQueuing THEN @ + 10 ELSE @,
            !.msec_10 = IF n.state = "WAITING" /\ @ # 0 THEN @ - 1 ELSE @,
            !.state = IF @ = "WAITING" /\ n.msec_10 = 0 THEN "READY" ELSE @]

\* handlerTimeFrame(): the interrupted context is taken for that of the
\* current task when its quantum is used up and for the idle loop otherwise.
\* cur_time_quantum is not counted below -1.
Tick ==
    /\ SignalPoint
    /\ ~ReadsFreed(queue, Len(queue))
    /\ queue' = [i \in DOMAIN queue |-> Aged(queue[i])]
    /\ cur_time_quantum' = IF cur_time_quantum < 0 THEN -1
                                                   ELSE cur_time_quantum - 1
    /\ IF curr_task_node # Null /\ cur_time_quantum' = 0
       THEN /\ curr_task_node' = [curr_task_node EXCEPT !.ctx = cpu]
            /\ UNCHANGED idle_ctx
       ELSE /\ idle_ctx' = cpu
            /\ UNCHANGED curr_task_node
    /\ cpu' = scheduler
    /\ UNCHANGED <<pid, shellmode, simulation_running, scheduler, fault>>

TickFreed == SignalPoint /\ ReadsFreed(queue, Len(queue)) /\ Crash

\* Whatever is interrupted is saved as the scheduler's context.
BadCtrlZ ==
    /\ SignalPoint
    /\ ~shellmode
    /\ curr_task_node = Null => user.ctrlZWhileIdle
    /\ scheduler' = cpu
    /\ shellmode' = TRUE
    /\ cpu' = Shell
    /\ UNCHANGED <<pid, queue, curr_task_node, cur_time_quantum,
                   simulation_running, idle_ctx, fault>>

\* handlerCtrlZ() and the rest of "start" behind its context switch: without a
\* current task the interrupted context is taken for the scheduler's.
CtrlZ ==
    /\ SignalPoint
    /\ ~shellmode
    /\ curr_task_node = Null => user.ctrlZWhileIdle
    /\ IF curr_task_node = Null
       THEN /\ scheduler' = cpu
            /\ UNCHANGED curr_task_node
       ELSE /\ curr_task_node' = [curr_task_node EXCEPT !.ctx = cpu]
            /\ UNCHANGED scheduler
    /\ shellmode' = TRUE
    /\ cpu' = Shell
    /\ UNCHANGED <<pid, queue, cur_time_quantum, simulation_running, idle_ctx,
                   fault>>

-----------------------------------------------------------------------------
(* Task code                                                                *)

InTask(call) == /\ Running
                /\ cpu.at = "task"
                /\ cpu.pos \in DOMAIN Program(cpu.name)
                /\ Program(cpu.name)[cpu.pos] = call

NextCall == [cpu EXCEPT !.pos = @ + 1]

\* The loop of task1 ends.  (The one of task2 never does.)
Compute ==
    /\ InTask("compute")
    /\ cpu' = NextCall
    /\ UNCHANGED <<pid, queue, curr_task_node, cur_time_quantum, shellmode,
                   simulation_running, scheduler, idle_ctx, fault>>

\* hw_task_create("task3")
Create ==
    /\ InTask("create")
    /\ pid' = pid + 1
    /\ queue' \in EnQueue(queue, NewNode(pid + 1, "task3", "S", "L"))
    /\ cpu' = [NextCall EXCEPT !.child = pid + 1]
    /\ UNCHANGED <<curr_task_node, cur_time_quantum, shellmode,
                   simulation_running, scheduler, idle_ctx, fault>>

\* hw_suspend()
Suspend ==
    /\ InTask("suspend")
    /\ curr_task_node' = [curr_task_node EXCEPT !.msec_10 = Msec[cpu.name],
                                                !.state = "WAITING",
                                                !.ctx = NextCall]
    /\ cpu' = scheduler
    /\ UNCHANGED <<pid, queue, cur_time_quantum, shellmode,
                   simulation_running, scheduler, idle_ctx, fault>>

\* wakeNode() for the nodes at the places given
WakeNodes(places) ==
    [i \in DOMAIN queue |->
        IF i \in places /\ queue[i].state = "WAITING"
        THEN [queue[i] EXCEPT !.state = "READY", !.msec_10 = 0]
        ELSE queue[i]]

\* A walk over the queue reads freed memory before it finds one of the nodes
\* that end it.
MeetsFreed(found) ==
    \E j \in DOMAIN queue : queue[j].freed /\ \A i \in found : j <= i

Waiting(p) ==
    {i \in DOMAIN queue : queue[i].pid = p /\ queue[i].state = "WAITING"}

\* hw_wakeup_pid(pid) of task5, which returns once it has woken the task, and
\* hw_wakeup_taskname("task3") of task6, which looks at every node
Wake ==
    /\ \/ /\ InTask("wake_pid")
          /\ ~MeetsFreed(Waiting(cpu.child))
          /\ queue' = WakeNodes(Waiting(cpu.child))
       \/ /\ InTask("wake_name")
          /\ ~MeetsFreed({})
          /\ queue' = WakeNodes({i \in DOMAIN queue : queue[i].name = "task3"})
    /\ cpu' = NextCall
    /\ UNCHANGED <<pid, curr_task_node, cur_time_quantum, shellmode,
                   simulation_running, scheduler, idle_ctx, fault>>

WakeFreed == /\ \/ InTask("wake_pid") /\ MeetsFreed(Waiting(cpu.child))
                \/ InTask("wake_name") /\ MeetsFreed({})
             /\ Crash

\* The task returns into completion().
Return ==
    /\ Running
    /\ cpu.at = "task"
    /\ cpu.pos \notin DOMAIN Program(cpu.name)
    /\ curr_task_node' = IF curr_task_node = Null THEN Null
                         ELSE [curr_task_node EXCEPT !.state = "TERMINATED"]
    /\ cpu' = scheduler
    /\ UNCHANGED <<pid, queue, cur_time_quantum, shellmode,
                   simulation_running, scheduler, idle_ctx, fault>>

TaskStep == Compute \/ Create \/ Suspend \/ Wake \/ WakeFreed \/ Return

-----------------------------------------------------------------------------

ShellCommand == \/ \E a \in user.adds : Add(a)
                \/ \E p \in 1 .. pid : RemoveQueued(p) \/ RemoveCurrent(p)
                \/ WalkFreed
                \/ Start

Next == /\ ShellCommand \/ Schedule \/ Tick \/ TickFreed \/ CtrlZ \/ TaskStep
        /\ UNCHANGED user

Spec == Init /\ [][Next]_vars

-----------------------------------------------------------------------------
(* Properties                                                               *)

MaxTask == MaxPid * (1 + NCreate)        \* with NCreate > 0 no more are created
Pids    == 1 .. MaxTask                  \* the tasks followed below
Queued  == {queue[i].pid : i \in DOMAIN queue}

ProcessNumbers == Nat \ {0}
Contexts == [at : {"shell", "idle", "loop", "after_task", "none"}, pid : {0},
             name : {"-"}, pos : {0}, child : {0}]
    \cup [at : {"task"}, pid : ProcessNumbers, name : TaskNames,
          pos : 1 .. NCreate + 4, child : Nat]
Nodes == [pid : ProcessNumbers, name : TaskNames,
          state : {"READY", "WAITING", "TERMINATED"}, queuing_time : Nat,
          time_quantum : Quanta, priority : Priorities, msec_10 : Nat,
          ctx : Contexts, freed : BOOLEAN]

TypeOK ==
    /\ pid \in Nat
    /\ queue \in Seq(Nodes)
    /\ curr_task_node \in Nodes \cup {Null}
    /\ cur_time_quantum \in Int
    /\ shellmode \in BOOLEAN
    /\ simulation_running \in BOOLEAN
    /\ {cpu, scheduler, idle_ctx} \subseteq Contexts
    /\ fault \in {"none", "freed node"}

\* A task has one node: none is queued twice, or queued while it runs.
OneNodePerTask ==
    /\ \A i, j \in DOMAIN queue : queue[i].pid = queue[j].pid => i = j
    /\ curr_task_node.pid \notin Queued

\* Task code runs as the current task, so that hw_suspend and completion mark
\* the task that called them, and what a node saved is its own task's context,
\* through ticks, Ctrl-Z, start and remove in any order
\* (scheduling_simulator.c:39-44, 89-114, 220-226, 254-267).  Holds as long as
\* signals arrive in task code and the idle loop only (SignalPoint): nothing
\* masks them elsewhere (scheduling_simulator.c:139-142).
TaskContexts ==
    /\ cpu.at = "task" => /\ cpu.pid = curr_task_node.pid
                          /\ curr_task_node.state = "READY"
    /\ \A i \in DOMAIN queue : queue[i].ctx.pid = queue[i].pid
    /\ curr_task_node # Null => curr_task_node.ctx.pid = curr_task_node.pid

\* The timer never saves a task in the place of the idle loop, whatever is
\* suspended, stopped by Ctrl-Z and resumed in between
\* (scheduling_simulator.c:102-114), as long as signals keep to SignalPoint.
IdleContext == idle_ctx = Idle

\* Whenever a task or the idle loop is interrupted the scheduler can resume
\* where it switched away (scheduling_simulator.c:254, "from shell to
\* scheduler").  Does not hold: Ctrl-Z while no task is current breaks it.
SchedulerContext ==
    /\ cpu.at = "task" => scheduler.at = "after_task"
    /\ cpu.at = "idle" => scheduler.at = "loop"

\* Nothing else does, whatever is added, removed, stopped and resumed
\* (scheduling_simulator.c:89-114, 263-267), as long as signals keep to
\* SignalPoint.
ContextSaved == ~user.ctrlZWhileIdle => SchedulerContext

\* With the same exception the idle loop runs only while no task of a known
\* priority could.
WorkConserving ==
    ~user.ctrlZWhileIdle /\ cpu.at = "idle" =>
        Ready(queue, "H") = {} /\ Ready(queue, "L") = {}

\* A task of low priority is never picked while one of high priority is ready,
\* the task that just ran included.
HighFirst ==
    [][Dispatch => curr_task_node'.priority = "H" \/ Ready(queue', "H") = {}]_vars

\* "remove" takes a task out of the queue (scheduling_simulator.c:218).  Does
\* not hold: a node in the middle is freed but stays linked.
NoFreedNodeQueued == \A i \in DOMAIN queue : ~queue[i].freed

\* The scheduler moves tasks through their life cycle and loses none, unless
\* the user removes one in the middle of the queue.
TaskState(p) ==
    LET places == {i \in DOMAIN queue : queue[i].pid = p}
    IN  CASE p > pid -> "absent"
          [] curr_task_node.pid = p ->
                IF curr_task_node.state = "READY" THEN "RUNNING"
                                                  ELSE curr_task_node.state
          [] places # {} -> queue[CHOOSE i \in places : TRUE].state
          [] OTHER -> "removed"

Lifecycle == INSTANCE TaskLifecycle
                WITH Tasks <- Pids,
                     state <- [p \in Pids |-> IF user.removeBetween
                                              THEN "absent" ELSE TaskState(p)],
                     shell <- shellmode \/ user.removeBetween
LifecycleSpec == Lifecycle!Spec

-----------------------------------------------------------------------------
(* Liveness                                                                 *)

\* The timer ticks while a task or the idle loop runs, the scheduler's code
\* runs on, and a task that gets its turn again and again gets on with its
\* code.  Nothing is assumed about the user.
Fairness == /\ WF_vars(Tick /\ UNCHANGED user)
            /\ WF_vars(Schedule /\ UNCHANGED user)
            /\ \A p \in Pids : SF_vars(TaskStep /\ cpu.pid = p /\ UNCHANGED user)

FairSpec == Spec /\ Fairness

IsIn(p, s) == \E i \in DOMAIN queue : queue[i].pid = p /\ queue[i].state = s

\* Among tasks of one priority each that is ready gets its turn, unless the
\* user stops the simulation.
ReadyRuns ==
    \A p \in Pids : IsIn(p, "READY") ~> curr_task_node.pid = p \/ shellmode

\* A suspended task is woken, by the timer or by another task.
WaitingWakes ==
    \A p \in Pids : IsIn(p, "WAITING") ~> ~IsIn(p, "WAITING") \/ shellmode

\* A simulation hands control back to the shell, unless an endless task (task2)
\* is in it.
Endless == \/ \E i \in DOMAIN queue : queue[i].name = "task2"
           \/ curr_task_node # Null /\ curr_task_node.name = "task2"
SimulationEnds == ~shellmode ~> shellmode \/ Endless

=============================================================================
