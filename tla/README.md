# A verification project for operating-system-practice

The repository holds four independent C programs. None has documentation beyond
a title, so what a program promises is read off its code, the comments in it and
its command-line drivers. This directory models all four: the memory allocator
(hw4), at the level of sets and at the level of its linked lists; the scheduling
simulator (hw3); the HTTP server and its recursive client (hw2), alone and
together; and the kernel module that prints the process tree with the tool that
asks it (hw1). TLC checks all of them on small instances; TLAPS proves every
safety property of the allocator, of its lists, of the scheduler and of the HTTP
programs that the runs check, refinements included, for every size of instance.

## 1. The system

| part | state | operations | talks to |
|---|---|---|---|
| hw4 `lib/hw_malloc.c` | `bin[0..10]`, `allocated_heap`, `mmap_alloc_list`, `first_time`, `start_brk`; headers inside the blocks | `hw_malloc`, `hw_free`, `merge` (recursive) | the kernel (`sbrk`, `mmap`, `munmap`); its caller, which writes into the blocks |
| hw4 `hw4_mm_test.c` | none of its own | `alloc N`, `free ADDR`, `print ...` | calls the allocator with any number and any address the user types |
| hw3 shell (`execution`) | `shellmode`, `simulation_running` | `add`, `remove`, `ps`, `start` | switches to the scheduler or to the stopped task |
| hw3 scheduler | contexts `scheduler`, `shell`, `idle_ctx`, `complete_ctx`; `curr_task_node`, `cur_time_quantum` | `scheduling_simulator`, `handlerTimeFrame`, `handlerCtrlZ`, `completion` | coroutines switched with `swapcontext`, from code and from signal handlers |
| hw3 queue | `queuing_task`: list of nodes (state, priority, quantum, `msec_10`, context, stack) | `enQueue`, `popNode`, `removeNode`, `wakeNode`, `setQueueAndSuspendTime`, `hasWork` | used by all of the above and by tasks |
| hw3 tasks (`task.c`) | local variables on their stack | `hw_task_create`, `hw_suspend`, `hw_wakeup_pid`, `hw_wakeup_taskname` | run as the current task |
| hw2 server | one global `request` buffer, an unlocked linked queue, a mutex used with `trylock` | acceptor loop, `doRequest` workers, `response` | sockets; threads over shared memory |
| hw2 client | global `newquery` | `socketAndWrite`, `processResponse`, mutually recursive | the server; one request per file of a tree |
| hw1 kernel module | global buffers `str`, `answerMsg`, `tmpMsg`, `pid`; global loop counters | `recv_netlink_data` and the walks over the process tree | netlink requests of several processes; processes that come and go |
| hw1 tool | none | parses its arguments, sends one request, prints one answer | the kernel module |

What is hard, and what makes each part correct:

* **Allocator.** Sequential, but a long sequence of calls has to keep a heap of
  chunks in order: splits take the free chunk of lowest address whatever its
  size, merges join any two neighbours (not only buddies) and climb through the
  bins one recursive call at a time. Correct means: chunks never overlap nor
  leave the heap, no byte is lost, a free chunk is in the bin of its size,
  what the caller holds is in use and large enough, and the list of mmap areas,
  the areas the kernel has mapped and the areas the caller holds agree.
* **Scheduler.** Four kinds of coroutines of one process, switched by their own
  calls and by two signals. Each handler guesses what it interrupted from
  `curr_task_node` and the quantum and saves the interrupted context under that
  name. Correct means: every saved context is that of the coroutine it is saved
  for, a task has exactly one node, a ready task is not forgotten, a suspended
  one wakes, high priority goes first, and the shell gets control back.
* **Server.** An acceptor and its workers share a queue and one request buffer;
  the mutex is taken with `trylock`, whose result nobody tests, and the acceptor
  does not take it at all. Descriptors are closed by one thread and given to the
  next connection at once; some are never closed. Correct means: every request
  is answered exactly once, with the answer to that request, and nothing in the
  queue is lost.
* **Client.** Two functions that call each other, each level in a thread of its
  own, over one global path. Correct means: it asks for exactly the files of
  the tree and saves each under its own path, and comes to an end also when
  the server does not.
* **Kernel module.** Requests run in the processes that ask, so they interleave,
  over global buffers and global loop counters; processes exit while the lists
  of the process tree are walked. Correct means: each process gets the answer
  to its own request, and a process that is gone is not touched.

## 2. The plan

1. `Allocator`, `HwMalloc`, `HwMallocProofs` *(done)*: every safety property and
   the refinement of the abstract allocator are proved.
2. `TaskLifecycle`, `Scheduler`, `SchedulerProofs` *(done)*: the same.
3. `HttpNet`, `HttpService`, `HttpServer`, `HttpClient`, `Http`,
   `HttpTypeProofs`, `HttpProofs`, `HttpClientProofs` *(done)*: the same.
4. `HwMallocLists`, `HwMallocListsProofs` *(done)*: its four invariants are
   proved, whatever the caller writes, and that the lists refine the sets of
   `HwMalloc` until it does.
5. `Pstree`, `PstreeProofs` *(done but for two properties)*: its types and
   `FaultExplained` are proved; `AnswerRight` and `OnlyShortened`, which need what
   recursive texts are, are left.
6. `SchedulerAsync`: signals inside the scheduler's and the shell's code.

## 3. The modules

### `Allocator`: what an allocator promises

The state is the set of blocks in use. A block that is handed out lies in the
heap and shares no byte with a block in use; it stays until it is released.
Nothing is said about when a request must succeed.

### `HwMalloc`: `hw_malloc.c` with its header, and the `alloc` and `free` of the driver

| model | code |
|---|---|
| `bin`, `allocated_heap`, `mmap_alloc_list` | the three kinds of lists. A chunk is a record of address and `curr_chunk_size`; lists sorted by address are sets, the head being the chunk of lowest address |
| `merge_index` | the argument of the pending `merge()` call: one step per recursive call |
| `mapped` | what the kernel has mapped (`mmap` 93, `munmap` 65) |
| `held`, `held_mmap` | the blocks the caller has got and not freed (the driver prints "success" or "fail", `hw4_mm_test.c:69-73`) |
| `FirstAllocate`, `SbrkFails` | the `!first_time` branch, 29-47 |
| `NormalAllocate`, `SplitToAllocate`, `NoChunkLeft`, `NoProperBin` | `heap_allocate` and below, 99-147 |
| `MmapAllocate`, `MmapFails` | 20-23 and 91-97 |
| `FreeMmap`, `FreeHeap` | the two branches of `hw_free`, 55-84 |
| `MergeDone`, `MergePair`, `MergeLastBin` | `merge`, 164-221 |
| `RequireByte`, `IsProperBin`, `StoredSize` | header added in `size_t` (it wraps), `get_proper_bin`, the signed 31-bit size field |

Undefined accesses (`bin[-1]`, `bin[11]`, a header written through `MAP_FAILED`)
set `fault` and end the run: what such a write does depends on what the linker
put next to the array.

The caller passes to `free` any heap offset and any mmap address, held or not,
freed before or not. The driver prints heap blocks as offsets and mmap blocks
as addresses, and `hw_free` expects exactly that; so does the model.

### `HwMallocLists`: the same file with its lists

| model | code |
|---|---|
| `bin`, `allocated_heap`, `mmap_alloc_list` | pointers to the first header, `NULL` or an address |
| `hdr` | the headers in memory: `curr_chunk_size`, `prev` and `next` of each address at which a chunk or an area begins. A merge and `munmap` remove one |
| `Walk`, `Place` | the loops along `next`: the nodes they come by, and the first at which one stops |
| `Insert`, `DeleteNode`, `PopNode`, `Unlink` | the pointer surgery of `insertSorted` / `mmap_insertSorted` (223-265), `deleteNode` (306-350), `popNode` (352-372) and `merge` (177-206), each a function from a head and the headers to a new head and new headers |
| `Split` | the loops of `split_to_index` and `split_to_allocate`, an insertion per turn |
| `FirstAllocate` to `ReadsBinMinusOne`, `FreeMmap` to `FreeGoesWild`, `MergeDone`, `MergePair` | the branches of `hw_malloc`, `hw_free` and one call of `merge` |
| `WriteBlock` | the caller writes the first bytes of a block it holds |
| `written` | history: the headers it has written into |

`sizeof(chunk_header_t)` is 32 on a 64-bit machine, while `hw_malloc` returns the
header's address plus 24: the first eight bytes of a block are the header's
`next`. A caller that clears its block makes `next` NULL and so ends
`allocated_heap` (or `mmap_alloc_list`) there; any other data makes it a pointer
that is none, and the next walk that gets there fails (`FreeGoesWild`, `WILD`).
A bound on the headers written is part of `caller`; a caller with bound 0 is the
one of `HwMalloc`, and for it the module refines `HwMalloc` (`SetsSpec`: the
nodes of each list as a set, the rest as it is). For callers that write the
mapping freezes the initial state, and the refinement says nothing of them; what still holds
for them is `FreeListsSound`, `LostBehindWrites` and `HeldApart`.

### `TaskLifecycle`: what a scheduler promises

Each task moves through absent, READY, RUNNING, WAITING, TERMINATED and removed
along the edges one expects, at most one runs, and tasks disappear only by
removal, only while the user is at the prompt.

### `Scheduler`: `scheduling_simulator.c` and `task.c`

| model | code |
|---|---|
| `cpu`, `scheduler`, `idle_ctx`, `.ctx` of a node | contexts: where the coroutine resumes. `"loop"` is the loop head of `scheduling_simulator` (276), `"after_task"` the point behind its switch to a task (287) |
| `queue`, `curr_task_node` | `queuing_task` front to rear, the node taken off it |
| `.freed` of a node | the node was freed in the middle of the list (434) and is still linked |
| `Add`, `RemoveQueued`, `RemoveCurrent`, `WalkFreed`, `Start` | `execution`, 191-270 |
| `Dispatch`, `RunIdle`, `EndSimulation`, `ScheduleFreed` | one turn of the loop 276-306, from the return of one switch to the next switch, with `Requeued` = 287-300 and `Pops` = `popNode` |
| `Tick`, `TickFreed` | `handlerTimeFrame`, 102-114 with `setQueueAndSuspendTime` |
| `CtrlZ` | `handlerCtrlZ`, 89-100, and lines 263-267 behind the switch to the shell |
| `Compute`, `Create`, `Suspend`, `Wake`, `Return` | the calls tasks make, `Program` = `task.c`; `Return` is `completion` |

A freed node that is still linked is followed by what the C library may do: the
next node may get the same memory (`EnQueue` then also cuts the list there),
and a walk that reads a freed node ends the run with `fault`. A wake-up by number
ends at the task it wakes, one by name looks at every node (`MeetsFreed`).

Environment assumptions, each a named definition or constant:

* `SignalPoint`: signals arrive while task code or the idle loop runs, not
  inside the few microseconds of a scheduler turn, a queue operation or the
  shell's code around the timer. The code masks nothing (see the hazards), so
  `TaskContexts`, `IdleContext` and `ContextSaved`, and their theorems, are about
  runs in which no signal falls elsewhere, and their comments say so.
* `user`: which tasks the user adds, and whether the user gives the two
  commands that the violation runs show to break the scheduler: Ctrl-Z while no
  task is current, and removing a task that is neither first nor last in the
  queue. It is chosen once, in the initial state. Process numbers are the
  positive numbers; `MaxPid` bounds only what the user adds. `TypeOK`, `OneNodePerTask`,
  `TaskContexts` and `IdleContext` hold for every user; `ContextSaved` and
  `WorkConserving` for those who do not press Ctrl-Z while no task is current;
  `LifecycleSpec` for those who do not remove in the middle.

### `HttpNet`, `HttpService`: the network, and what a server promises

`HttpNet` has what the two programs share: the tree of files (`fs`; it is finite,
its directories hold what they list, and what is below a name lies in a
directory: `FileAssumption`), the request
and the answers of each connection (`asked`, `answers`), connections that wait
to be accepted (`backlog`) or were closed by the server (`shut`), and whether the
server is still up. A path is a sequence of names, which come from `Words`; the
user types one without a newline (`QueryAssumption`). The newline behind a
directory listing stays glued to the last name the client reads (`Tokens`), and
the server's `sscanf` stops at it (`ServerSees`). `Served` is what `response()`
makes of a path. `HttpService` is the promise: each request gets at most one
answer, and the one it deserves.

### `HttpServer`: `server.c` and `server.h`

| model | code |
|---|---|
| `request`, `requestBuff` | the two global buffers (`server.c:38-39`) |
| `front`, `rear`, `next` | the queue. Nodes have numbers in order of allocation; every node points to `request`, so a node is its link |
| `fd` | the descriptor table: the lowest free entry is the next one given out |
| `acc`, `wk` | program counters and local variables of `main` and of the workers |
| `Accept`, `WriteFd`, `WriteQuery` | `server.c:122-132`. Descriptor and query are written by `sprintf` in two steps |
| `TestRear`, `SetFront`, `LinkRear`, `SetRear` | `enQueue`, one access to the shared queue per step |
| `TakeFront`, `ReadNext`, `AdvanceFront`, `ClearRear` | `deQueue`, likewise |
| `ReadFd`, `RespondNone`, `RespondOpen`, `RespondNoFd`, `RespondCrash`, `Close` | `response` and the `close` behind it |
| `Interrupt` | `sigint_handler` |

The mutex is not in the model: a worker goes on whether `trylock` succeeded or
not, unlocks in either case, and `main` never uses it, so it excludes nothing.
An environment without `races` makes the threads take turns at the queue
(`MayEnter`). That is an assumption, which nothing in the code ensures; the
properties that rest on it say so (`Calm`, `QueueSound`), and run `HttpLost`
shows what happens without it.

One access per step is what the Makefile's `-O3` leaves of the two functions
(gcc 12 was looked at): `enQueue` reads `rear` once, after the node has been
allocated, and stores `front` and `rear` one after the other; `deQueue` reads
`front` and `next` once each, stores `front`, and clears `rear` behind that.
Without optimisation `front` would be read again between these, which adds
races to those of the model.

### `HttpClient`: `client.c` and `client.h`

Every thread of a client is joined at once, so one runs at a time and the calls
under way are a stack: `client[u].stack`, a frame being the entries of a listing
that are still to be asked for. `query` is `main`'s copy of the path and
`newquery` the global one, and `OldQuery` and `FrameQuery` say which of them the
code uses where. `Start` is `main`; `AskEntry`, `SkipEntry`, `Overflow` and
`EndFrame` are a turn of the loop over the entries; `Receive...` are the
outcomes of reading a response to its end, including that none came and that the
file cannot be opened.

### `Http`: both together

The server's threads and the clients interleave. Clients see the server through
connections only. A server that crashed or was interrupted stays down. Three
conditions name under which circumstances a property is promised: `Disciplined`
(one client at a time, a single worker or threads that take turns at the queue,
descriptors enough), `Calm` (besides, they take turns in any case) and `WellOrdered` (a tree in
which no listing is empty or ends with a directory). That threads
take turns is not ensured by the code; `Answered` and `Finishes`, which need it
even of a single worker and the acceptor, fail without it
(`EveryRequestAnswered`). `TopLevelSaved` is a promise
of a disciplined environment, to a client whose server is still up. `DescriptorsLost` says
which descriptors the server never closes: it counts those that are open for a
file or directory no worker is about to close, and the answers that lose one.

### `Pstree`: the kernel module and the tool

| model | code |
|---|---|
| `str`, `pid`, `answerMsg`, `tmpMsg`, `i`, `j`, `parent_pid_holder`, `parentNum` | the globals of `ksimple_pstree.c` and `.h` |
| `alive`, `groups`, `parent`, `kids` | the kernel's process table, the parents and the lists of children. A number in `groups` has outlived its process as that of a group: `find_get_pid` finds it and `pid_task` gives NULL |
| `tool[t]` | the tool's state and, within its `sendmsg`, the local variables of the handler; `frames` are the list positions of the loops under way |
| `Command`, `Ask`, `Refuse`, `Receive` | the tool: `analyzedCommand` and `main` |
| `SetPid`, `Begin`, `Option`, `Send` | `recv_netlink_data`, `getPstree`, `send_netlink_data`. The number and the option are read from `str` in two steps (30-33 and 40-48), so another request can change the second |
| `Parent`, `Sibling`, `Children` and their parts | `doParent`, `doSibling`, `doChildrenRecursion`, a step per turn of a loop |
| `Place`, `NextOf`, `PidAt` | `list_for_each` and `list_entry`. The loops start from a *copy* of a list head and compare with the copy's address, so no element is ever equal to it: they come by the real head, which `list_entry` takes for a process. What its pid field reads as is `env.stray` |
| `FindPid`, `Invalid` | `find_get_pid` of the number asked for; `pid_task` (`ParentStart`, `ChildrenStart`) is a step of its own, and a process can exit in between |
| `LookupFails`, `PutLineFails`, `UpFails`, `EnterFails` | a NULL pointer or a bad index used in the kernel; `parent_pid_holder` written behind its end; the kernel stack full. Each ends the run with `fault` |
| `ReadFreed`, with `Reads` | a process that was reaped, or the head of a list in it, is read: the one a loop stands on or returns to, the target `-s` compares with, the one whose parent is asked for |
| `Exit`, `Reap` | a process with children exits and they move to the end of the list of process 1; a process without children is taken out of its list and the table |
| `want`, `solo`, `still`, `settled` | history: the text a request stood for when it was made, and whether another request, an exit, or the exit of a process with children came in between |

A text is a sequence of process numbers and tabs. Wording of lines and names of
processes are left out; that `snprintf` cuts at `MAX_MSGSIZE` is not (`Cut`).

In all modules the definitions called `Bad...` are faulty variants of the
definition that follows them. They document which slip in the code each
property would notice, and nothing uses them.

## 4. The runs

| run | instance | shows |
|---|---|---|
| `HwMalloc` | 4 bins of 2, 4, 8, 16 bytes, header 1, `size_t` mod 128, two mmap addresses, requests 0 (invalid), 2, 4, 7, 15 (the second to fourth bin; with a header of 1 a request for the first bin would be of 1 byte, which `HwMallocLists` makes), 40 (mmap) and 127 (wraps) | `TypeOK`, `BinsSound`, `Disjoint`, `Tiling`, `HeldBacked`, `LastMergeMeansAllFree`, `MappedIsHeld`, refinement of `Allocator` |
| `HwMallocLists` | 3 bins of 2, 4, 8 bytes, two mmap addresses; a caller that never writes with all requests, one that asks for 3 and 20 bytes and writes into two headers, one that asks for 3, 7 and 20 and writes into one | `FreeListsSound`, `UsedListsSound`, `LostBehindWrites`, `HeldApart`, refinement of `HwMalloc` |
| `HwMallocReset` | 3 bins | `MmapIsListed` fails: a heap request after an mmap request |
| `Scheduler` | two added tasks and two created by them, `queuing_time` up to 20; one careful user with every kind of task, three others with fewer | `TypeOK`, `OneNodePerTask`, `TaskContexts`, `IdleContext`, `ContextSaved`, `WorkConserving`, `HighFirst`, refinement of `TaskLifecycle` |
| `SchedulerFair` | three tasks of one priority, fairness | `ReadyRuns`, `WaitingWakes`, `SimulationEnds` |
| `SchedulerCtrlZ` | Ctrl-Z while idle allowed | `SchedulerContext` fails |
| `SchedulerRemove` | three tasks, removal in the middle allowed | `NoFreedNodeQueued` fails |
| `Http` | two clients one after the other, six trees, three environments: one worker racing with the acceptor, two workers that take turns, two descriptors only | `TypeOK`, `QueueSound`, `ShutAnswered`, `SavedIsServed`, `TopLevelSaved`, `Bounded`, `DescriptorsLost`, refinement of `HttpService`, `Answered`, `Finishes` |
| `HttpLost` | one client, one worker racing with the acceptor, fairness | `EveryRequestAnswered` fails |
| `HttpOverwritten` | two clients at once, one worker, nobody inside the queue at once | `AnswersOwn` fails |
| `HttpNested` | one client, a directory in a directory | `DownloadsAll` fails |
| `Pstree` | seven processes, tools 4, 5, 6; nine environments: two requests that meet (a walk that ends at 2 beside one up from 4, or along its list), two exits beside one walk of each kind, one exit and three requests, all commands undisturbed, and twice a list head that reads as a process number | `TypeOK`, `AnswerRight`, `FaultExplained`, `OnlyShortened`, `AnswerComes` |

**Why the bounds are enough.** Every split and merge of the allocator handles
one level at a time and treats all levels but the last alike; four bins have an
inner level that is both split into and merged out of, and the last one; the first
is cut to and merged out of in `HwMallocLists`. Request sizes matter only through the bin they select. The real sizes (11
bins, 32 to 32768 bytes, header 24) satisfy the assumptions under which the
proofs hold, so the proved properties do not depend on the bounds. In the
scheduler, two user tasks and two created ones put nodes at the front, in the
middle and at the rear of the queue with every combination of state and
priority; suspensions of 1 and 3 ticks instead of 500 to 32768 keep their order
relative to each other, which is what wake-ups race on. `NCreate` is 1 instead of 5 because `task6` does
the same five times. `MaxQueuing` cuts a counter whose value is only ever
compared with 76, which no multiple of 10 reaches.

The list level needs no more than three bins: a list of up to eight chunks has
a first, inner and last node for each list operation, and a merge is seen out of
the first bin and into the last. Two areas make the order by size differ from
that by address. Writes into two headers leave a list cut twice, or
cut and wild.

For `Http`, the trees are the shapes that make the recursion differ: a flat one
with a file of unknown type (`Flat`), a directory before a file (`Nested`), a
directory listed last (`DirLast`, the newline), three levels (`Deep`), a second
level with three files (`Wide`), a file without a dot (`Bare`). `MaxQuery` = 4
names stand for `query[64]` and `MaxPath` = 5 for `newquery[500]`, in the order
of the two buffers: paths that overflow the first and the second are both
reached. Twelve descriptors are more than what any of these downloads leaves
open; two let the table run full in the first. `nodes` bounds what the acceptor ever
allocates, and only the run short of descriptors reaches it, as there the
acceptor goes on enqueueing by itself. For `Pstree`, the tree has processes with
no, one and two children, siblings at two levels, and ancestors two deep;
`MaxText` = 10 cuts the text of the whole tree and that of no other
undisturbed walk. `MaxDepth` = 3, the depth of the tree, stands for both the
kernel stack and `parent_pid_holder[100]`: two walks that count in one `i` get
behind the end of the holder, and the stray word that makes a process its own
child fills the stack. Two exits are enough for a process to leave its children
to process 1 and be reaped, or for one of those children to go as well.

**Deadlock** is checked in `SchedulerFair`, where the program always has
something to do. The other passing runs may stop and have `CHECK_DEADLOCK
FALSE`: `HwMalloc` and `HwMallocLists` after an undefined access, `Scheduler`
after a freed node was read, `Http` once the clients have ended or the server
has, `Pstree` once the tools have ended or the kernel has failed.

**Fairness** (`Fairness` in `Scheduler`): weak fairness of `Tick`, as the
interval timer is armed whenever a task or the idle loop runs; weak fairness of
`Schedule`, which is straight code; strong fairness of the steps of each task,
as a task that gets slice after slice of 10 ms reaches its next call, even
though each tick takes the processor away in between. `task2` never makes a
call, and the loop of `task1` is finite (2^32 turns). Nothing is assumed about
the user, who may stop the simulation for ever: hence the `\/ shellmode` in the
liveness properties. In `Http`, weak fairness of the acceptor, of each
worker and of each client: none of them waits for another except through a
connection or the queue, and the kernel schedules threads and processes. A
worker whose queue is empty spins in the code, which is a stutter here. No user
need start a client, and none need press Ctrl-C. In `Pstree`, weak fairness of the steps
of each tool, which include those of the handler that runs in its
`sendmsg`; nothing is assumed about when a tool asks or a process exits.

**Findings.** Six runs show that the code does not do what a comment or
declaration says; they are listed with lines in `PROJECT.json`:

* the first heap request forgets all earlier mmap blocks (`hw_malloc.c:34`);
* Ctrl-Z while no task is current destroys the scheduler's context
  (`scheduling_simulator.c:93`);
* `remove` of a task in the middle leaves a freed node in the queue
  (`scheduling_simulator.c:434`);
* a request that arrives before the worker has read the previous one is written
  over it, and the answer goes to the wrong client (`server.c:130`);
* nobody waits for the mutex: a worker takes a node that `enQueue` has linked to
  `front` but not yet to `rear`, and every later request is linked behind that
  node and never found (`server.c:51`);
* the entries of a nested directory are asked for under the path of the entry
  before (`client.h:103`).

Freeing the whole heap makes `merge` insert in `bin[11]`, behind the array
(`hw_malloc.c:80`, `hw_malloc.h:38`): `MergeLastBin` does so in run `HwMalloc`,
where adding `StaysInBins` as an invariant shows how; `LastMergeMeansAllFree` says
that nothing less than that gets there. Two more disagreements are visible
without a run. Line 280 of
`scheduling_simulator.c` compares `queuing_time` instead of `time_quantum` with
`'L'`, so a long quantum is never given; and a suspension of n lasts n + 1 ticks
(533-537).

## 5. The proofs

A safety property that a run of `HwMalloc`, `Scheduler` or `Http` checks is also
a theorem, for every value of the constants, and so are the four invariants and
the refinement of `HwMallocLists` and two of the invariants of `Pstree`. The chains of argument follow.
`PROJECT.json` lists the theorems with the property of the runs each one states.

**Induction.** The library states induction for an operator, which the provers
cannot instantiate. `Groundwork` derives from it statements about sets: a set of
numbers that has 0 and is closed under successor has all of them
(`NaturalInduction`), a set that is not empty has a least element
(`LeastNatural`), a function defined by recursion over `0 .. n` exists
(`RecursionExists`), a finite list of numbers has a greatest one
(`GreatestOfList`). With these the proofs do the induction the code's loops ask
for: over the bins, over the names of a path, over the nodes of a queue.

### The allocator (`HwMallocProofs`)

For every number of bins, every doubling table of sizes, every set of requests
below `SizeMod` and every set of mmap addresses:

* `TypeCorrect`: `TypeOK`;
* `HeapSound`, `BinsAreSound`: `BinsSound` and `Disjoint`;
* `HeapIsTiled`: `Tiling`;
* `LastMergeOfFreeHeap`: `LastMergeMeansAllFree`;
* `HeldIsBacked`: `HeldBacked`;
* `ImplementsAllocator`: the refinement of `Allocator`;
* `MappedAreHeld`: `MappedIsHeld`, if no area reaches half the range of the size
  field (`AreasFitField`, 1 GiB in the code). Without that assumption it is
  false: `hw_free` would hand `munmap` another length.

The inductive invariant `HeapInv` adds two facts to `Disjoint` and `BinsSound`:
chunks in use have the size of some bin (else `hw_free` could put a chunk
into a bin of another size), and before the heap is taken there are no chunks at
all. With the doubling of sizes, splitting a chunk of bin *s* into parts at
offsets `Bytes[k]`, `i <= k < s`, then keeps chunks apart (`SplitSound`), and so
does gluing two neighbours (`MergePairSound`). That larger bins have larger
sizes is an induction over the doubling (`BytesGrow`). `Tiling` is the other half:
a byte at a given distance from the start of a chunk that is cut lies in
the part of the greatest bin that is not beyond it (`UpperPart`), and so nothing
falls between the parts. `HeldInv` adds that the caller
holds each pointer once, which a step of `hw_free` needs to release one block
and not two. `LastMergeMeansAllFree` follows as two disjoint chunks of half the
heap leave room for no third. `MmapInv` says that each listed area is mapped with the
length its node stores and that areas have different addresses; the converse,
that each mapped area is listed, is what line 34 breaks.

The assumptions are `SizesAssumption` (sizes double and exceed the header) and
`RequestAssumption` (the heap is smaller than what `size_t` and the size field
hold, requests are values of `size_t`, addresses are numbers).

### The lists of the allocator (`HwMallocListsProofs`)

For every number of bins, every doubling table of sizes, and all callers,
whatever requests they make, whichever pointers they pass to `hw_free` and however
many of their blocks they write into: `FreeListsAreSound`, `UsedListsAreSound`,
`LostOnlyBehindWrites` and `HeldStayApart` prove `FreeListsSound`,
`UsedListsSound`, `LostBehindWrites` and `HeldApart`. `ListsImplementSets` proves
`SetsSpec`: until the caller writes, the lists implement `HwMalloc`.

The argument has four layers.

* *One list.* `IsChain(h, head, s, end)` says that the headers `h` link the
  sequence `s` both ways from `head` on, and that its last `next` is `end`:
  `NULL`, or what a caller left there. `WalkIs` identifies `s` with
  what the loops along `next` come by. Each list operation then is an operation
  on sequences (`Insert` puts a node in, `DeleteNode` takes one out, a write of
  the caller cuts the rest off), and touches no header of another list.
* *All lists.* `Inv` is the conjunction of `Types`, `FreeLinked` (each bin is a
  chain that ends, in order of address), `UsedLinked` and `MmapLinked` (chains
  in order that end with `NULL` as long as nothing was written, that hold
  no nodes but those of blocks that were handed out, and from which only blocks behind a
  written one are missing) and `HeldInv` of `HwMallocProofs`.
* *The heap.* `HeldInv` is said of the heap that the lists stand for:
  `H` is `HwMallocProofs` with the nodes of each bin as its free chunks and the blocks
  the caller holds, listed or lost, as its chunks in use. Each step of the lists is
  a step of that heap, also when the caller's writes have cut
  `allocated_heap`; so its invariant is preserved by the theorem
  about `HwMalloc`, and it says what the list operations need: no two
  nodes are at one address, a chunk that is inserted is in no list yet, and the two
  halves `merge` glues were neighbours (`NodesApart`, `FreeNodesSound`).
* *The refinement.* Until the caller writes, the state that `HwMalloc` is
  given is that of the heap, with the nodes of `mmap_alloc_list` as its areas
  (`SameState`). A step of the heap leaves the headers of the areas alone
  (`AreasStay`), or resets their list (`FirstAllocate`), and so is the same step of
  `HwMalloc`. `mmap_allocate` and an `hw_free` of an area add and remove one node
  and leave the heap alone (`AreaAdded`, `AreaRemoved`), also when its stored size
  is 0 and `hw_free` reports a failure; `Types` says for this case that no
  area has length 0, so that `HwMalloc` unmaps none either. A crash is the same crash, or it
  followed a pointer the caller had written (`FreeNotWild`). To a caller that
  may write the mapping stands still (`AtStart`).

The assumptions are those of `HwMalloc`, `CallersAssumption` (what a caller asks
for are requests, and its writes are bounded) and `ApartAssumption` (the kernel
maps no area inside the heap).

### The scheduler (`SchedulerProofs`)

For every set of users, number of tasks and length of a suspension:
`TypeCorrect`, `OneNode`, `ContextsOfTasks`, `IdleIsIdle`, `ContextIsSaved`,
`WorkIsConserved`, `HighComesFirst` and `ImplementsLifecycle` prove `TypeOK`,
`OneNodePerTask`, `TaskContexts`, `IdleContext`, `ContextSaved`,
`WorkConserving`, `HighFirst` and the refinement of `TaskLifecycle`.

The inductive invariant `Inv` says how the global variables fit together, which
no statement of the code says. `NodeSound` and `QueueSound`: every
node in the queue is of a number given out, carries a context of its own
task, and no two are of the same task. `CurrentSound`: from
its dispatch until it is linked again, the current task is in no other
node, the scheduler waits behind the switch to a task, and while the task's code
runs or the shell has stopped it, it is READY and has exactly one tick left. That last
part is what the timer relies on to tell a task from the idle loop, and it holds
because `queuing_time` is a multiple of 10 and so line 280 never grants a long
quantum. `CpuSound` and `SchedulerSound`: what may run while which context is
saved; the scheduler's context is lost only to a user who presses Ctrl-Z while
no task is current. `FreedSound`: freed nodes stay linked only for a user who removes in the
middle. `IdleContext` is a conjunct, as the timer writes that context.

`LifecycleSpec` is proved task by task: `StateIn` is the state of one task,
`Moved` an edge of its life cycle, and each action moves only tasks along
edges; the queue operations are concatenations, insertions and removals, and the lemmas
about sequences say which nodes they keep. No run bound is assumed; the one
assumption is `UserAssumption` (the constants are numbers and the users
records of the kind `Init` expects).

### The HTTP programs (`HttpTypeProofs`, `HttpProofs`, `HttpClientProofs`)

For every tree, every set of environments (any number of workers, descriptors
and nodes), every number of clients and length of the two buffers:

* `HttpTypeProofs!TypeCorrect`: `TypeOK`, by an invariant `Types` with the fields of every
  record;
* `QueueIsSound`: `QueueSound`. `QueueInv` says what the queue looks like in the
  middle of `enQueue` (`acc.pc` tells which links are already
  written) and of `deQueue` (the one worker inside holds the first node and its
  successor);
* `ClosedOnceAnswered`, `ImplementsService`, `FilesAreServed`: `ShutAnswered`,
  the refinement of `HttpService`, and `SavedIsServed`. `DisciplinedInv` follows
  the one request through its life (`OneRequest`): in the backlog, at the
  acceptor, lost, in the queue, taken by one worker, about to be closed, closed;
  in each phase only the current connection has a descriptor, `request` is the
  query of that connection as soon as somebody may read it, and all other workers are outside
  the queue. This is what makes one global buffer enough for clients that ask
  one after the other, and what two clients at once break. `Lost`
  is the phase racing operations lead to: the request is in no list and stays
  unanswered, which the promises allow, and `Answered`, in calm environments
  only, does not;
* `LeaksAreCounted`: `DescriptorsLost`, by the cardinalities of the descriptors
  that are open for no worker and of the answers that leave one open;
* `TopLevelIsSaved`: `TopLevelSaved`. `TopInv` says that the bottom frame of the
  client's stack is the rest of the directory its user named (`InDirectory`), and that
  what is no longer in it has been saved, but for the entry under way
  (`DoneIsSaved`), though `newquery` has been extended and cut
  by all levels in between;
* `DepthIsBounded`: `Bounded`. `DepthInv` says that what a client is about to
  ask for at depth *n* is either a directory at least that deep in the tree (`Live`) or
  nothing below which a directory could lie (`DeadEnd`). The paths
  the client asks for are wrong below the first level; they lead out of the
  tree, and no further.

Except for the first two, the theorems have the hypothesis `[](FreeFds # {})`: descriptors last. In a
disciplined environment there are at least 12, but a tree with more directories
and unsupported files than that uses them up (`DescriptorsLost` counts them),
and from then on `main` makes up requests out of the last one, so that without
the hypothesis these properties are false for large trees. TLC has found the
hypothesis true in every state of the disciplined environments of run `Http`, so
what is proved covers what is checked there. The assumptions are
`FileAssumption`, `EnvironmentAssumption` and `WordAssumption` of `HttpNet` and
`QueryAssumption` of `HttpClient`.

### The process tree (`PstreeProofs`)

For every tree, every set of tools and of requests: `TypeCorrect` and
`FaultsExplained` prove `TypeOK` and `FaultExplained`. Neither assumes anything of
the words that list heads are read as (`env.stray`). Where such a word is the
number of a process, a walk may take the head for that process; from then
on, while it stands on it, `FaultExplained` allows it to fail, and to no other
request. A walk that would write behind the holder or call deeper than the stack ends
the run with `fault`, so that `TypeOK` alone does not say it cannot happen: it does
(`UpFails`), and `FaultExplained` says to whom, that is, to requests that meet, to
those an exit disturbs, and, for the stack, to walks that took a head for a process.

`Types` adds to `TypeOK` what the lists are while processes exit and are handed
to process 1 (`KernelSound`: each process that is alive is once in the list of its
parent, which is alive too and less deep) and the fields of each tool. `Depth` is
the depth of a process in the initial tree: who is handed over only moves up, so
parents stay less deep than their children. `Types` holds for requests that run
into each other, too. `WalkSound` is about a request that nobody
disturbs: the part of the holder that doParent() has filled is alive, and there is
room in it for what is above (`HeldAlive`, `i + Depth[task] <= MaxDepth`); the
elements the loops stand on are alive (`Standing`); and each loop of
doChildrenRecursion() goes over the list of a process that is deeper in the tree
than there are loops around it, unless one of these has taken a list head for
a process (`Nested`, under `Free`), so that the recursion is no deeper than
the tree. `NoneAlone` says why nobody else moves meanwhile. Then each access that
can fail is one to a process that is alive or, at the start, to the number that
was asked for (`FailsExplained`).

The assumptions are `TreeAssumption` (each process is once in the list of its
parent, and process 1 is one of the first), `DepthAssumption` (no branch of the
tree is longer than `MaxDepth`, that is, than what the kernel stack and
`parent_pid_holder[100]` hold; deeper trees are not modelled), `TextAssumption` and
`EnvironmentAssumption`.

### Only model-checked

* Liveness under fairness, which the proof system cannot express: `ReadyRuns`,
  `WaitingWakes`, `SimulationEnds`, `Answered`, `Finishes`, `AnswerComes`.
* `AnswerRight` and `OnlyShortened` of `Pstree`: both compare a text that a walk
  has put together step by step with one defined by recursion over the tree.

## 6. Not modelled

* Parsing of command lines, printing, and crashes on an empty line.
* Data a caller of the allocator writes that happens to be a valid heap
  address, and the allocator writing a `next` into a block whose caller reads it
  back (in `hdr` this is visible; the code promises nothing about it).
* What a process does after an undefined access: the run ends there.
* Signals inside the scheduler's and the shell's code (the plan's last item).
* Exhaustion of memory in hw3 (every dispatch loses at least 128 KiB).
* The stack shared by all completions: at most one runs at a time in the model.
* hw2: the 405 answer, as this client only sends GET; a response that arrives in
  several segments (all of them fit one); memory weaker than an interleaving of
  single accesses; the 415 answer writing `Unsupported` into `tmpName[10]`,
  whose effect depends on the stack's layout; `delay()` and `printQueue()`, which
  nobody calls. Two workers that race with each other can be put into an
  environment, and then answer twice or not at all; no run does, as nothing that
  is promised about answers or the queue survives it (`AnswersOwn` fails even
  with one client at a time).
* hw1: processes that are started during a walk; subreapers, which inherit
  children in place of process 1, and traced processes, whose parent changes; the
  effect of a write behind the holder (the run ends there); a process that has
  exited without having been reaped has lost its children in the model, and nothing
  else of it changes; the threads of a process, the
  references to `struct pid` that the module never drops, arguments longer than
  the tool's buffers of 10 and 5 bytes, failures of socket calls.
