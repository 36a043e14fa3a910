------------------------------- MODULE Pstree -------------------------------
(***************************************************************************)
(* hw1-simple-pstree: a kernel module that prints part of the process tree *)
(* and the tool that asks it over a netlink socket.                        *)
(*                                                                         *)
(* The kernel runs recv_netlink_data() inside the sendmsg() of the process *)
(* that asks, so two requests can be handled at once, over buffers and     *)
(* loop counters that are global.  Processes exit while a walk goes on;    *)
(* none is started.                                                        *)
(*                                                                         *)
(* A text is a sequence of process numbers (lines) and Tab.  A step is one *)
(* turn of a loop or one access to what requests share.                    *)
(*                                                                         *)
(* Definitions called Bad... are faulty variants of the one that follows   *)
(* them: each breaks one of the properties.                                *)
(***************************************************************************)
EXTENDS Integers, Sequences, SequencesExt

CONSTANTS
    Parent0,       \* Parent0[p]: the parent process p starts with
    Kids0,         \* Kids0[p]: its children, in the order of the list
    Tools,         \* the processes that run simple-pstree
    Environments,  \* see env
    MaxText,       \* MAX_MSGSIZE
    MaxDepth       \* frames that fill a kernel stack; length of the holder

Pids == DOMAIN Parent0       \* process 0 is the parent of the first ones

\* Each process is in the list of its parent, once.
ASSUME TreeAssumption ==
    /\ Pids \subseteq Nat \ {0}
    /\ 1 \in Pids
    /\ Tools \subseteq Pids
    /\ Parent0 \in [Pids -> Pids \cup {0}] /\ Parent0[1] = 0
    /\ Kids0 \in [Pids \cup {0} -> Seq(Pids)]
    /\ \A p \in Pids : \E k \in DOMAIN Kids0[Parent0[p]] :
          Kids0[Parent0[p]][k] = p
    /\ \A p \in Pids \cup {0} : \A k \in DOMAIN Kids0[p] :
          /\ Parent0[Kids0[p][k]] = p
          /\ \A l \in DOMAIN Kids0[p] : Kids0[p][k] = Kids0[p][l] => k = l

\* The tree has no cycle, and the kernel stack has room for its branches.
ASSUME DepthAssumption ==
    /\ MaxDepth \in Nat
    /\ \E depth \in [Pids -> 1 .. MaxDepth] :
          /\ depth[1] = 1
          /\ \A p \in Pids : Parent0[p] # 0 => depth[Parent0[p]] < depth[p]

ASSUME TextAssumption == MaxText \in Nat \ {0}

ASSUME EnvironmentAssumption ==
    Environments \subseteq
        [atonce : Nat, exits : Nat, stray : [Pids \cup {0} -> Nat],
         args : SUBSET [opt : STRING, number : Nat \cup {-1}]]

VARIABLES
    env,        \* atonce, exits: bounds on the requests under way and on the
                \* processes that exit; args: command lines; stray: see PidAt
    alive,      \* processes that are in the table and in the lists
    groups,     \* numbers in the table that only name a process group
    parent,     \* the parent of each process; who is gone keeps its last one
    kids,       \* children of each process, in list order
    str, pid, answerMsg, tmpMsg,              \* globals of the module
    i, j, parent_pid_holder, parentNum,       \* and of its header
    tool,       \* per tool: pc, and in its call target_pid, task and, in
                \* frames, where the loops over lists are
    inbox,      \* texts that wait in a tool's socket
    want,       \* history: the text its command stood for when it asked
    solo,       \* history: no other request was handled meanwhile
    still,      \* history: no process exited meanwhile
    settled,    \* history: none that had children did
    fault       \* the tool in whose call the kernel has failed, or 0

kernelVars  == <<alive, groups, parent, kids>>
globalVars  == <<str, pid, answerMsg, tmpMsg, i, j, parent_pid_holder,
                 parentNum>>
historyVars == <<want, solo, still, settled>>
vars == <<env, kernelVars, globalVars, tool, inbox, historyVars, fault>>

-----------------------------------------------------------------------------
(* The tool: analyzedCommand()                                              *)

Cmd(opt, target) == [opt |-> opt, target |-> target]
NoCmd == Cmd("-", 0)

\* An argument is an option ("none" without one), and a number or -1.
Arg(opt, number) == [opt |-> opt, number |-> number]

\* No argument, a number, a bare option, an option with its number; anything
\* else is refused.
Command(self, arg) ==
    CASE arg.opt \in {"none", "c"} /\ arg.number = -1 -> Cmd("c", 1)
      [] arg.opt \in {"p", "s"} /\ arg.number = -1 -> Cmd(arg.opt, self)
      [] arg.opt = "none" /\ arg.number # -1 -> Cmd("c", arg.number)
      [] arg.opt \in {"p", "s", "c"} /\ arg.number # -1 ->
                                                Cmd(arg.opt, arg.number)
      [] OTHER -> NoCmd

-----------------------------------------------------------------------------
(* Texts: what a command stands for                                         *)

Tab == 0
NotValid == -1               \* "Pid not valid"
Tabs(n) == [k \in 1 .. n |-> Tab]

Subtree(p) ==
    LET below[q \in Pids, level \in Nat] ==
            Tabs(level) \o <<q>>
                \o FlattenSeq([k \in DOMAIN kids[q] |->
                                  below[kids[q][k], level + 1]])
    IN  below[p, 0]

Ancestors(p) ==
    LET up[q \in Pids \cup {0}] ==
            IF q = 0 THEN <<>> ELSE Append(up[parent[q]], q)
    IN  up[p]

Path(p) == LET up == Ancestors(p)
           IN  FlattenSeq([k \in DOMAIN up |-> Append(Tabs(k - 1), up[k])])

\* The siblings from the next younger one on, then the older ones.
Place(p) == CHOOSE k \in DOMAIN kids[parent[p]] : kids[parent[p]][k] = p
Siblings(p) == LET all == kids[parent[p]]
               IN  SubSeq(all, Place(p) + 1, Len(all))
                      \o SubSeq(all, 1, Place(p) - 1)

\* snprintf() cuts what is too long.
BadCut(text) == text
Cut(text) == SubSeq(text, 1, Min({Len(text), MaxText}))

Reference(cmd) ==
    IF cmd.target \notin alive
    THEN IF cmd.opt = "s" THEN <<>> ELSE <<NotValid>>
    ELSE CASE cmd.opt = "c" -> Subtree(cmd.target)
           [] cmd.opt = "p" -> Path(cmd.target)
           [] cmd.opt = "s" -> Siblings(cmd.target)

-----------------------------------------------------------------------------
(* The kernel's table and lists                                             *)

InTable(p) == p \in alive \cup groups        \* find_get_pid() is not NULL

\* A list element is a process, or the head of the list of p's children.
ListHead(p) == -1 - p

FirstKid(p) == IF kids[p] = <<>> THEN ListHead(p) ELSE kids[p][1]

\* A process that has left its list points to itself.
NextOf(x) ==
    IF x < 0 THEN FirstKid(-1 - x)
    ELSE IF x \notin alive THEN x
    ELSE LET all == kids[parent[x]]
         IN  IF Place(x) = Len(all) THEN ListHead(parent[x])
             ELSE all[Place(x) + 1]

\* list_for_each() over a copy of a head does not stop at the head itself:
\* list_entry() makes a task of it, whose pid is some word of the parent's.
PidAt(x) == IF x < 0 THEN env.stray[-1 - x] ELSE x

Idle == [pc |-> "off", target |-> 0, task |-> 0, frames |-> <<>>]

Init ==
    /\ env \in Environments
    /\ alive = Pids
    /\ groups = {}
    /\ parent = Parent0
    /\ kids = Kids0
    /\ str = NoCmd
    /\ pid = 0
    /\ answerMsg = <<>>
    /\ tmpMsg = <<>>
    /\ i = 0
    /\ j = 0
    /\ parent_pid_holder = [k \in 0 .. MaxDepth - 1 |-> 0]
    /\ parentNum = 0
    /\ tool = [t \in Tools |-> Idle]
    /\ inbox = [t \in Tools |-> <<>>]
    /\ want = [t \in Tools |-> <<>>]
    /\ solo = [t \in Tools |-> TRUE]
    /\ still = [t \in Tools |-> TRUE]
    /\ settled = [t \in Tools |-> TRUE]
    /\ fault = 0

-----------------------------------------------------------------------------
(* A request: main() of the tool and recv_netlink_data()                    *)

Handling(t) == tool[t].pc \notin {"off", "wait", "done"}

\* A step of t that only moves it on in its call.
Goto(t, pc) == tool' = [tool EXCEPT ![t].pc = pc]

\* sendmsg(); the handler begins by copying the command.
Ask(t, arg) ==
    /\ tool[t].pc = "off"
    /\ Cardinality({u \in Tools : tool[u].pc \notin {"off", "done"}}) < env.atonce
    /\ Command(t, arg) # NoCmd
    /\ str' = Command(t, arg)
    /\ Goto(t, "pid")
    /\ want' = [want EXCEPT ![t] = Reference(Command(t, arg))]
    /\ LET others == {u \in Tools : Handling(u)}
       IN  solo' = [u \in Tools |-> solo[u] /\ (others # {} =>
                                                   u \notin others \cup {t})]
    /\ UNCHANGED <<env, kernelVars, pid, answerMsg, tmpMsg, i, j,
                   parent_pid_holder, parentNum, inbox, still, settled, fault>>

\* The argument is refused: the tool ends.
Refuse(t, arg) ==
    /\ tool[t].pc = "off"
    /\ Command(t, arg) = NoCmd
    /\ Goto(t, "done")
    /\ UNCHANGED <<env, kernelVars, globalVars, inbox, historyVars, fault>>

SetPid(t) ==
    /\ tool[t].pc = "pid"
    /\ pid' = t
    /\ Goto(t, "begin")
    /\ UNCHANGED <<env, kernelVars, str, answerMsg, tmpMsg, i, j,
                   parent_pid_holder, parentNum, inbox, historyVars, fault>>

\* tmpMsg is emptied and the number read, all its digits at once.
BadBegin(t) ==
    /\ tool[t].pc = "begin"
    /\ tool' = [tool EXCEPT ![t].target = str.target, ![t].pc = "option"]
    /\ UNCHANGED <<env, kernelVars, globalVars, inbox, historyVars, fault>>
Begin(t) ==
    /\ tool[t].pc = "begin"
    /\ tmpMsg' = <<>>
    /\ tool' = [tool EXCEPT ![t].target = str.target, ![t].pc = "option"]
    /\ UNCHANGED <<env, kernelVars, str, pid, answerMsg, i, j,
                   parent_pid_holder, parentNum, inbox, historyVars, fault>>

Start(opt) == CASE opt = "p" -> "p_start"
                [] opt = "c" -> "c_start"
                [] opt = "s" -> "s_start"

\* answerMsg is emptied and the option read, of what is in str by now.
Option(t) ==
    /\ tool[t].pc = "option"
    /\ answerMsg' = <<>>
    /\ Goto(t, Start(str.opt))
    /\ UNCHANGED <<env, kernelVars, str, pid, tmpMsg, i, j, parent_pid_holder,
                   parentNum, inbox, historyVars, fault>>

\* snprintf(msg, "%s...", tmp), strcpy(tmp, msg)
Put(text) == /\ answerMsg' = Cut(tmpMsg \o text)
             /\ tmpMsg' = answerMsg'

\* send_netlink_data(): to the process pid names, if its socket is open.
Send(t) ==
    /\ tool[t].pc = "send"
    /\ inbox' = IF pid \in Tools /\ tool[pid].pc # "done"
                THEN [inbox EXCEPT ![pid] = Append(@, answerMsg)] ELSE inbox
    /\ Goto(t, "wait")
    /\ UNCHANGED <<env, kernelVars, globalVars, historyVars, fault>>

\* recvmsg(), printf() of the first text that came, and the tool ends.
Receive(t) ==
    /\ tool[t].pc = "wait"
    /\ inbox[t] # <<>>
    /\ inbox' = [inbox EXCEPT ![t] = <<>>]
    /\ tool' = [tool EXCEPT ![t] = [Idle EXCEPT !.pc = "done"]]
    /\ want' = [want EXCEPT ![t] = <<>>]
    /\ UNCHANGED <<env, kernelVars, globalVars, solo, still, settled, fault>>

\* NULL or a bad address is used in the kernel.
Oops(t) ==
    /\ fault' = t
    /\ UNCHANGED <<env, kernelVars, globalVars, tool, inbox, historyVars>>

\* find_get_pid() of doParent() and doChildrenRecursion(): "Pid not valid"
Invalid(t) ==
    /\ tool[t].pc \in {"p_start", "c_start"}
    /\ ~InTable(tool[t].target)
    /\ answerMsg' = <<NotValid>>
    /\ Goto(t, "send")
    /\ UNCHANGED <<env, kernelVars, str, pid, tmpMsg, i, j, parent_pid_holder,
                   parentNum, inbox, historyVars, fault>>

\* or the number's struct pid, of which pid_task() is asked for the process
BadFindPid(t) ==
    /\ tool[t].pc \in {"p_start", "c_start"}
    /\ Goto(t, IF tool[t].pc = "p_start" THEN "p_task" ELSE "c_task")
    /\ UNCHANGED <<env, kernelVars, globalVars, inbox, historyVars, fault>>
FindPid(t) ==
    /\ tool[t].pc \in {"p_start", "c_start"}
    /\ InTable(tool[t].target)
    /\ Goto(t, IF tool[t].pc = "p_start" THEN "p_task" ELSE "c_task")
    /\ UNCHANGED <<env, kernelVars, globalVars, inbox, historyVars, fault>>

\* pid_task() gives NULL: the number only names a group, or has left the
\* table since it was read.
LookupFails(t) ==
    /\ \/ tool[t].pc \in {"p_task", "c_task"} /\ tool[t].target \notin alive
       \/ tool[t].pc = "c_enter" /\ tool[t].task \notin alive
    /\ Oops(t)

-----------------------------------------------------------------------------
(* doParent()                                                               *)

ParentStart(t) ==
    /\ tool[t].pc = "p_task"
    /\ tool[t].target \in alive
    /\ i' = 0
    /\ tool' = [tool EXCEPT ![t].pc = "p_up", ![t].task = tool[t].target]
    /\ UNCHANGED <<env, kernelVars, str, pid, answerMsg, tmpMsg, j,
                   parent_pid_holder, parentNum, inbox, historyVars, fault>>

\* From parent to parent, into the holder.
Up(t) ==
    /\ tool[t].pc = "p_up"
    /\ LET above == parent[tool[t].task] IN
          IF InTable(above)
          THEN /\ i < MaxDepth
               /\ parent_pid_holder' = [parent_pid_holder EXCEPT ![i] = above]
               /\ i' = i + 1
               /\ tool' = [tool EXCEPT ![t].task = above]
               /\ UNCHANGED <<j, parentNum>>
          ELSE /\ parentNum' = i
               /\ j' = 1
               /\ Goto(t, "p_tabs")
               /\ UNCHANGED <<i, parent_pid_holder>>
    /\ UNCHANGED <<env, kernelVars, str, pid, answerMsg, tmpMsg, inbox,
                   historyVars, fault>>

\* Walks that share i write past the end of the holder.
UpFails(t) ==
    /\ tool[t].pc = "p_up"
    /\ InTable(parent[tool[t].task])
    /\ i = MaxDepth
    /\ Oops(t)

PutTabs(t) ==
    /\ tool[t].pc = "p_tabs"
    /\ IF j <= parentNum + 1
       THEN Put(Tabs(j - 1)) /\ Goto(t, "p_line")
       ELSE Goto(t, "send") /\ UNCHANGED <<answerMsg, tmpMsg>>
    /\ UNCHANGED <<env, kernelVars, str, pid, i, j, parent_pid_holder,
                   parentNum, inbox, historyVars, fault>>

\* The last line is the target's own, which stays out of tmpMsg.
LastLine == j = parentNum + 1
BadHeld == IF j - 1 \in DOMAIN parent_pid_holder
           THEN parent_pid_holder[j - 1] ELSE 0
Held == IF parentNum - j \in DOMAIN parent_pid_holder
        THEN parent_pid_holder[parentNum - j] ELSE 0

PutLine(t) ==
    /\ tool[t].pc = "p_line"
    /\ LastLine \/ Held \in alive
    /\ IF LastLine
       THEN /\ answerMsg' = Cut(Append(tmpMsg, tool[t].target))
            /\ UNCHANGED tmpMsg
       ELSE Put(<<Held>>)
    /\ j' = j + 1
    /\ Goto(t, "p_tabs")
    /\ UNCHANGED <<env, kernelVars, str, pid, i, parent_pid_holder, parentNum,
                   inbox, historyVars, fault>>

\* The ancestor is gone, or j has been moved on by another request.
PutLineFails(t) ==
    /\ tool[t].pc = "p_line"
    /\ ~LastLine /\ Held \notin alive
    /\ Oops(t)

Parent(t) == ParentStart(t) \/ Up(t) \/ UpFails(t) \/ PutTabs(t) \/ PutLine(t)
                \/ PutLineFails(t)

-----------------------------------------------------------------------------
(* doSibling()                                                              *)

SiblingStart(t) ==
    /\ tool[t].pc = "s_start"
    /\ IF tool[t].target \in alive
       THEN /\ tmpMsg' = <<>>
            /\ tool' = [tool EXCEPT ![t].pc = "s_loop",
                           ![t].frames = <<NextOf(tool[t].target)>>]
       ELSE Goto(t, "send") /\ UNCHANGED tmpMsg
    /\ answerMsg' = IF tool[t].target \in alive THEN answerMsg ELSE <<>>
    /\ UNCHANGED <<env, kernelVars, str, pid, i, j, parent_pid_holder,
                   parentNum, inbox, historyVars, fault>>

\* Once around the list, from the target to the target.
Listed(p) == p # 0 /\ InTable(p)

NextSibling(t) ==
    /\ tool[t].pc = "s_loop"
    /\ LET p == PidAt(tool[t].frames[1]) IN
          IF p = tool[t].target
          THEN /\ tool' = [tool EXCEPT ![t].pc = "send", ![t].frames = <<>>]
               /\ UNCHANGED <<answerMsg, tmpMsg>>
          ELSE /\ IF Listed(p) THEN Put(<<p>>)
                  ELSE UNCHANGED <<answerMsg, tmpMsg>>
               /\ tool' = [tool EXCEPT ![t].frames = <<NextOf(@[1])>>]
    /\ UNCHANGED <<env, kernelVars, str, pid, i, j, parent_pid_holder,
                   parentNum, inbox, historyVars, fault>>

Sibling(t) == SiblingStart(t) \/ NextSibling(t)

-----------------------------------------------------------------------------
(* doChildrenRecursion(): frames hold the positions of the loops under way, *)
(* the innermost first; their number is the level of the next line          *)

ChildrenStart(t) ==
    /\ tool[t].pc = "c_task"
    /\ tool[t].target \in alive
    /\ Put(<<tool[t].target>>)
    /\ tool' = [tool EXCEPT ![t].pc = "c_enter", ![t].task = tool[t].target]
    /\ UNCHANGED <<env, kernelVars, str, pid, i, j, parent_pid_holder,
                   parentNum, inbox, historyVars, fault>>

\* A call returns to the loop of its caller, which goes on to the next
\* element, or to getPstree().
BadReturned(t, frames) ==
    IF frames = <<>> THEN [tool[t] EXCEPT !.pc = "send", !.frames = <<>>]
    ELSE [tool[t] EXCEPT !.pc = "c_loop", !.frames = frames]
Returned(t, frames) ==
    IF frames = <<>> THEN [tool[t] EXCEPT !.pc = "send", !.frames = <<>>]
    ELSE [tool[t] EXCEPT !.pc = "c_loop",
             !.frames = <<NextOf(frames[1])>> \o Tail(frames)]

Enter(t) ==
    /\ tool[t].pc = "c_enter"
    /\ tool[t].task \in alive
    /\ Len(tool[t].frames) < MaxDepth
    /\ tool' = [tool EXCEPT ![t] =
          IF kids[tool[t].task] = <<>> THEN Returned(t, tool[t].frames)
          ELSE [tool[t] EXCEPT !.pc = "c_loop",
                   !.frames = <<FirstKid(tool[t].task)>> \o tool[t].frames]]
    /\ UNCHANGED <<env, kernelVars, globalVars, inbox, historyVars, fault>>

\* The calls have filled the kernel stack.
EnterFails(t) ==
    /\ tool[t].pc = "c_enter"
    /\ tool[t].task \in alive
    /\ Len(tool[t].frames) = MaxDepth
    /\ Oops(t)

\* A number that is not in the table ends the loop: that of the list's head,
\* as a rule.
NextChild(t) ==
    /\ tool[t].pc = "c_loop"
    /\ LET p == PidAt(tool[t].frames[1]) IN
          IF Listed(p)
          THEN /\ Put(Append(Tabs(Len(tool[t].frames)), p))
               /\ i' = Len(tool[t].frames)
               /\ tool' = [tool EXCEPT ![t].pc = "c_enter", ![t].task = p]
          ELSE /\ tool' = [tool EXCEPT ![t] = Returned(t, Tail(@.frames))]
               /\ UNCHANGED <<answerMsg, tmpMsg, i>>
    /\ UNCHANGED <<env, kernelVars, str, pid, j, parent_pid_holder, parentNum,
                   inbox, historyVars, fault>>

Children(t) == ChildrenStart(t) \/ Enter(t) \/ EnterFails(t) \/ NextChild(t)

-----------------------------------------------------------------------------

\* The processes, and heads of lists in them, that t's next step reads: where
\* its walk stands, what -s compares with, where a call returns to.
Reads(t) ==
    LET frames == tool[t].frames
    IN  CASE tool[t].pc = "p_up" -> {tool[t].task}
          [] tool[t].pc = "s_loop" -> {tool[t].target, frames[1]}
          [] tool[t].pc = "c_enter" -> {frames[k] : k \in DOMAIN frames \cap {1}}
          [] tool[t].pc = "c_loop" ->
                {frames[k] : k \in DOMAIN frames \cap
                       IF Listed(PidAt(frames[1])) THEN {1} ELSE {1, 2}}
          [] OTHER -> {}
Gone(x) == (IF x < 0 THEN -1 - x ELSE x) \notin alive \cup {0}

\* What was reaped may have been freed since.
ReadFreed(t) ==
    /\ \E x \in Reads(t) : Gone(x)
    /\ Oops(t)

\* Tools do not exit before their answer has come; those that process 0 has
\* started never do.
MayExit(p) ==
    /\ p \in alive
    /\ parent[p] # 0
    /\ p \in Tools => tool[p].pc = "done"
    /\ Cardinality(Pids \ alive) < env.exits

Exits == still' = [t \in Tools |-> still[t] /\ ~Handling(t)]

\* A process with children exits: they move to the end of the list of
\* process 1.  It stays in its own list until it is reaped.
Exit(p) ==
    /\ MayExit(p)
    /\ kids[p] # <<>>
    /\ kids' = [kids EXCEPT ![1] = @ \o kids[p], ![p] = <<>>]
    /\ parent' = [q \in Pids |->
                     IF \E k \in DOMAIN kids[p] : kids[p][k] = q THEN 1
                                                             ELSE parent[q]]
    /\ Exits
    /\ settled' = [t \in Tools |-> settled[t] /\ ~Handling(t)]
    /\ UNCHANGED <<env, alive, groups, globalVars, tool, inbox, want, solo,
                   fault>>

\* A process without children, if it has not exited yet, does, and is reaped;
\* its number may live on as that of a group.
Reap(p) ==
    /\ MayExit(p)
    /\ kids[p] = <<>>
    /\ alive' = alive \ {p}
    /\ groups' \in {groups, groups \cup {p}}
    /\ kids' = [kids EXCEPT ![parent[p]] = RemoveAt(@, Place(p))]
    /\ Exits
    /\ UNCHANGED <<env, parent, globalVars, tool, inbox, want, solo, settled,
                   fault>>

Step(t) == \/ SetPid(t) \/ Begin(t) \/ Option(t) \/ Send(t) \/ Receive(t)
           \/ Invalid(t) \/ FindPid(t) \/ LookupFails(t) \/ ReadFreed(t)
           \/ Parent(t) \/ Sibling(t) \/ Children(t)

Next == /\ fault = 0
        /\ \/ \E t \in Tools : \/ Step(t)
                               \/ \E a \in env.args : Ask(t, a) \/ Refuse(t, a)
           \/ \E p \in Pids : Exit(p) \/ Reap(p)

Spec == Init /\ [][Next]_vars

\* The handler runs in the process that asked, which the kernel schedules.
FairSpec == Spec /\ \A t \in Tools : WF_vars(fault = 0 /\ Step(t))

-----------------------------------------------------------------------------
(* Properties                                                               *)

\* No word of a process that a list head is taken for is the number of a
\* process.
NoStray == \A p \in DOMAIN env.stray : env.stray[p] \notin Pids

Undisturbed(t) == solo[t] /\ still[t] /\ NoStray

TypeOK ==
    /\ alive \subseteq Pids /\ groups \subseteq Pids \ alive
    /\ pid \in Tools \cup {0}
    /\ i \in 0 .. MaxDepth /\ j \in Nat /\ parentNum \in 0 .. MaxDepth
    /\ Len(answerMsg) <= MaxText /\ Len(tmpMsg) <= MaxText
    /\ \A k \in DOMAIN parent_pid_holder :
          parent_pid_holder[k] \in Pids \cup {0}
    /\ \A t \in Tools : /\ tool[t].target \in Nat
                         /\ Len(tool[t].frames) <= MaxDepth
    /\ fault \in Tools \cup {0}

\* A request that is handled alone, while no process exits (nor is started),
\* is answered to the process that asked, with the text its command stands
\* for, unless a list head reads as a process (NoStray): whatever was left in
\* the buffers by earlier requests that ran into each other, or by walks cut
\* short (ksimple_pstree.c:57-80, simple_pstree.h:30-102).
AnswerRight ==
    \A t \in Tools :
        Undisturbed(t) /\ tool[t].pc = "wait" => inbox[t] = <<Cut(want[t])>>

\* A loop of t has taken a list head for a process.
Stray(x) == x < 0 /\ Listed(PidAt(x))
Strays(t) == \E k \in DOMAIN tool[t].frames : Stray(tool[t].frames[k])

\* The kernel fails only in a request that met another one or an exit, that
\* asked for a number that has outlived its process, or whose walk has taken a
\* list head for a process (ksimple_pstree.h:59-66, 71-77, 92, 155, 160-164).
FaultExplained ==
    fault # 0 => \/ ~solo[fault] \/ ~still[fault]
                 \/ tool[fault].target \in groups
                 \/ Strays(fault)

Lines(text) == SelectSeq(text, LAMBDA x : x # Tab)
Shortened(lines, all) ==
    lines = SelectSeq(all, LAMBDA p : \E k \in DOMAIN lines : lines[k] = p)

\* The texts that t has got, or is putting together.
Shown(t) ==
    CASE tool[t].pc = "wait" -> {inbox[t][k] : k \in DOMAIN inbox[t]}
      [] tool[t].pc \in {"off", "pid", "begin", "option", "done"} -> {}
      [] OTHER -> {answerMsg}

\* A loop that will not end: it stands on a process that was reaped, whose
\* number names a group, or waits for a target that was reaped.
Stuck(t) == \/ \E k \in DOMAIN tool[t].frames : tool[t].frames[k] \in groups
            \/ tool[t].pc = "s_loop" /\ tool[t].target \notin alive

\* Processes without children that exit during a walk can only shorten its
\* text, at each moment of the walk: no process is listed twice, out of order
\* or where it does not belong (ksimple_pstree.h:80-95, 121-129, 161-175).
\* Not so when one with children exits (settled), as they move to a list the
\* walk may yet come to; when a list head reads as a process; or from where
\* the loop is stuck.
OnlyShortened ==
    \A t \in Tools :
        solo[t] /\ settled[t] /\ NoStray /\ ~Stuck(t) =>
            \A text \in Shown(t) :
                \/ text = <<NotValid>> /\ tool[t].target \notin alive
                \/ Shortened(Lines(text), Lines(want[t]))

\* A walk that is not disturbed ends and its text is sent, although no loop
\* over a list ever meets the head it compares with
\* (ksimple_pstree.h:121, 161).
Alone == \E t \in Tools : Handling(t) /\ Undisturbed(t)
AnswerComes == Alone ~> (~Alone \/ fault # 0)

=============================================================================
