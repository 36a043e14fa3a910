---------------------------- MODULE PstreeProofs ----------------------------
(***************************************************************************)
(* The kernel module's walks, for every tree of processes and every set of *)
(* requests: their types, and what they stand on when nobody disturbs      *)
(* them.                                                                   *)
(***************************************************************************)
EXTENDS Pstree, Groundwork, SequenceTheorems, TLAPS

-----------------------------------------------------------------------------
(* The inductive invariant                                                  *)

Roots    == Pids \cup {0}
Elements == Pids \cup {ListHead(p) : p \in Roots}
Opts     == {"c", "p", "s"}
Pcs      == {"off", "pid", "begin", "option", "p_start", "p_task", "p_up",
             "p_tabs", "p_line", "s_start", "s_loop", "c_start", "c_task",
             "c_enter", "c_loop", "send", "wait", "done"}
Fresh    == {"off", "pid", "begin", "option", "p_start", "p_task", "s_start",
             "c_start", "c_task"}
Texts    == {text \in Seq(Int) : Len(text) <= MaxText}

\* How deep in the tree a process is at first; it only ever moves up.
Depth == CHOOSE depth \in [Pids -> 1 .. MaxDepth] :
            /\ depth[1] = 1
            /\ \A p \in Pids : Parent0[p] # 0 => depth[Parent0[p]] < depth[p]

\* The lists hold the processes that are alive, each once, in the list of its
\* parent, which is less deep.
KernelSound ==
    /\ alive \subseteq Pids /\ 1 \in alive
    /\ groups \subseteq Pids \ alive
    /\ parent \in [Pids -> Roots] /\ parent[1] = 0
    /\ \A p \in Pids : parent[p] # 0 => Depth[parent[p]] < Depth[p]
    /\ kids \in [Roots -> Seq(Pids)]
    /\ \A p \in alive : \E k \in DOMAIN kids[parent[p]] :
          kids[parent[p]][k] = p
    /\ \A p \in alive : parent[p] \in alive \cup {0}
    /\ \A p \in Roots : \A k \in DOMAIN kids[p] :
          /\ kids[p][k] \in alive
          /\ parent[kids[p][k]] = p
          /\ \A l \in DOMAIN kids[p] : kids[p][k] = kids[p][l] => k = l

GlobalsType ==
    /\ str \in [opt : Opts \cup {"-"}, target : Nat]
    /\ pid \in Tools \cup {0}
    /\ answerMsg \in Texts /\ tmpMsg \in Texts
    /\ i \in 0 .. MaxDepth
    /\ j \in Nat
    /\ parentNum \in 0 .. MaxDepth
    /\ parent_pid_holder \in [0 .. MaxDepth - 1 -> Roots]

ToolRecs == [pc : Pcs, target : Nat, task : Roots, frames : Seq(Elements)]

ToolType ==
    /\ tool \in [Tools -> ToolRecs]
    /\ \A t \in Tools :
          /\ Len(tool[t].frames) <= MaxDepth
          /\ tool[t].pc \in {"p_up", "c_enter"} => tool[t].task \in Pids
          /\ tool[t].pc \in {"s_loop", "c_loop"} => tool[t].frames # <<>>
          /\ tool[t].pc \in Fresh => tool[t].frames = <<>>
          /\ tool[t].pc \in {"pid", "begin", "option"} => str.opt \in Opts
          /\ tool[t].pc \in {"p_tabs", "p_line"} => j # 0

Types ==
    /\ env \in Environments
    /\ KernelSound
    /\ GlobalsType
    /\ ToolType
    /\ inbox \in [Tools -> Seq(Texts)]
    /\ solo \in [Tools -> BOOLEAN] /\ still \in [Tools -> BOOLEAN]
    /\ settled \in [Tools -> BOOLEAN]
    /\ fault \in Tools \cup {0}

\* The list a walk stands on is that of the owner of its element.
Owner(x) == IF x < 0 THEN -1 - x ELSE parent[x]

\* The part of the holder that is filled.
HeldAlive(n) == \A k \in 0 .. n - 1 : parent_pid_holder[k] \in alive

\* No loop stands on a process that is gone.
Standing(frames) == \A k \in DOMAIN frames : ~Gone(frames[k])

\* No loop from the n-th one outwards has taken a list head for a process.
Free(frames, n) == \A m \in n .. Len(frames) : ~Stray(frames[m])

\* Each loop goes over the list of a process that is deeper in the tree than
\* there are loops around it, if they have all been going over processes.
Nested(frames) ==
    \A k \in DOMAIN frames :
        /\ Owner(frames[k]) \in Pids
        /\ Free(frames, k + 1) => Depth[Owner(frames[k])] > Len(frames) - k

\* What a walk stands on that nobody disturbs is alive, and it has room for
\* what is above or below it.
WalkSound(t) ==
    LET pc == tool[t].pc
        task == tool[t].task
        frames == tool[t].frames
    IN  /\ pc \in {"p_task", "c_task"} => InTable(tool[t].target)
        /\ pc = "s_loop" => tool[t].target \in alive
        /\ pc = "p_up" => /\ task \in alive
                          /\ HeldAlive(i) /\ i + Depth[task] <= MaxDepth
        /\ pc \in {"p_tabs", "p_line"} => HeldAlive(parentNum)
        /\ pc = "p_line" => j <= parentNum + 1
        /\ Standing(frames)
        /\ pc \in {"c_enter", "c_loop"} => Nested(frames)
        /\ pc = "c_enter" /\ Free(frames, 1) => /\ task \in alive
                                                /\ Depth[task] > Len(frames)

\* Of requests that are handled at once none is alone.
NoneAlone == \A t, u \in Tools : t # u /\ Handling(t) /\ Handling(u) => ~solo[t]

Inv == /\ Types
       /\ NoneAlone
       /\ \A t \in Tools : Handling(t) /\ solo[t] /\ still[t] => WalkSound(t)
       /\ FaultExplained

-----------------------------------------------------------------------------
(* Texts                                                                    *)

\* Numbers of processes are not 0; a list head is told from a process by its
\* sign.
LEMMA Numbers ==
    /\ Pids \subseteq Nat /\ 0 \notin Pids /\ Roots \subseteq Nat
    /\ 1 \in Pids /\ Tools \subseteq Pids
    /\ Elements \subseteq Int
    /\ \A p \in Roots : /\ ListHead(p) \in Elements /\ ListHead(p) < 0
                         /\ -1 - ListHead(p) = p
    /\ \A x \in Elements : x < 0 => -1 - x \in Roots /\ x = ListHead(-1 - x)
    /\ \A x \in Elements : ~(x < 0) => x \in Pids /\ x > 0
    /\ \A x \in Pids : x \in Elements /\ ~(x < 0) /\ x > 0
<1>1. /\ Pids \subseteq Nat /\ 0 \notin Pids /\ Roots \subseteq Nat
      /\ 1 \in Pids /\ Tools \subseteq Pids
  BY TreeAssumption DEF Roots
<1>2. \A p \in Roots : /\ ListHead(p) \in Int /\ ListHead(p) < 0
                       /\ -1 - ListHead(p) = p
  BY <1>1 DEF ListHead
<1>3. \A p \in Roots : ListHead(p) \in Elements
  BY DEF Elements
<1>4. \A x \in Pids : x \in Elements /\ ~(x < 0) /\ x > 0
  BY <1>1 DEF Elements
<1>5. ASSUME NEW x \in Elements
      PROVE  /\ x \in Int
             /\ x < 0 => -1 - x \in Roots /\ x = ListHead(-1 - x)
             /\ ~(x < 0) => x \in Pids /\ x > 0
  <2>1. CASE x \in Pids
    BY <1>1, <1>4, <2>1
  <2>2. CASE \E p \in Roots : x = ListHead(p)
    <3> PICK p \in Roots : x = ListHead(p)
      BY <2>2
    <3>1. x \in Int /\ x < 0 /\ -1 - x = p
      BY <1>2
    <3> QED
      BY <3>1
  <2> QED
    BY <2>1, <2>2 DEF Elements
<1>6. Elements \subseteq Int
  BY <1>5
<1>7. \A x \in Elements : x < 0 => -1 - x \in Roots /\ x = ListHead(-1 - x)
  BY <1>5
<1>8. \A x \in Elements : ~(x < 0) => x \in Pids /\ x > 0
  BY <1>5
<1> QED
  BY <1>1, <1>2, <1>3, <1>4, <1>6, <1>7, <1>8

\* The list that an element is in.
LEMMA OwnerIs ==
    ASSUME KernelSound
    PROVE  /\ \A p \in Roots : Owner(ListHead(p)) = p
           /\ \A p \in Pids : Owner(p) = parent[p] /\ Owner(p) \in Roots
           /\ \A x \in Elements : Owner(x) \in Roots
           /\ \A x \in Elements : x < 0 => x = ListHead(Owner(x))
<1>1. \A p \in Pids : parent[p] \in Roots
  BY DEF KernelSound
<1>2. \A p \in Roots : Owner(ListHead(p)) = p
  BY Numbers DEF Owner
<1>3. \A p \in Pids : Owner(p) = parent[p] /\ Owner(p) \in Roots
  BY <1>1, Numbers DEF Owner
<1>4. ASSUME NEW x \in Elements
      PROVE  Owner(x) \in Roots /\ (x < 0 => x = ListHead(Owner(x)))
  <2>1. CASE x < 0
    BY <2>1, Numbers DEF Owner
  <2>2. CASE ~(x < 0)
    BY <1>3, <2>2, Numbers
  <2> QED
    BY <2>1, <2>2
<1> QED
  BY <1>2, <1>3, <1>4

\* A text that is too long is cut to the size of the buffers.
LEMMA CutIs ==
    ASSUME NEW text \in Seq(Int)
    PROVE  /\ Cut(text) \in Texts
           /\ Len(text) <= MaxText => Cut(text) = text
           /\ Len(text) > MaxText => Cut(text) = SubSeq(text, 1, MaxText)
<1>1. Len(text) \in Nat /\ MaxText \in Nat
  BY TextAssumption
<1>2. PICK m : m = Min({Len(text), MaxText})
  OBVIOUS
<1>3. /\ m \in {Len(text), MaxText} /\ m <= Len(text) /\ m <= MaxText
  <2> DEFINE P(x) == x \in {Len(text), MaxText}
                     /\ \A y \in {Len(text), MaxText} : x <= y
  <2>1. \E x : P(x)
    <3>1. CASE Len(text) <= MaxText
      BY <1>1, <3>1
    <3>2. CASE MaxText <= Len(text)
      BY <1>1, <3>2
    <3> QED
      BY <1>1, <3>1, <3>2
  <2>2. m = CHOOSE x : P(x)
    BY <1>2 DEF Min
  <2> HIDE DEF P
  <2>3. P(m)
    BY <2>1, <2>2
  <2> QED
    BY <2>3 DEF P
<1>4. Cut(text) = SubSeq(text, 1, m)
  BY <1>2 DEF Cut
<1>5. m \in Nat
  BY <1>1, <1>3
<1>6. SubSeq(text, 1, m) \in Seq(Int) /\ Len(SubSeq(text, 1, m)) = m
  BY <1>1, <1>3, <1>5
<1>7. SubSeq(text, 1, Len(text)) = text
  BY <1>1, SubSeqFull
<1>8. Len(text) <= MaxText => m = Len(text)
  BY <1>1, <1>3
<1>9. Len(text) > MaxText => m = MaxText
  BY <1>1, <1>3
<1> QED
  BY <1>1, <1>3, <1>4, <1>5, <1>6, <1>7, <1>8, <1>9 DEF Texts

\* Tabs are a text.
LEMMA TabsIs ==
    ASSUME NEW n \in Nat
    PROVE  Tabs(n) \in Seq(Int) /\ Len(Tabs(n)) = n
BY DEF Tabs, Tab

\* Put() leaves texts in both buffers.
LEMMA PutTypes ==
    ASSUME tmpMsg \in Texts, NEW text \in Seq(Int), Put(text)
    PROVE  answerMsg' \in Texts /\ tmpMsg' \in Texts
<1>1. tmpMsg \o text \in Seq(Int)
  BY DEF Texts
<1> QED
  BY <1>1, CutIs DEF Put

-----------------------------------------------------------------------------
(* The tools' records                                                       *)

\* The tool t is where and what it is said to be now, the others stay.
Becomes(t, pc, target, task, frames) ==
    /\ tool' \in [Tools -> ToolRecs]
    /\ tool'[t].pc = pc
    /\ tool'[t].target = target
    /\ tool'[t].task = task
    /\ tool'[t].frames = frames
    /\ \A u \in Tools : u # t => tool'[u] = tool[u]

\* What becomes of a tool when some of its fields are replaced.
LEMMA PcSet ==
    ASSUME tool \in [Tools -> ToolRecs], NEW t \in Tools, NEW pc \in Pcs,
           tool' = [tool EXCEPT ![t].pc = pc]
    PROVE  Becomes(t, pc, tool[t].target, tool[t].task, tool[t].frames)
BY DEF ToolRecs, Becomes

\* As PcSet, for the process the walk is at.
LEMMA TaskSet ==
    ASSUME tool \in [Tools -> ToolRecs], NEW t \in Tools, NEW task \in Roots,
           tool' = [tool EXCEPT ![t].task = task]
    PROVE  Becomes(t, tool[t].pc, tool[t].target, task, tool[t].frames)
BY DEF ToolRecs, Becomes

\* As PcSet, for the loops.
LEMMA FramesSet ==
    ASSUME tool \in [Tools -> ToolRecs], NEW t \in Tools,
           NEW frames \in Seq(Elements),
           tool' = [tool EXCEPT ![t].frames = frames]
    PROVE  Becomes(t, tool[t].pc, tool[t].target, tool[t].task, frames)
BY DEF ToolRecs, Becomes

\* As PcSet, for where the tool is and the process.
LEMMA PcTaskSet ==
    ASSUME tool \in [Tools -> ToolRecs], NEW t \in Tools, NEW pc \in Pcs,
           NEW task \in Roots, tool' = [tool EXCEPT ![t].pc = pc, ![t].task = task]
    PROVE  Becomes(t, pc, tool[t].target, task, tool[t].frames)
BY DEF ToolRecs, Becomes

\* As PcSet, for where the tool is and the loops.
LEMMA PcFramesSet ==
    ASSUME tool \in [Tools -> ToolRecs], NEW t \in Tools, NEW pc \in Pcs,
           NEW frames \in Seq(Elements),
           tool' = [tool EXCEPT ![t].pc = pc, ![t].frames = frames]
    PROVE  Becomes(t, pc, tool[t].target, tool[t].task, frames)
BY DEF ToolRecs, Becomes

\* As PcSet, for the number asked for and where the tool is.
LEMMA TargetPcSet ==
    ASSUME tool \in [Tools -> ToolRecs], NEW t \in Tools, NEW pc \in Pcs,
           NEW target \in Nat,
           tool' = [tool EXCEPT ![t].target = target, ![t].pc = pc]
    PROVE  Becomes(t, pc, target, tool[t].task, tool[t].frames)
BY DEF ToolRecs, Becomes

\* As PcSet, for the whole record.
LEMMA RecordSet ==
    ASSUME tool \in [Tools -> ToolRecs], NEW t \in Tools, NEW r \in ToolRecs,
           tool' = [tool EXCEPT ![t] = r]
    PROVE  Becomes(t, r.pc, r.target, r.task, r.frames)
BY DEF ToolRecs, Becomes

-----------------------------------------------------------------------------
(* The lists                                                                *)

\* The depths that the assumption says there are.
LEMMA DepthIs ==
    /\ MaxDepth \in Nat
    /\ Depth \in [Pids -> 1 .. MaxDepth]
    /\ Depth[1] = 1
    /\ \A p \in Pids : Parent0[p] # 0 => Depth[Parent0[p]] < Depth[p]
BY DepthAssumption DEF Depth

\* A process that is alive has a place in its parent's list.
LEMMA PlaceIs ==
    ASSUME KernelSound, NEW p \in alive
    PROVE  /\ Place(p) \in DOMAIN kids[parent[p]]
           /\ kids[parent[p]][Place(p)] = p
<1>1. \E k \in DOMAIN kids[parent[p]] : kids[parent[p]][k] = p
  BY DEF KernelSound
<1> QED
  BY <1>1 DEF Place

\* The elements of p's list: a child that is alive, or the head.
InListOf(x, p) ==
    /\ x \in Elements
    /\ Owner(x) = p
    /\ x > 0 => x \in alive

\* The head of p's list and its elements are in the list.
LEMMA ListedIs ==
    ASSUME KernelSound, NEW p \in Roots
    PROVE  /\ InListOf(ListHead(p), p)
           /\ \A k \in DOMAIN kids[p] : InListOf(kids[p][k], p)
<1>1. InListOf(ListHead(p), p)
  <2>1. ListHead(p) \in Elements /\ ListHead(p) < 0 /\ Owner(ListHead(p)) = p
    BY Numbers, OwnerIs
  <2>2. ListHead(p) \in Int
    BY <2>1, Numbers
  <2>3. ~(ListHead(p) > 0)
    BY <2>1, <2>2
  <2> QED
    BY <2>1, <2>3 DEF InListOf
<1>2. ASSUME NEW k \in DOMAIN kids[p]
      PROVE  InListOf(kids[p][k], p)
  <2>1. kids[p][k] \in alive /\ parent[kids[p][k]] = p
    BY DEF KernelSound
  <2>2. kids[p][k] \in Pids
    BY <2>1 DEF KernelSound
  <2>3. kids[p][k] \in Elements /\ Owner(kids[p][k]) = p
    BY <2>1, <2>2, Numbers, OwnerIs
  <2> QED
    BY <2>1, <2>3 DEF InListOf
<1> QED
  BY <1>1, <1>2

\* The first element behind the head.
LEMMA FirstKidIs ==
    ASSUME KernelSound, NEW p \in Roots
    PROVE  InListOf(FirstKid(p), p)
<1>1. CASE kids[p] = <<>>
  BY <1>1, ListedIs DEF FirstKid
<1>2. CASE kids[p] # <<>>
  <2>1. kids[p] \in Seq(Pids)
    BY DEF KernelSound
  <2>2. 1 \in DOMAIN kids[p]
    BY <1>2, <2>1
  <2>3. FirstKid(p) = kids[p][1]
    BY <1>2 DEF FirstKid
  <2> QED
    BY <2>2, <2>3, ListedIs
<1> QED
  BY <1>1, <1>2

\* The next element is one of the same list, except that who has left it
\* stays where it is.
LEMMA NextOfIs ==
    ASSUME KernelSound, NEW x \in Elements
    PROVE  /\ NextOf(x) \in Elements
           /\ Owner(NextOf(x)) = Owner(x)
           /\ (x > 0 => x \in alive) => InListOf(NextOf(x), Owner(x))
<1>1. Owner(x) \in Roots
  BY OwnerIs
<1>2. CASE x < 0
  <2>1. NextOf(x) = FirstKid(Owner(x))
    BY <1>2 DEF NextOf, Owner
  <2>2. InListOf(NextOf(x), Owner(x))
    BY <1>1, <2>1, FirstKidIs
  <2> QED
    BY <2>2 DEF InListOf
<1>3. CASE ~(x < 0) /\ x \notin alive
  <2>1. NextOf(x) = x /\ x > 0
    BY <1>3, Numbers DEF NextOf
  <2> QED
    BY <1>3, <2>1
<1>4. CASE ~(x < 0) /\ x \in alive
  <2>1. x \in Pids /\ Owner(x) = parent[x]
    BY <1>4, Numbers, OwnerIs
  <2>2. kids[Owner(x)] \in Seq(Pids)
    BY <1>1 DEF KernelSound
  <2>3. /\ Place(x) \in DOMAIN kids[Owner(x)]
        /\ NextOf(x) = IF Place(x) = Len(kids[Owner(x)])
                       THEN ListHead(Owner(x)) ELSE kids[Owner(x)][Place(x) + 1]
    BY <1>4, <2>1, PlaceIs DEF NextOf
  <2>4. CASE Place(x) = Len(kids[Owner(x)])
    <3>1. InListOf(NextOf(x), Owner(x))
      BY <1>1, <2>3, <2>4, ListedIs
    <3> QED
      BY <3>1 DEF InListOf
  <2>5. CASE Place(x) # Len(kids[Owner(x)])
    <3>1. Place(x) + 1 \in DOMAIN kids[Owner(x)]
      BY <2>2, <2>3, <2>5
    <3>2. InListOf(NextOf(x), Owner(x))
      BY <1>1, <2>3, <2>5, <3>1, ListedIs
    <3> QED
      BY <3>2 DEF InListOf
  <2> QED
    BY <2>4, <2>5
<1> QED
  BY <1>2, <1>3, <1>4

\* A process that is reaped leaves the lists sound.
LEMMA ReapKernel ==
    ASSUME KernelSound, NEW p \in Pids, Reap(p)
    PROVE  KernelSound'
<1> DEFINE q == parent[p]
           at == Place(p)
<1>1. /\ p \in alive /\ parent[p] # 0 /\ kids[p] = <<>>
      /\ alive' = alive \ {p} /\ parent' = parent
      /\ groups' \in {groups, groups \cup {p}}
      /\ kids' = [kids EXCEPT ![q] = RemoveAt(kids[q], at)]
  BY DEF Reap, MayExit
<1>2. q \in Roots /\ p # 1
  BY <1>1 DEF KernelSound
<1>3. at \in DOMAIN kids[q] /\ kids[q][at] = p
  BY <1>1, PlaceIs
<1>4. kids \in [Roots -> Seq(Pids)] /\ kids[q] \in Seq(Pids)
  BY <1>2 DEF KernelSound
<1> HIDE DEF q, at
<1> DEFINE r == RemoveAt(kids[q], at)
<1>5. /\ r \in Seq(Pids)
      /\ DOMAIN r = 1 .. Len(kids[q]) - 1
      /\ \A k \in 1 .. Len(kids[q]) - 1 :
            r[k] = IF k < at THEN kids[q][k] ELSE kids[q][k + 1]
  BY <1>3, <1>4, RemoveAtIs
<1> HIDE DEF r
<1>6. /\ kids' \in [Roots -> Seq(Pids)]
      /\ kids'[q] = r
      /\ \A u \in Roots : u # q => kids'[u] = kids[u]
  BY <1>1, <1>2, <1>4, <1>5 DEF r
<1>7. /\ DOMAIN kids[q] = 1 .. Len(kids[q])
      /\ Len(kids[q]) \in Nat /\ at \in 1 .. Len(kids[q])
  BY <1>3, <1>4
\* What is left of the list are the elements at the other places.
<1>8. ASSUME NEW k \in DOMAIN r
      PROVE  \E m \in DOMAIN kids[q] : /\ m # at
                                       /\ m = IF k < at THEN k ELSE k + 1
                                       /\ r[k] = kids[q][m]
  BY <1>5, <1>7
<1>9. ASSUME NEW m \in DOMAIN kids[q], m # at
      PROVE  \E k \in DOMAIN r : r[k] = kids[q][m]
  <2>1. CASE m < at
    <3>1. m \in DOMAIN r /\ r[m] = kids[q][m]
      BY <1>5, <1>7, <1>9, <2>1
    <3> QED
      BY <3>1
  <2>2. CASE ~(m < at)
    <3>1. m - 1 \in DOMAIN r /\ r[m - 1] = kids[q][m]
      BY <1>5, <1>7, <1>9, <2>2
    <3> QED
      BY <3>1
  <2> QED
    BY <2>1, <2>2
<1>10. alive' \subseteq Pids /\ 1 \in alive'
  BY <1>1, <1>2 DEF KernelSound
<1>11. groups' \subseteq Pids \ alive'
  BY <1>1 DEF KernelSound
<1>12. ASSUME NEW u \in alive'
       PROVE  \E k \in DOMAIN kids'[parent[u]] : kids'[parent[u]][k] = u
  <2>1. u \in alive /\ u # p /\ u \in Pids
    BY <1>1 DEF KernelSound
  <2>2. parent[u] \in Roots
    BY <2>1 DEF KernelSound
  <2>3. PICK m \in DOMAIN kids[parent[u]] : kids[parent[u]][m] = u
    BY <2>1 DEF KernelSound
  <2>4. CASE parent[u] = q
    <3>1. m # at
      BY <1>3, <2>1, <2>3, <2>4
    <3> QED
      BY <1>6, <1>9, <2>3, <2>4, <3>1
  <2>5. CASE parent[u] # q
    BY <1>6, <2>2, <2>3, <2>5
  <2> QED
    BY <2>4, <2>5
<1>13. \A u \in alive' : parent[u] \in alive' \cup {0}
  <2> SUFFICES ASSUME NEW u \in alive', parent[u] = p PROVE FALSE
    BY <1>1 DEF KernelSound
  <2>1. u \in alive
    BY <1>1
  <2>2. PICK m \in DOMAIN kids[p] : kids[p][m] = u
    BY <2>1 DEF KernelSound
  <2> QED
    BY <1>1, <2>2
<1>14. ASSUME NEW u \in Roots, NEW k \in DOMAIN kids'[u]
       PROVE  /\ kids'[u][k] \in alive'
              /\ parent[kids'[u][k]] = u
              /\ \A l \in DOMAIN kids'[u] :
                    kids'[u][k] = kids'[u][l] => k = l
  <2>1. CASE u # q
    <3>1. kids'[u] = kids[u]
      BY <1>6, <2>1
    <3>2. kids[u][k] \in alive /\ parent[kids[u][k]] = u
      BY <3>1 DEF KernelSound
    <3>3. kids[u][k] # p
      BY <2>1, <3>2 DEF q
    <3>4. \A l \in DOMAIN kids[u] : kids[u][k] = kids[u][l] => k = l
      BY <3>1 DEF KernelSound
    <3> QED
      BY <1>1, <3>1, <3>2, <3>3, <3>4
  <2>2. CASE u = q
    <3>1. PICK m \in DOMAIN kids[q] : /\ m # at
                                      /\ m = IF k < at THEN k ELSE k + 1
                                      /\ r[k] = kids[q][m]
      BY <1>6, <1>8, <2>2
    <3>2. kids[q][m] \in alive /\ parent[kids[q][m]] = q
      BY <1>2 DEF KernelSound
    <3>3. \A a, b \in DOMAIN kids[q] : kids[q][a] = kids[q][b] => a = b
      BY <1>2 DEF KernelSound
    <3>4. kids[q][m] # p
      BY <1>3, <3>1, <3>3
    <3>5. ASSUME NEW l \in DOMAIN r, r[k] = r[l] PROVE k = l
      <4>1. PICK n \in DOMAIN kids[q] : /\ n # at
                                        /\ n = IF l < at THEN l ELSE l + 1
                                        /\ r[l] = kids[q][n]
        BY <1>8
      <4>2. m = n
        BY <3>1, <3>3, <3>5, <4>1
      <4>3. k \in Int /\ l \in Int
        BY <1>5, <1>6, <2>2
      <4> QED
        BY <1>7, <3>1, <4>1, <4>2, <4>3
    <3> QED
      BY <1>1, <1>6, <2>2, <3>1, <3>2, <3>4, <3>5
  <2> QED
    BY <2>1, <2>2
<1>15. /\ parent' \in [Pids -> Roots] /\ parent'[1] = 0
       /\ \A u \in Pids : parent'[u] # 0 => Depth[parent'[u]] < Depth[u]
  BY <1>1 DEF KernelSound
<1>16. \A u \in alive' : \E k \in DOMAIN kids'[parent'[u]] :
          kids'[parent'[u]][k] = u
  BY <1>1, <1>12
<1>17. \A u \in alive' : parent'[u] \in alive' \cup {0}
  BY <1>1, <1>13
<1>18. \A u \in Roots : \A k \in DOMAIN kids'[u] :
          /\ kids'[u][k] \in alive'
          /\ parent'[kids'[u][k]] = u
          /\ \A l \in DOMAIN kids'[u] : kids'[u][k] = kids'[u][l] => k = l
  BY <1>1, <1>14
<1> QED
  BY <1>6, <1>10, <1>11, <1>15, <1>16, <1>17, <1>18 DEF KernelSound

\* A process that exits leaves the lists sound: its children, if it has any,
\* are behind those of process 1.
LEMMA ExitKernel ==
    ASSUME KernelSound, NEW p \in Pids, Exit(p)
    PROVE  KernelSound'
<1> DEFINE a == kids[1]
           b == kids[p]
           c == kids[1] \o kids[p]
           Moved(q) == \E k \in DOMAIN kids[p] : kids[p][k] = q
<1>1. /\ p \in alive /\ parent[p] # 0
      /\ alive' = alive /\ groups' = groups
      /\ kids' = [kids EXCEPT ![1] = c, ![p] = <<>>]
      /\ parent' = [q \in Pids |-> IF Moved(q) THEN 1 ELSE parent[q]]
  BY DEF Exit, MayExit
<1>2. /\ p # 1 /\ p \in Roots /\ 1 \in Roots /\ 1 \in Pids /\ 0 \in Roots
      /\ 0 \notin Pids
  BY <1>1, Numbers DEF KernelSound, Roots
<1>3. kids \in [Roots -> Seq(Pids)] /\ a \in Seq(Pids) /\ b \in Seq(Pids)
  BY <1>2 DEF KernelSound
<1>4. /\ \A k \in DOMAIN a : a[k] \in alive /\ parent[a[k]] = 1
      /\ \A k, l \in DOMAIN a : a[k] = a[l] => k = l
      /\ \A k \in DOMAIN b : b[k] \in alive /\ parent[b[k]] = p
      /\ \A k, l \in DOMAIN b : b[k] = b[l] => k = l
  BY <1>2 DEF KernelSound
<1> HIDE DEF a, b
<1>19. c = a \o b
  BY DEF a, b
<1> HIDE DEF c
<1>5. /\ c \in Seq(Pids) /\ Len(c) = Len(a) + Len(b)
      /\ Len(a) \in Nat /\ Len(b) \in Nat
      /\ DOMAIN a = 1 .. Len(a) /\ DOMAIN b = 1 .. Len(b)
      /\ DOMAIN c = 1 .. Len(a) + Len(b)
      /\ \A k \in DOMAIN a : c[k] = a[k]
  BY <1>3, <1>19
<1>6. ASSUME NEW k \in DOMAIN c, k \notin DOMAIN a
      PROVE  k - Len(a) \in DOMAIN b /\ c[k] = b[k - Len(a)]
  <2>1. k \in 1 .. Len(a) + Len(b) /\ k > Len(a)
    BY <1>5, <1>6
  <2>2. (a \o b)[k] = b[k - Len(a)]
    BY <1>3, <2>1, ConcatAt
  <2>3. k - Len(a) \in 1 .. Len(b)
    BY <1>5, <2>1
  <2> QED
    BY <1>5, <1>19, <2>2, <2>3
<1>7. ASSUME NEW k \in DOMAIN b
      PROVE  k + Len(a) \in DOMAIN c /\ c[k + Len(a)] = b[k]
  <2>1. /\ k + Len(a) \in DOMAIN c /\ k + Len(a) \notin DOMAIN a
        /\ (k + Len(a)) - Len(a) = k
    BY <1>5
  <2> QED
    BY <1>6, <2>1
<1>8. /\ kids' \in [Roots -> Seq(Pids)]
      /\ kids'[1] = c /\ kids'[p] = <<>>
      /\ \A u \in Roots : u # 1 /\ u # p => kids'[u] = kids[u]
  <2>1. c \in Seq(Pids) /\ <<>> \in Seq(Pids)
    BY <1>5
  <2> QED
    BY <1>1, <1>2, <1>3, <2>1
<1>9. \A q : Moved(q) <=> \E k \in DOMAIN b : b[k] = q
  BY DEF b
<1> HIDE DEF Moved
<1>10. \A q \in alive : Moved(q) <=> parent[q] = p
  <2>1. \A q \in alive : parent[q] = p => \E k \in DOMAIN b : b[k] = q
    BY DEF KernelSound, b
  <2> QED
    BY <1>4, <1>9, <2>1
<1>11. \A q : Moved(q) => q \in alive /\ parent[q] = p
  BY <1>4, <1>9
<1>12. \A q \in Pids : parent'[q] = IF Moved(q) THEN 1 ELSE parent[q]
  BY <1>1
<1>13. alive \subseteq Pids /\ parent \in [Pids -> Roots] /\ parent[1] = 0
  BY DEF KernelSound
<1>14. parent' \in [Pids -> Roots] /\ parent'[1] = 0
  <2>1. ~Moved(1)
    BY <1>2, <1>11, <1>13
  <2>2. parent' \in [Pids -> Roots]
    BY <1>1, <1>2, <1>13
  <2> QED
    BY <1>2, <1>12, <1>13, <2>1, <2>2
<1>15. ASSUME NEW q \in Pids, parent'[q] # 0
       PROVE  Depth[parent'[q]] < Depth[q]
  <2>1. CASE Moved(q)
    <3>1. parent'[q] = 1 /\ parent[q] = p
      BY <1>11, <1>12, <2>1
    <3>2. Depth[p] < Depth[q]
      BY <1>1, <1>2, <3>1 DEF KernelSound
    <3>3. /\ Depth[1] = 1 /\ Depth[p] \in 1 .. MaxDepth
          /\ Depth[q] \in 1 .. MaxDepth
      BY DepthIs
    <3> QED
      BY <3>1, <3>2, <3>3, DepthIs
  <2>2. CASE ~Moved(q)
    <3>1. parent'[q] = parent[q]
      BY <1>12, <2>2
    <3>2. Depth[parent[q]] < Depth[q]
      BY <1>15, <3>1 DEF KernelSound
    <3> QED
      BY <3>1, <3>2
  <2> QED
    BY <2>1, <2>2
<1>16. ASSUME NEW u \in alive'
       PROVE  \E k \in DOMAIN kids'[parent'[u]] : kids'[parent'[u]][k] = u
  <2>1. u \in alive /\ u \in Pids
    BY <1>1, <1>13
  <2>2. CASE Moved(u)
    <3>1. parent'[u] = 1
      BY <1>12, <2>1, <2>2
    <3>2. PICK k \in DOMAIN b : b[k] = u
      BY <1>9, <2>2
    <3> QED
      BY <1>7, <1>8, <3>1, <3>2
  <2>3. CASE ~Moved(u)
    <3>1. parent'[u] = parent[u] /\ parent[u] # p /\ parent[u] \in Roots
      BY <1>10, <1>12, <1>13, <2>1, <2>3
    <3>2. PICK k \in DOMAIN kids[parent[u]] : kids[parent[u]][k] = u
      BY <2>1 DEF KernelSound
    <3>3. CASE parent[u] = 1
      <4>1. k \in DOMAIN a /\ a[k] = u
        BY <3>2, <3>3 DEF a
      <4>2. k \in DOMAIN c /\ c[k] = u
        BY <1>5, <4>1
      <4> QED
        BY <1>8, <3>1, <3>3, <4>2
    <3>4. CASE parent[u] # 1
      BY <1>8, <3>1, <3>2, <3>4
    <3> QED
      BY <3>3, <3>4
  <2> QED
    BY <2>2, <2>3
<1>17. \A u \in alive' : parent'[u] \in alive' \cup {0}
  BY <1>1, <1>12, <1>13 DEF KernelSound
<1>18. ASSUME NEW u \in Roots, NEW k \in DOMAIN kids'[u]
       PROVE  /\ kids'[u][k] \in alive'
              /\ parent'[kids'[u][k]] = u
              /\ \A l \in DOMAIN kids'[u] :
                    kids'[u][k] = kids'[u][l] => k = l
  <2>1. CASE u = p
    BY <1>8, <2>1
  <2>2. CASE u = 1
    <3>1. kids'[u] = c
      BY <1>8, <2>2
    <3>2. ASSUME NEW m \in DOMAIN c
          PROVE  /\ c[m] \in alive
                 /\ m \in DOMAIN a <=> parent[c[m]] = 1
                 /\ parent'[c[m]] = 1
      <4>1. CASE m \in DOMAIN a
        <5>1. c[m] = a[m] /\ a[m] \in alive /\ parent[a[m]] = 1
          BY <1>4, <1>5, <4>1
        <5>2. ~Moved(c[m])
          BY <1>2, <1>11, <5>1
        <5> QED
          BY <1>12, <1>13, <4>1, <5>1, <5>2
      <4>2. CASE m \notin DOMAIN a
        <5>1. PICK n \in DOMAIN b : c[m] = b[n]
          BY <1>6, <4>2
        <5>2. c[m] \in alive /\ parent[c[m]] = p /\ Moved(c[m])
          BY <1>4, <1>9, <5>1
        <5> QED
          BY <1>2, <1>12, <1>13, <4>2, <5>2
      <4> QED
        BY <4>1, <4>2
    <3>3. ASSUME NEW m \in DOMAIN c, NEW l \in DOMAIN c, c[m] = c[l]
          PROVE  m = l
      <4>1. m \in DOMAIN a <=> l \in DOMAIN a
        BY <3>2, <3>3
      <4>2. CASE m \in DOMAIN a
        BY <1>4, <1>5, <3>3, <4>1, <4>2
      <4>3. CASE m \notin DOMAIN a
        <5>1. /\ m - Len(a) \in DOMAIN b /\ l - Len(a) \in DOMAIN b
              /\ b[m - Len(a)] = b[l - Len(a)]
          BY <1>6, <3>3, <4>1, <4>3
        <5>2. m - Len(a) = l - Len(a)
          BY <1>4, <5>1
        <5>3. m \in Int /\ l \in Int
          BY <1>5
        <5> QED
          BY <1>5, <5>2, <5>3
      <4> QED
        BY <4>2, <4>3
    <3>4. k \in DOMAIN c
      BY <3>1
    <3>5. c[k] \in alive' /\ parent'[c[k]] = 1
      BY <1>1, <3>2, <3>4
    <3>6. \A l \in DOMAIN c : c[k] = c[l] => k = l
      BY <3>3, <3>4
    <3> QED
      BY <2>2, <3>1, <3>5, <3>6
  <2>3. CASE u # 1 /\ u # p
    <3>1. kids'[u] = kids[u]
      BY <1>8, <2>3
    <3>2. kids[u][k] \in alive /\ parent[kids[u][k]] = u
      BY <3>1 DEF KernelSound
    <3>3. parent'[kids[u][k]] = u
      BY <1>10, <1>12, <1>13, <2>3, <3>2
    <3>4. \A l \in DOMAIN kids[u] : kids[u][k] = kids[u][l] => k = l
      BY <3>1 DEF KernelSound
    <3>5. kids[u][k] \in alive'
      BY <1>1, <3>2
    <3> QED
      BY <3>1, <3>3, <3>4, <3>5
  <2> QED
    BY <2>1, <2>2, <2>3
<1>20. alive' \subseteq Pids /\ 1 \in alive' /\ groups' \subseteq Pids \ alive'
  BY <1>1 DEF KernelSound
<1> QED
  BY <1>8, <1>14, <1>15, <1>16, <1>17, <1>18, <1>20 DEF KernelSound

-----------------------------------------------------------------------------
(* Types: what a step of one tool has to keep                               *)

\* A list of loops without its innermost one, or with one more.
LEMMA FramesAre ==
    ASSUME NEW S, NEW frames \in Seq(S)
    PROVE  /\ Len(frames) \in Nat
           /\ DOMAIN frames = 1 .. Len(frames)
           /\ \A x \in S : /\ <<x>> \in Seq(S) /\ Len(<<x>>) = 1
                           /\ <<x>> # <<>> /\ <<x>>[1] = x
                           /\ <<x>> \o frames \in Seq(S)
                           /\ <<x>> \o frames # <<>>
                           /\ Len(<<x>> \o frames) = Len(frames) + 1
                           /\ (<<x>> \o frames)[1] = x
                           /\ \A k \in 2 .. Len(frames) + 1 :
                                 (<<x>> \o frames)[k] = frames[k - 1]
           /\ frames # <<>> =>
                /\ 1 \in DOMAIN frames /\ frames[1] \in S
                /\ Tail(frames) \in Seq(S)
                /\ Len(Tail(frames)) = Len(frames) - 1
                /\ \A k \in 1 .. Len(frames) - 1 :
                      Tail(frames)[k] = frames[k + 1]
<1>1. Len(frames) \in Nat /\ DOMAIN frames = 1 .. Len(frames)
  OBVIOUS
<1>2. ASSUME NEW x \in S
      PROVE  /\ <<x>> \in Seq(S) /\ Len(<<x>>) = 1
             /\ <<x>> # <<>> /\ <<x>>[1] = x
             /\ <<x>> \o frames \in Seq(S)
             /\ <<x>> \o frames # <<>>
             /\ Len(<<x>> \o frames) = Len(frames) + 1
             /\ (<<x>> \o frames)[1] = x
             /\ \A k \in 2 .. Len(frames) + 1 :
                   (<<x>> \o frames)[k] = frames[k - 1]
  <2>1. <<x>> \in Seq(S) /\ Len(<<x>>) = 1 /\ <<x>> # <<>> /\ <<x>>[1] = x
    OBVIOUS
  <2>2. /\ <<x>> \o frames \in Seq(S)
        /\ Len(<<x>> \o frames) = Len(frames) + 1
        /\ (<<x>> \o frames)[1] = x
    BY <1>1, <2>1
  <2>3. <<x>> \o frames # <<>>
    BY <1>1, <2>2
  <2>4. ASSUME NEW k \in 2 .. Len(frames) + 1
        PROVE  (<<x>> \o frames)[k] = frames[k - 1]
    <3>1. k \in 1 .. Len(<<x>>) + Len(frames) /\ k > Len(<<x>>)
      BY <1>1, <2>1
    <3> QED
      BY <2>1, <3>1, ConcatAt
  <2> QED
    BY <2>1, <2>2, <2>3, <2>4
<1>3. ASSUME frames # <<>>
      PROVE  /\ 1 \in DOMAIN frames /\ frames[1] \in S
             /\ Tail(frames) \in Seq(S)
             /\ Len(Tail(frames)) = Len(frames) - 1
             /\ \A k \in 1 .. Len(frames) - 1 :
                   Tail(frames)[k] = frames[k + 1]
  BY <1>1, <1>3
<1> QED
  BY <1>1, <1>2, <1>3

\* The tools' types after a step of one of them.
LEMMA ToolTypeNext ==
    ASSUME ToolType, NEW t \in Tools, NEW pc \in Pcs, NEW target \in Nat,
           NEW task \in Roots, NEW frames \in Seq(Elements),
           Becomes(t, pc, target, task, frames),
           Len(frames) <= MaxDepth,
           pc \in {"p_up", "c_enter"} => task \in Pids,
           pc \in {"s_loop", "c_loop"} => frames # <<>>,
           pc \in Fresh => frames = <<>>,
           pc \in {"pid", "begin", "option"} => str'.opt \in Opts,
           pc \in {"p_tabs", "p_line"} => j' # 0,
           str.opt \in Opts => str'.opt \in Opts,
           j # 0 => j' # 0
    PROVE  ToolType'
<1>1. tool' \in [Tools -> ToolRecs]
  BY DEF Becomes
<1>2. ASSUME NEW u \in Tools
      PROVE  /\ Len(tool'[u].frames) <= MaxDepth
             /\ tool'[u].pc \in {"p_up", "c_enter"} => tool'[u].task \in Pids
             /\ tool'[u].pc \in {"s_loop", "c_loop"} => tool'[u].frames # <<>>
             /\ tool'[u].pc \in Fresh => tool'[u].frames = <<>>
             /\ tool'[u].pc \in {"pid", "begin", "option"} => str'.opt \in Opts
             /\ tool'[u].pc \in {"p_tabs", "p_line"} => j' # 0
  <2>1. CASE u = t
    <3>1. tool'[u].pc = pc /\ tool'[u].task = task /\ tool'[u].frames = frames
      BY <2>1 DEF Becomes
    <3> QED
      BY <3>1
  <2>2. CASE u # t
    <3>1. tool'[u] = tool[u]
      BY <2>2 DEF Becomes
    <3>2. /\ Len(tool[u].frames) <= MaxDepth
          /\ tool[u].pc \in {"p_up", "c_enter"} => tool[u].task \in Pids
          /\ tool[u].pc \in {"s_loop", "c_loop"} => tool[u].frames # <<>>
          /\ tool[u].pc \in Fresh => tool[u].frames = <<>>
          /\ tool[u].pc \in {"pid", "begin", "option"} => str.opt \in Opts
          /\ tool[u].pc \in {"p_tabs", "p_line"} => j # 0
      BY DEF ToolType
    <3>3. /\ tool[u].pc \in {"pid", "begin", "option"} => str'.opt \in Opts
          /\ tool[u].pc \in {"p_tabs", "p_line"} => j' # 0
      BY <3>2
    <3> QED
      BY <3>1, <3>2, <3>3
  <2> QED
    BY <2>1, <2>2
<1> QED
  BY <1>1, <1>2 DEF ToolType

\* The same when the tool only moves on.
LEMMA GotoType ==
    ASSUME ToolType, NEW t \in Tools, NEW pc \in Pcs, Goto(t, pc),
           pc \notin {"p_up", "c_enter", "s_loop", "c_loop"},
           pc \in Fresh => tool[t].frames = <<>>,
           pc \in {"pid", "begin", "option"} => str'.opt \in Opts,
           pc \in {"p_tabs", "p_line"} => j' # 0,
           str.opt \in Opts => str'.opt \in Opts,
           j # 0 => j' # 0
    PROVE  /\ ToolType'
           /\ Becomes(t, pc, tool[t].target, tool[t].task, tool[t].frames)
<1>1. /\ tool \in [Tools -> ToolRecs]
      /\ Len(tool[t].frames) <= MaxDepth
  BY DEF ToolType
<1>2. /\ tool[t].target \in Nat /\ tool[t].task \in Roots
      /\ tool[t].frames \in Seq(Elements)
  BY <1>1 DEF ToolRecs
<1>3. Becomes(t, pc, tool[t].target, tool[t].task, tool[t].frames)
  BY <1>1, PcSet DEF Goto
<1> QED
  BY <1>1, <1>2, <1>3, ToolTypeNext

\* What a tool is known to be.
LEMMA ToolIs ==
    ASSUME ToolType, NEW t \in Tools
    PROVE  /\ tool \in [Tools -> ToolRecs] /\ tool[t] \in ToolRecs
           /\ tool[t].pc \in Pcs
           /\ tool[t].target \in Nat
           /\ tool[t].task \in Roots
           /\ tool[t].frames \in Seq(Elements)
           /\ Len(tool[t].frames) <= MaxDepth
<1>1. tool[t] \in ToolRecs /\ Len(tool[t].frames) <= MaxDepth
  BY DEF ToolType
<1> QED
  BY <1>1 DEF ToolRecs, ToolType

\* A command that is not refused names a walk and a number.
LEMMA CommandIs ==
    ASSUME NEW self \in Tools,
           NEW arg \in [opt : STRING, number : Nat \cup {-1}],
           Command(self, arg) # NoCmd
    PROVE  Command(self, arg) \in [opt : Opts, target : Nat]
<1>1. self \in Nat
  BY Numbers
<1>2. arg.number # -1 => arg.number \in Nat
  OBVIOUS
<1>3. CASE arg.opt \in {"none", "c"} /\ arg.number = -1
  <2>1. Command(self, arg) = Cmd("c", 1)
    BY <1>3 DEF Command
  <2> QED
    BY <2>1 DEF Cmd, Opts
<1>4. CASE arg.opt \in {"p", "s"} /\ arg.number = -1
  <2>1. Command(self, arg) = Cmd(arg.opt, self)
    BY <1>4 DEF Command
  <2> QED
    BY <1>1, <1>4, <2>1 DEF Cmd, Opts
<1>5. CASE arg.opt = "none" /\ arg.number # -1
  <2>1. Command(self, arg) = Cmd("c", arg.number)
    BY <1>5 DEF Command
  <2> QED
    BY <1>2, <1>5, <2>1 DEF Cmd, Opts
<1>6. CASE arg.opt \in {"p", "s", "c"} /\ arg.number # -1
  <2>1. Command(self, arg) = Cmd(arg.opt, arg.number)
    BY <1>6 DEF Command
  <2> QED
    BY <1>2, <1>6, <2>1 DEF Cmd, Opts
<1>7. CASE arg.opt \notin {"none", "p", "s", "c"}
  <2>1. Command(self, arg) = NoCmd
    BY <1>7 DEF Command
  <2> QED
    BY <2>1
<1> QED
  BY <1>3, <1>4, <1>5, <1>6, <1>7

\* A word that a list head is taken to hold is a number.
LEMMA PidAtIs ==
    ASSUME env \in Environments, NEW x \in Elements
    PROVE  /\ PidAt(x) \in Nat
           /\ ~(x < 0) => PidAt(x) = x
<1>1. env.stray \in [Roots -> Nat]
  BY EnvironmentAssumption DEF Roots
<1>2. CASE x < 0
  <2>1. -1 - x \in Roots /\ PidAt(x) = env.stray[-1 - x]
    BY <1>2, Numbers DEF PidAt
  <2> QED
    BY <1>1, <1>2, <2>1
<1>3. CASE ~(x < 0)
  <2>1. x \in Pids /\ PidAt(x) = x
    BY <1>3, Numbers DEF PidAt
  <2> QED
    BY <2>1, Numbers
<1> QED
  BY <1>2, <1>3

\* A number that is in the table is one of a process.
LEMMA InTableIs ==
    ASSUME KernelSound, NEW p, InTable(p)
    PROVE  p \in Pids
BY DEF InTable, KernelSound

\* A call that returns goes on in the loop of its caller.
LEMMA ReturnedIs ==
    ASSUME KernelSound, ToolType, NEW t \in Tools,
           NEW frames \in Seq(Elements)
    PROVE  /\ Returned(t, frames) \in ToolRecs
           /\ Returned(t, frames).target = tool[t].target
           /\ Returned(t, frames).task = tool[t].task
           /\ Len(Returned(t, frames).frames) = Len(frames)
           /\ frames = <<>> => /\ Returned(t, frames).pc = "send"
                               /\ Returned(t, frames).frames = <<>>
           /\ frames # <<>> => /\ Returned(t, frames).pc = "c_loop"
                               /\ Returned(t, frames).frames
                                    = <<NextOf(frames[1])>> \o Tail(frames)
<1>1. tool[t] \in ToolRecs
  BY ToolIs
<1>2. PICK r : r = Returned(t, frames)
  OBVIOUS
<1>3. CASE frames = <<>>
  <2>1. r = [tool[t] EXCEPT !.pc = "send", !.frames = <<>>]
    BY <1>2, <1>3 DEF Returned
  <2>2. "send" \in Pcs /\ <<>> \in Seq(Elements)
    BY DEF Pcs
  <2>3. /\ r \in ToolRecs /\ r.pc = "send" /\ r.target = tool[t].target
        /\ r.task = tool[t].task /\ r.frames = <<>>
    BY <1>1, <2>1, <2>2 DEF ToolRecs
  <2>4. Len(r.frames) = Len(frames)
    BY <1>3, <2>3
  <2> QED
    BY <1>2, <1>3, <2>3, <2>4
<1>4. CASE frames # <<>>
  <2>1. PICK g : g = <<NextOf(frames[1])>> \o Tail(frames)
    OBVIOUS
  <2>2. /\ frames[1] \in Elements /\ Tail(frames) \in Seq(Elements)
        /\ Len(Tail(frames)) = Len(frames) - 1 /\ Len(frames) \in Nat
    BY <1>4, FramesAre
  <2>3. NextOf(frames[1]) \in Elements
    BY <2>2, NextOfIs
  <2>4. g \in Seq(Elements) /\ Len(g) = Len(Tail(frames)) + 1
    BY <2>1, <2>2, <2>3, FramesAre
  <2>5. Len(g) = Len(frames)
    BY <2>2, <2>4
  <2>6. r = [tool[t] EXCEPT !.pc = "c_loop", !.frames = g]
    BY <1>2, <1>4, <2>1 DEF Returned
  <2>7. "c_loop" \in Pcs
    BY DEF Pcs
  <2>8. /\ r \in ToolRecs /\ r.pc = "c_loop" /\ r.target = tool[t].target
        /\ r.task = tool[t].task /\ r.frames = g
    BY <1>1, <2>4, <2>6, <2>7 DEF ToolRecs
  <2> QED
    BY <1>2, <1>4, <2>1, <2>5, <2>8
<1> QED
  BY <1>3, <1>4

-----------------------------------------------------------------------------
(* Types                                                                    *)

\* The program starts with these types.
LEMMA TypesInit == Init => Types
<1> SUFFICES ASSUME Init PROVE Types
  OBVIOUS
<1>1. KernelSound
  <2>1. \A p \in Pids : Parent0[p] \in Pids \cup {0}
    BY TreeAssumption
  <2>2. \A p \in Pids : Parent0[p] # 0 => Depth[Parent0[p]] < Depth[p]
    BY DepthIs
  <2> QED
    BY <2>1, <2>2, TreeAssumption DEF Init, KernelSound, Roots
<1>2. GlobalsType
  <2>1. str \in [opt : Opts \cup {"-"}, target : Nat]
    BY DEF Init, NoCmd, Cmd
  <2>2. <<>> \in Texts
    BY TextAssumption DEF Texts
  <2>3. MaxDepth \in Nat /\ 0 \in Roots
    BY DepthAssumption DEF Roots
  <2>4. parent_pid_holder \in [0 .. MaxDepth - 1 -> Roots]
    BY <2>3 DEF Init
  <2>5. /\ pid \in Tools \cup {0}
        /\ answerMsg \in Texts /\ tmpMsg \in Texts
        /\ i \in 0 .. MaxDepth /\ j \in Nat /\ parentNum \in 0 .. MaxDepth
    BY <2>2, <2>3 DEF Init
  <2> QED
    BY <2>1, <2>4, <2>5 DEF GlobalsType
<1>3. ToolType
  <2>1. Idle \in ToolRecs
    BY DEF Idle, ToolRecs, Pcs, Roots
  <2>2. tool = [t \in Tools |-> Idle]
    BY DEF Init
  <2>3. Len(<<>>) <= MaxDepth
    BY DepthAssumption
  <2>4. Idle.pc = "off" /\ Idle.frames = <<>>
    BY DEF Idle
  <2>5. \A t \in Tools : tool[t] = Idle
    BY <2>2
  <2>6. tool \in [Tools -> ToolRecs]
    BY <2>1, <2>2
  <2>7. ASSUME NEW t \in Tools
        PROVE  /\ Len(tool[t].frames) <= MaxDepth
               /\ tool[t].pc \in {"p_up", "c_enter"} => tool[t].task \in Pids
               /\ tool[t].pc \in {"s_loop", "c_loop"} => tool[t].frames # <<>>
               /\ tool[t].pc \in Fresh => tool[t].frames = <<>>
               /\ tool[t].pc \in {"pid", "begin", "option"} => str.opt \in Opts
               /\ tool[t].pc \in {"p_tabs", "p_line"} => j # 0
    BY <2>3, <2>4, <2>5
  <2> QED
    BY <2>6, <2>7 DEF ToolType
<1>4. /\ env \in Environments
      /\ inbox \in [Tools -> Seq(Texts)]
      /\ solo \in [Tools -> BOOLEAN] /\ still \in [Tools -> BOOLEAN]
      /\ settled \in [Tools -> BOOLEAN]
      /\ fault \in Tools \cup {0}
  BY DEF Init
<1> QED
  BY <1>1, <1>2, <1>3, <1>4 DEF Types

\* A step that is not an exit leaves the lists as they are.
LEMMA KernelKept ==
    ASSUME KernelSound, UNCHANGED kernelVars
    PROVE  KernelSound'
BY DEF KernelSound, kernelVars

\* The types that a tool's own step has to keep.
LEMMA TypesNext ==
    ASSUME Types, UNCHANGED <<env, kernelVars, solo, still, settled>>,
           GlobalsType', ToolType', inbox' \in [Tools -> Seq(Texts)],
           fault' \in Tools \cup {0}
    PROVE  Types'
<1>1. KernelSound'
  BY KernelKept DEF Types
<1> QED
  BY <1>1 DEF Types

\* A failure changes nothing else.
LEMMA OopsTypes ==
    ASSUME Types, NEW t \in Tools, Oops(t)
    PROVE  Types'
<1>1. /\ UNCHANGED <<env, kernelVars, globalVars, tool, inbox>>
      /\ UNCHANGED <<solo, still, settled>>
      /\ fault' = t
  BY DEF Oops, historyVars
<1>2. GlobalsType'
  BY <1>1 DEF Types, GlobalsType, globalVars
<1>3. ToolType'
  BY <1>1 DEF Types, ToolType, globalVars
<1> QED
  BY <1>1, <1>2, <1>3, TypesNext DEF Types

\* A request that is sent.
LEMMA AskTypes ==
    ASSUME Types, NEW t \in Tools, NEW arg \in env.args, Ask(t, arg)
    PROVE  Types'
<1>1. arg \in [opt : STRING, number : Nat \cup {-1}]
  BY EnvironmentAssumption DEF Types
<1>2. /\ tool[t].pc = "off" /\ Command(t, arg) # NoCmd
      /\ str' = Command(t, arg) /\ Goto(t, "pid")
      /\ UNCHANGED <<env, kernelVars, pid, answerMsg, tmpMsg, i, j>>
      /\ UNCHANGED <<parent_pid_holder, parentNum, inbox, still, settled, fault>>
  BY DEF Ask
<1>3. str' \in [opt : Opts, target : Nat]
  BY <1>1, <1>2, CommandIs
<1>4. str'.opt \in Opts
  BY <1>3
<1>5. str' \in [opt : Opts \cup {"-"}, target : Nat]
  BY <1>3
<1>6. GlobalsType'
  BY <1>2, <1>5 DEF Types, GlobalsType
<1>7. "pid" \in Pcs /\ "off" \in Fresh
  BY DEF Pcs, Fresh
<1>8. tool[t].frames = <<>>
  BY <1>2, <1>7 DEF Types, ToolType
<1>9. ToolType'
  BY <1>2, <1>4, <1>7, <1>8, GotoType DEF Types
<1>10. solo' \in [Tools -> BOOLEAN]
  <2>1. \E others : solo' = [u \in Tools |-> solo[u] /\ (others # {} =>
                                                  u \notin others \cup {t})]
    BY DEF Ask
  <2> QED
    BY <2>1
<1>11. KernelSound'
  BY <1>2, KernelKept DEF Types
<1> QED
  BY <1>2, <1>6, <1>9, <1>10, <1>11 DEF Types

\* A command line that is refused.
LEMMA RefuseTypes ==
    ASSUME Types, NEW t \in Tools, NEW arg, Refuse(t, arg)
    PROVE  Types'
<1>1. /\ Goto(t, "done")
      /\ UNCHANGED <<env, kernelVars, globalVars, inbox, fault>>
      /\ UNCHANGED <<solo, still, settled>>
  BY DEF Refuse, historyVars
<1>2. GlobalsType'
  BY <1>1 DEF Types, GlobalsType, globalVars
<1>3. "done" \in Pcs /\ "done" \notin Fresh
  BY DEF Pcs, Fresh
<1>4. str' = str /\ j' = j
  BY <1>1 DEF globalVars
<1>5. ToolType'
  BY <1>1, <1>3, <1>4, GotoType DEF Types
<1> QED
  BY <1>1, <1>2, <1>5, TypesNext DEF Types

\* What every request goes through before and after its walk.
LEMMA RequestTypes ==
    ASSUME Types, NEW t \in Tools,
           \/ SetPid(t) \/ Begin(t) \/ Option(t) \/ Send(t) \/ Receive(t)
           \/ Invalid(t) \/ FindPid(t)
    PROVE  Types'
<1> USE DEF Types
<1>0. /\ {"begin", "option", "send", "wait", "done"} \subseteq Pcs
      /\ {"p_start", "c_start", "s_start", "p_task", "c_task"} \subseteq Pcs
      /\ {"p_start", "c_start", "s_start", "p_task", "c_task"} \subseteq Fresh
      /\ "pid" \in Fresh /\ "begin" \in Fresh /\ "option" \in Fresh
      /\ "send" \notin Fresh /\ "wait" \notin Fresh /\ "done" \notin Fresh
  BY DEF Pcs, Fresh
<1>1. CASE SetPid(t)
  <2>1. /\ tool[t].pc = "pid" /\ pid' = t /\ Goto(t, "begin")
        /\ UNCHANGED <<env, kernelVars, str, answerMsg, tmpMsg, i, j>>
        /\ UNCHANGED <<parent_pid_holder, parentNum, inbox, fault>>
        /\ UNCHANGED <<solo, still, settled>>
    BY <1>1 DEF SetPid, historyVars
  <2>2. GlobalsType'
    BY <2>1 DEF GlobalsType
  <2>3. tool[t].frames = <<>> /\ str.opt \in Opts
    BY <1>0, <2>1 DEF ToolType
  <2>4. str'.opt \in Opts
    BY <2>1, <2>3
  <2>5. ToolType'
    BY <1>0, <2>1, <2>3, <2>4, GotoType
  <2> QED
    BY <2>1, <2>2, <2>5, TypesNext
<1>2. CASE Begin(t)
  <2>1. /\ tool[t].pc = "begin" /\ tmpMsg' = <<>>
        /\ tool' = [tool EXCEPT ![t].target = str.target, ![t].pc = "option"]
        /\ UNCHANGED <<env, kernelVars, str, pid, answerMsg, i, j>>
        /\ UNCHANGED <<parent_pid_holder, parentNum, inbox, fault>>
        /\ UNCHANGED <<solo, still, settled>>
    BY <1>2 DEF Begin, historyVars
  <2>2. tool[t].frames = <<>> /\ str.opt \in Opts /\ str.target \in Nat
    BY <1>0, <2>1 DEF ToolType, GlobalsType
  <2>3. <<>> \in Texts
    BY TextAssumption DEF Texts
  <2>4. GlobalsType'
    BY <2>1, <2>3 DEF GlobalsType
  <2>5. tool \in [Tools -> ToolRecs]
    BY ToolIs
  <2>6. Becomes(t, "option", str.target, tool[t].task, tool[t].frames)
    BY <1>0, <2>1, <2>2, <2>5, TargetPcSet
  <2>7. /\ tool[t].task \in Roots /\ tool[t].frames \in Seq(Elements)
        /\ Len(tool[t].frames) <= MaxDepth
    BY ToolIs
  <2>8. ToolType'
    BY <1>0, <2>1, <2>2, <2>6, <2>7, ToolTypeNext
  <2> QED
    BY <2>1, <2>4, <2>8, TypesNext
<1>6. CASE Option(t)
  <2>1. /\ tool[t].pc = "option" /\ answerMsg' = <<>>
        /\ Goto(t, Start(str.opt))
        /\ UNCHANGED <<env, kernelVars, str, pid, tmpMsg, i, j>>
        /\ UNCHANGED <<parent_pid_holder, parentNum, inbox, fault>>
        /\ UNCHANGED <<solo, still, settled>>
    BY <1>6 DEF Option, historyVars
  <2>2. tool[t].frames = <<>> /\ str.opt \in Opts
    BY <1>0, <2>1 DEF ToolType
  <2>3. <<>> \in Texts
    BY TextAssumption DEF Texts
  <2>4. GlobalsType'
    BY <2>1, <2>3 DEF GlobalsType
  <2>5. PICK pc : pc = Start(str.opt)
    OBVIOUS
  <2>6. pc \in {"p_start", "c_start", "s_start"}
    BY <2>2, <2>5 DEF Start, Opts
  <2>7. pc \in Pcs /\ pc \in Fresh
    BY <1>0, <2>6
  <2>8. pc \notin {"p_up", "c_enter", "s_loop", "c_loop", "p_tabs",
                   "p_line", "pid", "begin", "option"}
    BY <2>6
  <2>9. Goto(t, pc)
    BY <2>1, <2>5
  <2>10. ToolType'
    BY <2>1, <2>2, <2>7, <2>8, <2>9, GotoType
  <2> QED
    BY <2>1, <2>4, <2>10, TypesNext
<1>3. CASE Send(t)
  <2>1. /\ Goto(t, "wait")
        /\ UNCHANGED <<env, kernelVars, globalVars, fault>>
        /\ UNCHANGED <<solo, still, settled>>
        /\ inbox' = IF pid \in Tools /\ tool[pid].pc # "done"
                THEN [inbox EXCEPT ![pid] = Append(@, answerMsg)] ELSE inbox
    BY <1>3 DEF Send, historyVars
  <2>2. GlobalsType'
    BY <2>1 DEF GlobalsType, globalVars
  <2>3. str' = str /\ j' = j
    BY <2>1 DEF globalVars
  <2>4. ToolType'
    BY <1>0, <2>1, <2>3, GotoType
  <2>5. inbox' \in [Tools -> Seq(Texts)]
    <3>1. \A u \in Tools : Append(inbox[u], answerMsg) \in Seq(Texts)
      BY DEF GlobalsType
    <3> QED
      BY <2>1, <3>1
  <2> QED
    BY <2>1, <2>2, <2>4, <2>5, TypesNext
<1>4. CASE Receive(t)
  <2>1. /\ inbox' = [inbox EXCEPT ![t] = <<>>]
        /\ tool' = [tool EXCEPT ![t] = [Idle EXCEPT !.pc = "done"]]
        /\ UNCHANGED <<env, kernelVars, globalVars, solo, still, settled, fault>>
    BY <1>4 DEF Receive
  <2>2. GlobalsType'
    BY <2>1 DEF GlobalsType, globalVars
  <2>3. str' = str /\ j' = j
    BY <2>1 DEF globalVars
  <2>4. PICK r : r = [Idle EXCEPT !.pc = "done"]
    OBVIOUS
  <2>5. /\ r \in ToolRecs /\ r.pc = "done" /\ r.target = 0 /\ r.task = 0
        /\ r.frames = <<>>
    <3>1. r = [pc |-> "done", target |-> 0, task |-> 0, frames |-> <<>>]
      BY <2>4 DEF Idle
    <3>2. 0 \in Roots /\ 0 \in Nat /\ <<>> \in Seq(Elements)
      BY DEF Roots
    <3>3. r \in ToolRecs
      BY <1>0, <3>1, <3>2 DEF ToolRecs
    <3> QED
      BY <3>1, <3>3
  <2>6. tool \in [Tools -> ToolRecs]
    BY ToolIs
  <2>7. Becomes(t, r.pc, r.target, r.task, r.frames)
    BY <2>1, <2>4, <2>5, <2>6, RecordSet
  <2>8. Len(r.frames) <= MaxDepth
    BY <2>5, DepthAssumption
  <2>9. 0 \in Roots /\ 0 \in Nat /\ <<>> \in Seq(Elements)
    BY DEF Roots
  <2>10. Becomes(t, "done", 0, 0, <<>>)
    BY <2>5, <2>7
  <2>11. Len(<<>>) <= MaxDepth
    BY <2>5, <2>8
  <2>12. ToolType'
    BY <1>0, <2>3, <2>9, <2>10, <2>11, ToolTypeNext
  <2>13. inbox' \in [Tools -> Seq(Texts)]
    BY <2>1
  <2> QED
    BY <2>1, <2>2, <2>12, <2>13, TypesNext
<1>5. CASE Invalid(t)
  <2>1. /\ Goto(t, "send") /\ answerMsg' = <<NotValid>>
        /\ UNCHANGED <<env, kernelVars, str, pid, tmpMsg, i, j>>
        /\ UNCHANGED <<parent_pid_holder, parentNum, inbox, fault>>
        /\ UNCHANGED <<solo, still, settled>>
    BY <1>5 DEF Invalid, historyVars
  <2>2. <<NotValid>> \in Texts
    BY TextAssumption DEF Texts, NotValid
  <2>3. GlobalsType'
    BY <2>1, <2>2 DEF GlobalsType
  <2>4. ToolType'
    BY <1>0, <2>1, GotoType
  <2> QED
    BY <2>1, <2>3, <2>4, TypesNext
<1>7. CASE FindPid(t)
  <2>1. /\ tool[t].pc \in {"p_start", "c_start"}
        /\ Goto(t, IF tool[t].pc = "p_start" THEN "p_task" ELSE "c_task")
        /\ UNCHANGED <<env, kernelVars, globalVars, inbox, fault>>
        /\ UNCHANGED <<solo, still, settled>>
    BY <1>7 DEF FindPid, historyVars
  <2>2. PICK pc : pc = IF tool[t].pc = "p_start" THEN "p_task" ELSE "c_task"
    OBVIOUS
  <2>3. /\ pc \in {"p_task", "c_task"} /\ pc \in Pcs /\ Goto(t, pc)
        /\ pc \notin {"p_up", "c_enter", "s_loop", "c_loop", "p_tabs",
                      "p_line", "pid", "begin", "option"}
    BY <1>0, <2>1, <2>2
  <2>4. tool[t].frames = <<>>
    BY <1>0, <2>1 DEF ToolType
  <2>5. GlobalsType'
    BY <2>1 DEF GlobalsType, globalVars
  <2>6. str' = str /\ j' = j
    BY <2>1 DEF globalVars
  <2>7. ToolType'
    BY <2>3, <2>4, <2>6, GotoType
  <2> QED
    BY <2>1, <2>5, <2>7, TypesNext
<1> QED
  BY <1>1, <1>2, <1>3, <1>4, <1>5, <1>6, <1>7

\* The path to a process keeps the types.
LEMMA ParentTypes ==
    ASSUME Types, NEW t \in Tools, Parent(t)
    PROVE  Types'
<1> USE DEF Types
<1>0. /\ "p_up" \in Pcs /\ "p_tabs" \in Pcs /\ "p_line" \in Pcs
      /\ "send" \in Pcs
      /\ "p_up" \notin Fresh /\ "p_tabs" \notin Fresh /\ "p_line" \notin Fresh
      /\ "send" \notin Fresh
  BY DEF Pcs, Fresh
<1>a. /\ tool \in [Tools -> ToolRecs] /\ tool[t].pc \in Pcs
      /\ tool[t].target \in Nat /\ tool[t].task \in Roots
      /\ tool[t].frames \in Seq(Elements) /\ Len(tool[t].frames) <= MaxDepth
  BY ToolIs
<1>b. MaxDepth \in Nat /\ j \in Nat /\ i \in 0 .. MaxDepth
      /\ parentNum \in 0 .. MaxDepth
  BY DepthAssumption DEF GlobalsType
<1>1. CASE ParentStart(t)
  <2>1. /\ tool[t].target \in alive /\ i' = 0
        /\ tool' = [tool EXCEPT ![t].pc = "p_up", ![t].task = tool[t].target]
        /\ UNCHANGED <<env, kernelVars, str, pid, answerMsg, tmpMsg, j>>
        /\ UNCHANGED <<parent_pid_holder, parentNum, inbox, fault>>
        /\ UNCHANGED <<solo, still, settled>>
    BY <1>1 DEF ParentStart, historyVars
  <2>2. GlobalsType'
    BY <1>b, <2>1 DEF GlobalsType
  <2>3. tool[t].target \in Pids /\ tool[t].target \in Roots
    BY <2>1 DEF KernelSound, Roots
  <2>4. Becomes(t, "p_up", tool[t].target, tool[t].target, tool[t].frames)
    BY <1>0, <1>a, <2>1, <2>3, PcTaskSet
  <2>5. ToolType'
    BY <1>0, <1>a, <2>1, <2>3, <2>4, ToolTypeNext
  <2> QED
    BY <2>1, <2>2, <2>5, TypesNext
<1>2. CASE Up(t)
  <2>1. /\ tool[t].pc = "p_up"
        /\ UNCHANGED <<env, kernelVars, str, pid, answerMsg, tmpMsg, inbox>>
        /\ UNCHANGED <<solo, still, settled, fault>>
    BY <1>2 DEF Up, historyVars
  <2>2. PICK above : above = parent[tool[t].task]
    OBVIOUS
  <2>3. CASE InTable(above)
    <3>1. /\ i < MaxDepth
          /\ parent_pid_holder' = [parent_pid_holder EXCEPT ![i] = above]
          /\ i' = i + 1
          /\ tool' = [tool EXCEPT ![t].task = above]
          /\ UNCHANGED <<j, parentNum>>
      BY <1>2, <2>2, <2>3 DEF Up
    <3>2. above \in Pids /\ above \in Roots
      BY <2>3, InTableIs DEF Roots
    <3>3. i' \in 0 .. MaxDepth
      BY <1>b, <3>1
    <3>4. parent_pid_holder' \in [0 .. MaxDepth - 1 -> Roots]
      BY <3>1, <3>2 DEF GlobalsType
    <3>5. GlobalsType'
      BY <2>1, <3>1, <3>3, <3>4 DEF GlobalsType
    <3>6. Becomes(t, "p_up", tool[t].target, above, tool[t].frames)
      BY <1>a, <2>1, <3>1, <3>2, TaskSet
    <3>7. ToolType'
      BY <1>0, <1>a, <2>1, <3>1, <3>2, <3>6, ToolTypeNext
    <3> QED
      BY <2>1, <3>5, <3>7, TypesNext
  <2>4. CASE ~InTable(above)
    <3>1. /\ parentNum' = i /\ j' = 1 /\ Goto(t, "p_tabs")
          /\ UNCHANGED <<i, parent_pid_holder>>
      BY <1>2, <2>2, <2>4 DEF Up
    <3>2. GlobalsType'
      BY <1>b, <2>1, <3>1 DEF GlobalsType
    <3>3. j' # 0
      BY <3>1
    <3>4. ToolType'
      BY <1>0, <2>1, <3>1, <3>3, GotoType
    <3> QED
      BY <2>1, <3>2, <3>4, TypesNext
  <2> QED
    BY <2>3, <2>4
<1>3. CASE PutTabs(t)
  <2>1. /\ tool[t].pc = "p_tabs"
        /\ UNCHANGED <<env, kernelVars, str, pid, i, j, parent_pid_holder>>
        /\ UNCHANGED <<parentNum, inbox, solo, still, settled, fault>>
    BY <1>3 DEF PutTabs, historyVars
  <2>2. j # 0
    BY <2>1 DEF ToolType
  <2>3. j - 1 \in Nat
    BY <1>b, <2>2
  <2>4. CASE j <= parentNum + 1
    <3>1. Put(Tabs(j - 1)) /\ Goto(t, "p_line")
      BY <1>3, <2>4 DEF PutTabs
    <3>2. answerMsg' \in Texts /\ tmpMsg' \in Texts
      BY <2>3, <3>1, TabsIs, PutTypes DEF GlobalsType
    <3>3. GlobalsType'
      BY <2>1, <3>2 DEF GlobalsType
    <3>4. ToolType'
      BY <1>0, <2>1, <2>2, <3>1, GotoType
    <3> QED
      BY <2>1, <3>3, <3>4, TypesNext
  <2>5. CASE ~(j <= parentNum + 1)
    <3>1. Goto(t, "send") /\ UNCHANGED <<answerMsg, tmpMsg>>
      BY <1>3, <2>5 DEF PutTabs
    <3>2. GlobalsType'
      BY <2>1, <3>1 DEF GlobalsType
    <3>3. ToolType'
      BY <1>0, <2>1, <2>2, <3>1, GotoType
    <3> QED
      BY <2>1, <3>2, <3>3, TypesNext
  <2> QED
    BY <2>4, <2>5
<1>4. CASE PutLine(t)
  <2>1. /\ tool[t].pc = "p_line"
        /\ LastLine \/ Held \in alive
        /\ IF LastLine
           THEN /\ answerMsg' = Cut(Append(tmpMsg, tool[t].target))
                /\ UNCHANGED tmpMsg
           ELSE Put(<<Held>>)
        /\ j' = j + 1 /\ Goto(t, "p_tabs")
        /\ UNCHANGED <<env, kernelVars, str, pid, i, parent_pid_holder>>
        /\ UNCHANGED <<parentNum, inbox, solo, still, settled, fault>>
    BY <1>4 DEF PutLine, historyVars
  <2>2. j' # 0 /\ j' \in Nat
    BY <1>b, <2>1
  <2>3. answerMsg' \in Texts /\ tmpMsg' \in Texts
    <3>1. CASE LastLine
      <4>1. Append(tmpMsg, tool[t].target) \in Seq(Int)
        BY <1>a DEF GlobalsType, Texts
      <4>2. answerMsg' \in Texts
        BY <2>1, <3>1, <4>1, CutIs
      <4> QED
        BY <2>1, <3>1, <4>2 DEF GlobalsType
    <3>2. CASE ~LastLine
      <4>1. Held \in alive /\ Put(<<Held>>)
        BY <2>1, <3>2
      <4>2. Held \in Int
        BY <4>1, Numbers DEF KernelSound
      <4>3. <<Held>> \in Seq(Int)
        BY <4>2
      <4> QED
        BY <4>1, <4>3, PutTypes DEF GlobalsType
    <3> QED
      BY <3>1, <3>2
  <2>4. GlobalsType'
    BY <2>1, <2>2, <2>3 DEF GlobalsType
  <2>5. ToolType'
    BY <1>0, <2>1, <2>2, GotoType
  <2> QED
    BY <2>1, <2>4, <2>5, TypesNext
<1>5. CASE PutLineFails(t) \/ UpFails(t)
  BY <1>5, OopsTypes DEF PutLineFails, UpFails
<1> QED
  BY <1>1, <1>2, <1>3, <1>4, <1>5 DEF Parent

\* The walk over the siblings keeps the types.
LEMMA SiblingTypes ==
    ASSUME Types, NEW t \in Tools, Sibling(t)
    PROVE  Types'
<1> USE DEF Types
<1>0. /\ "s_loop" \in Pcs /\ "send" \in Pcs
      /\ "s_loop" \notin Fresh /\ "send" \notin Fresh
  BY DEF Pcs, Fresh
<1>a. /\ tool \in [Tools -> ToolRecs] /\ tool[t].pc \in Pcs
      /\ tool[t].target \in Nat /\ tool[t].task \in Roots
      /\ tool[t].frames \in Seq(Elements) /\ Len(tool[t].frames) <= MaxDepth
  BY ToolIs
<1>b. <<>> \in Texts /\ MaxDepth \in Nat
  BY TextAssumption, DepthAssumption DEF Texts
<1>d. 1 <= MaxDepth
  BY <1>b, DepthIs, Numbers
<1>1. CASE SiblingStart(t)
  <2>1. /\ tool[t].pc = "s_start"
        /\ UNCHANGED <<env, kernelVars, str, pid, i, j, parent_pid_holder>>
        /\ UNCHANGED <<parentNum, inbox, solo, still, settled, fault>>
        /\ answerMsg' = IF tool[t].target \in alive THEN answerMsg ELSE <<>>
    BY <1>1 DEF SiblingStart, historyVars
  <2>2. answerMsg' \in Texts
    BY <1>b, <2>1 DEF GlobalsType
  <2>3. CASE tool[t].target \in alive
    <3>1. PICK x : x = NextOf(tool[t].target)
      OBVIOUS
    <3>2. /\ tmpMsg' = <<>>
          /\ tool' = [tool EXCEPT ![t].pc = "s_loop", ![t].frames = <<x>>]
      BY <1>1, <2>3, <3>1 DEF SiblingStart
    <3>3. tool[t].target \in Elements
      BY <2>3, Numbers DEF KernelSound
    <3>4. x \in Elements
      BY <3>1, <3>3, NextOfIs
    <3>5. <<x>> \in Seq(Elements) /\ Len(<<x>>) = 1 /\ <<x>> # <<>>
      BY <3>4
    <3>6. GlobalsType'
      BY <1>b, <2>1, <2>2, <3>2 DEF GlobalsType
    <3>7. Becomes(t, "s_loop", tool[t].target, tool[t].task, <<x>>)
      BY <1>0, <1>a, <3>2, <3>5, PcFramesSet
    <3>8. Len(<<x>>) <= MaxDepth
      BY <1>d, <3>5
    <3>9. str' = str /\ j' = j
      BY <2>1
    <3>10. ToolType'
      BY <1>0, <1>a, <3>5, <3>7, <3>8, <3>9, ToolTypeNext
    <3> QED
      BY <2>1, <3>6, <3>10, TypesNext
  <2>4. CASE tool[t].target \notin alive
    <3>1. Goto(t, "send") /\ UNCHANGED tmpMsg
      BY <1>1, <2>4 DEF SiblingStart
    <3>2. GlobalsType'
      BY <2>1, <2>2, <3>1 DEF GlobalsType
    <3>3. ToolType'
      BY <1>0, <2>1, <3>1, GotoType
    <3> QED
      BY <2>1, <3>2, <3>3, TypesNext
  <2> QED
    BY <2>3, <2>4
<1>2. CASE NextSibling(t)
  <2>1. /\ tool[t].pc = "s_loop"
        /\ UNCHANGED <<env, kernelVars, str, pid, i, j, parent_pid_holder>>
        /\ UNCHANGED <<parentNum, inbox, solo, still, settled, fault>>
    BY <1>2 DEF NextSibling, historyVars
  <2>2. PICK x : x = tool[t].frames[1]
    OBVIOUS
  <2>3. PICK p : p = PidAt(x)
    OBVIOUS
  <2>4. tool[t].frames # <<>>
    BY <2>1 DEF ToolType
  <2>5. x \in Elements
    BY <1>a, <2>2, <2>4, FramesAre
  <2>6. p \in Nat
    BY <2>3, <2>5, PidAtIs
  <2>7. str' = str /\ j' = j
    BY <2>1
  <2>8. CASE p = tool[t].target
    <3>1. /\ tool' = [tool EXCEPT ![t].pc = "send", ![t].frames = <<>>]
          /\ UNCHANGED <<answerMsg, tmpMsg>>
      BY <1>2, <2>2, <2>3, <2>8 DEF NextSibling
    <3>2. GlobalsType'
      BY <2>1, <3>1 DEF GlobalsType
    <3>3. <<>> \in Seq(Elements)
      OBVIOUS
    <3>4. Becomes(t, "send", tool[t].target, tool[t].task, <<>>)
      BY <1>0, <1>a, <3>1, <3>3, PcFramesSet
    <3>5. Len(<<>>) <= MaxDepth
      BY <1>b
    <3>6. ToolType'
      BY <1>0, <1>a, <2>7, <3>3, <3>4, <3>5, ToolTypeNext
    <3> QED
      BY <2>1, <3>2, <3>6, TypesNext
  <2>9. CASE p # tool[t].target
    <3>1. PICK y : y = NextOf(x)
      OBVIOUS
    <3>2. /\ IF Listed(p) THEN Put(<<p>>) ELSE UNCHANGED <<answerMsg, tmpMsg>>
          /\ tool' = [tool EXCEPT ![t].frames = <<y>>]
      BY <1>2, <2>2, <2>3, <2>9, <3>1 DEF NextSibling
    <3>3. answerMsg' \in Texts /\ tmpMsg' \in Texts
      <4>1. <<p>> \in Seq(Int)
        BY <2>6
      <4>2. CASE Listed(p)
        BY <3>2, <4>1, <4>2, PutTypes DEF GlobalsType
      <4>3. CASE ~Listed(p)
        BY <3>2, <4>3 DEF GlobalsType
      <4> QED
        BY <4>2, <4>3
    <3>4. GlobalsType'
      BY <2>1, <3>3 DEF GlobalsType
    <3>5. y \in Elements
      BY <2>5, <3>1, NextOfIs
    <3>6. <<y>> \in Seq(Elements) /\ Len(<<y>>) = 1 /\ <<y>> # <<>>
      BY <3>5
    <3>7. Becomes(t, "s_loop", tool[t].target, tool[t].task, <<y>>)
      BY <1>a, <2>1, <3>2, <3>6, FramesSet
    <3>8. Len(<<y>>) <= MaxDepth
      BY <1>d, <3>6
    <3>9. ToolType'
      BY <1>0, <1>a, <2>7, <3>6, <3>7, <3>8, ToolTypeNext
    <3> QED
      BY <2>1, <3>4, <3>9, TypesNext
  <2> QED
    BY <2>8, <2>9
<1> QED
  BY <1>1, <1>2 DEF Sibling

\* A call enters the list of its process, or returns at once.
LEMMA EnterIs ==
    ASSUME Types, NEW t \in Tools, Enter(t)
    PROVE  /\ tool[t].pc = "c_enter" /\ tool[t].task \in alive
           /\ tool[t].task \in Pids
           /\ UNCHANGED <<env, kernelVars, globalVars, inbox, solo, still, settled, fault>>
           /\ \/ /\ kids[tool[t].task] = <<>>
                 /\ tool' = [tool EXCEPT ![t] = Returned(t, tool[t].frames)]
              \/ /\ Len(tool[t].frames) + 1 <= MaxDepth
                 /\ <<FirstKid(tool[t].task)>> \o tool[t].frames \in Seq(Elements)
                 /\ Becomes(t, "c_loop", tool[t].target, tool[t].task,
                            <<FirstKid(tool[t].task)>> \o tool[t].frames)
<1>1. /\ tool[t].pc = "c_enter" /\ tool[t].task \in alive
      /\ Len(tool[t].frames) < MaxDepth
      /\ UNCHANGED <<env, kernelVars, globalVars, inbox, solo, still, settled, fault>>
  BY DEF Enter, historyVars
<1>2. /\ tool \in [Tools -> ToolRecs] /\ tool[t] \in ToolRecs
      /\ tool[t].pc \in Pcs
      /\ tool[t].target \in Nat /\ tool[t].task \in Roots
      /\ tool[t].frames \in Seq(Elements)
  BY ToolIs DEF Types
<1>3. tool[t].task \in Pids
  BY <1>1 DEF Types, KernelSound
<1>4. CASE kids[tool[t].task] = <<>>
  <2>1. tool' = [tool EXCEPT ![t] = Returned(t, tool[t].frames)]
    BY <1>4 DEF Enter
  <2> QED
    BY <1>1, <1>3, <1>4, <2>1
<1>5. CASE kids[tool[t].task] # <<>>
  <2>1. PICK frames : frames = <<FirstKid(tool[t].task)>> \o tool[t].frames
    OBVIOUS
  <2>2. PICK r : r = [tool[t] EXCEPT !.pc = "c_loop", !.frames = frames]
    OBVIOUS
  <2>3. tool' = [tool EXCEPT ![t] = r]
    <3>1. PICK v : v = IF kids[tool[t].task] = <<>>
                       THEN Returned(t, tool[t].frames)
                       ELSE [tool[t] EXCEPT !.pc = "c_loop",
                             !.frames = <<FirstKid(tool[t].task)>> \o tool[t].frames]
      OBVIOUS
    <3>2. tool' = [tool EXCEPT ![t] = v]
      BY <3>1 DEF Enter
    <3>3. v = r
      BY <1>5, <2>1, <2>2, <3>1
    <3> QED
      BY <3>2, <3>3
  <2>4. FirstKid(tool[t].task) \in Elements
    BY <1>2, FirstKidIs DEF Types, InListOf
  <2>5. frames \in Seq(Elements)
    BY <1>2, <2>1, <2>4, FramesAre
  <2>6. "c_loop" \in Pcs
    BY DEF Pcs
  <2>7. /\ r \in ToolRecs /\ r.pc = "c_loop" /\ r.target = tool[t].target
        /\ r.task = tool[t].task /\ r.frames = frames
    BY <1>2, <2>2, <2>5, <2>6 DEF ToolRecs
  <2>8. Becomes(t, r.pc, r.target, r.task, r.frames)
    BY <1>2, <2>3, <2>7, RecordSet
  <2>9. Becomes(t, "c_loop", tool[t].target, tool[t].task, frames)
    BY <2>7, <2>8
  <2>10. Len(tool[t].frames) + 1 <= MaxDepth
    <3>1. Len(tool[t].frames) \in Nat /\ MaxDepth \in Nat
      BY <1>2, DepthAssumption
    <3> QED
      BY <1>1, <3>1
  <2> QED
    BY <1>1, <1>3, <2>1, <2>5, <2>9, <2>10
<1> QED
  BY <1>4, <1>5

\* Where a call returns to, and what is left of the loops.
LEMMA ReturnBecomes ==
    ASSUME Types, NEW t \in Tools, NEW frames \in Seq(Elements),
           tool' = [tool EXCEPT ![t] = Returned(t, frames)]
    PROVE  \E pc \in {"send", "c_loop"}, rest \in Seq(Elements) :
              /\ Becomes(t, pc, tool[t].target, tool[t].task, rest)
              /\ Len(rest) = Len(frames)
              /\ pc = "send" => rest = <<>>
              /\ pc = "c_loop" =>
                    /\ frames # <<>> /\ rest # <<>>
                    /\ rest = <<NextOf(frames[1])>> \o Tail(frames)
<1>1. PICK r : r = Returned(t, frames)
  OBVIOUS
<1>2. /\ r \in ToolRecs
      /\ r.target = tool[t].target
      /\ r.task = tool[t].task
      /\ Len(r.frames) = Len(frames)
      /\ frames = <<>> => r.pc = "send" /\ r.frames = <<>>
      /\ frames # <<>> => /\ r.pc = "c_loop"
                          /\ r.frames = <<NextOf(frames[1])>> \o Tail(frames)
  BY <1>1, ReturnedIs DEF Types
<1>3. Becomes(t, r.pc, tool[t].target, tool[t].task, r.frames)
  <2>1. tool \in [Tools -> ToolRecs]
    BY ToolIs DEF Types
  <2>2. Becomes(t, r.pc, r.target, r.task, r.frames)
    BY <1>1, <1>2, <2>1, RecordSet
  <2> QED
    BY <1>2, <2>2
<1>4. r.frames \in Seq(Elements)
  BY <1>2 DEF ToolRecs
<1>5. CASE frames = <<>>
  BY <1>2, <1>3, <1>4, <1>5
<1>6. CASE frames # <<>>
  <2>1. r.frames # <<>>
    <3>1. Len(frames) # 0
      BY <1>6
    <3> QED
      BY <1>2, <1>4, <3>1
  <2> QED
    BY <1>2, <1>3, <1>4, <1>6, <2>1
<1> QED
  BY <1>5, <1>6

\* A call that returns keeps the types of the tools.
LEMMA ReturnTypes ==
    ASSUME Types, NEW t \in Tools, NEW frames \in Seq(Elements),
           Len(frames) <= MaxDepth,
           tool' = [tool EXCEPT ![t] = Returned(t, frames)],
           str' = str, j' = j
    PROVE  ToolType'
<1>1. PICK pc \in {"send", "c_loop"}, rest \in Seq(Elements) :
         /\ Becomes(t, pc, tool[t].target, tool[t].task, rest)
         /\ Len(rest) = Len(frames)
         /\ pc = "send" => rest = <<>>
         /\ pc = "c_loop" =>
               /\ frames # <<>> /\ rest # <<>>
               /\ rest = <<NextOf(frames[1])>> \o Tail(frames)
  BY ReturnBecomes
<1>2. /\ pc \in Pcs /\ pc \notin Fresh
      /\ pc \notin {"p_up", "c_enter", "p_tabs", "p_line", "pid", "begin",
                    "s_loop"}
  BY DEF Pcs, Fresh
<1>3. tool[t].target \in Nat /\ tool[t].task \in Roots /\ ToolType
  BY ToolIs DEF Types
<1>4. Len(rest) <= MaxDepth
  BY <1>1
<1>5. pc \in {"s_loop", "c_loop"} => rest # <<>>
  BY <1>1, <1>2
<1> QED
  BY <1>1, <1>2, <1>3, <1>4, <1>5, ToolTypeNext

\* The walk over the subtree keeps the types.
LEMMA ChildrenTypes ==
    ASSUME Types, NEW t \in Tools, Children(t)
    PROVE  Types'
<1> USE DEF Types
<1>0. /\ "c_enter" \in Pcs /\ "c_loop" \in Pcs
      /\ "c_enter" \notin Fresh /\ "c_loop" \notin Fresh
  BY DEF Pcs, Fresh
<1>a. /\ tool \in [Tools -> ToolRecs] /\ tool[t].pc \in Pcs
      /\ tool[t].target \in Nat /\ tool[t].task \in Roots
      /\ tool[t].frames \in Seq(Elements) /\ Len(tool[t].frames) <= MaxDepth
  BY ToolIs
<1>b. MaxDepth \in Nat /\ Len(tool[t].frames) \in Nat
  BY <1>a, DepthAssumption
<1>1. CASE ChildrenStart(t)
  <2>1. /\ tool[t].target \in alive /\ Put(<<tool[t].target>>)
        /\ tool' = [tool EXCEPT ![t].pc = "c_enter", ![t].task = tool[t].target]
        /\ UNCHANGED <<env, kernelVars, str, pid, i, j, parent_pid_holder>>
        /\ UNCHANGED <<parentNum, inbox, solo, still, settled, fault>>
    BY <1>1 DEF ChildrenStart, historyVars
  <2>2. tool[t].target \in Pids /\ tool[t].target \in Roots
    BY <2>1 DEF KernelSound, Roots
  <2>3. <<tool[t].target>> \in Seq(Int)
    BY <1>a
  <2>4. answerMsg' \in Texts /\ tmpMsg' \in Texts
    BY <2>1, <2>3, PutTypes DEF GlobalsType
  <2>5. GlobalsType'
    BY <2>1, <2>4 DEF GlobalsType
  <2>6. Becomes(t, "c_enter", tool[t].target, tool[t].target, tool[t].frames)
    BY <1>0, <1>a, <2>1, <2>2, PcTaskSet
  <2>7. str' = str /\ j' = j
    BY <2>1
  <2>8. ToolType'
    BY <1>0, <1>a, <2>2, <2>6, <2>7, ToolTypeNext
  <2> QED
    BY <2>1, <2>5, <2>8, TypesNext
<1>2. CASE Enter(t)
  <2>1. /\ UNCHANGED <<env, kernelVars, globalVars, inbox, solo, still, settled, fault>>
        /\ \/ tool' = [tool EXCEPT ![t] = Returned(t, tool[t].frames)]
           \/ /\ Len(tool[t].frames) + 1 <= MaxDepth
              /\ <<FirstKid(tool[t].task)>> \o tool[t].frames \in Seq(Elements)
              /\ Becomes(t, "c_loop", tool[t].target, tool[t].task,
                         <<FirstKid(tool[t].task)>> \o tool[t].frames)
    BY <1>2, EnterIs
  <2>2. GlobalsType'
    BY <2>1 DEF GlobalsType, globalVars
  <2>3. str' = str /\ j' = j
    BY <2>1 DEF globalVars
  <2>4. CASE tool' = [tool EXCEPT ![t] = Returned(t, tool[t].frames)]
    <3>1. ToolType'
      BY <1>a, <2>3, <2>4, ReturnTypes
    <3> QED
      BY <2>1, <2>2, <3>1, TypesNext
  <2>5. CASE /\ Len(tool[t].frames) + 1 <= MaxDepth
             /\ <<FirstKid(tool[t].task)>> \o tool[t].frames \in Seq(Elements)
             /\ Becomes(t, "c_loop", tool[t].target, tool[t].task,
                        <<FirstKid(tool[t].task)>> \o tool[t].frames)
    <3>1. PICK x : x = FirstKid(tool[t].task)
      OBVIOUS
    <3>2. x \in Elements
      BY <1>a, <3>1, FirstKidIs DEF InListOf
    <3>3. PICK frames : frames = <<x>> \o tool[t].frames
      OBVIOUS
    <3>4. frames \in Seq(Elements) /\ frames # <<>>
          /\ Len(frames) = Len(tool[t].frames) + 1
      BY <1>a, <3>2, <3>3, FramesAre
    <3>5. Becomes(t, "c_loop", tool[t].target, tool[t].task, frames)
      BY <2>5, <3>1, <3>3
    <3>6. Len(frames) <= MaxDepth
      BY <2>5, <3>4
    <3>7. ToolType'
      BY <1>0, <1>a, <2>3, <3>4, <3>5, <3>6, ToolTypeNext
    <3> QED
      BY <2>1, <2>2, <3>7, TypesNext
  <2> QED
    BY <2>1, <2>4, <2>5
<1>3. CASE EnterFails(t)
  BY <1>3, OopsTypes DEF EnterFails
<1>4. CASE NextChild(t)
  <2>1. /\ tool[t].pc = "c_loop"
        /\ UNCHANGED <<env, kernelVars, str, pid, j, parent_pid_holder>>
        /\ UNCHANGED <<parentNum, inbox, solo, still, settled, fault>>
    BY <1>4 DEF NextChild, historyVars
  <2>2. PICK p : p = PidAt(tool[t].frames[1])
    OBVIOUS
  <2>3. str' = str /\ j' = j
    BY <2>1
  <2>4. tool[t].frames # <<>>
    BY <2>1 DEF ToolType
  <2>5. CASE Listed(p)
    <3>1. /\ Put(Append(Tabs(Len(tool[t].frames)), p))
          /\ i' = Len(tool[t].frames)
          /\ tool' = [tool EXCEPT ![t].pc = "c_enter", ![t].task = p]
      BY <1>4, <2>2, <2>5 DEF NextChild
    <3>2. p \in Pids
      BY <2>5, InTableIs DEF Listed
    <3>3. p \in Roots /\ p \in Int
      BY <3>2, Numbers DEF Roots
    <3>4. Append(Tabs(Len(tool[t].frames)), p) \in Seq(Int)
      <4>1. PICK tabs : tabs = Tabs(Len(tool[t].frames))
        OBVIOUS
      <4>2. tabs \in Seq(Int)
        BY <1>b, <4>1, TabsIs
      <4>3. Append(tabs, p) \in Seq(Int)
        BY <3>3, <4>2
      <4> QED
        BY <4>1, <4>3
    <3>5. answerMsg' \in Texts /\ tmpMsg' \in Texts
      BY <3>1, <3>4, PutTypes DEF GlobalsType
    <3>6. i' \in 0 .. MaxDepth
      BY <1>a, <1>b, <3>1
    <3>7. GlobalsType'
      BY <2>1, <3>5, <3>6 DEF GlobalsType
    <3>8. Becomes(t, "c_enter", tool[t].target, p, tool[t].frames)
      BY <1>0, <1>a, <3>1, <3>3, PcTaskSet
    <3>9. ToolType'
      BY <1>0, <1>a, <2>3, <3>2, <3>3, <3>8, ToolTypeNext
    <3> QED
      BY <2>1, <3>7, <3>9, TypesNext
  <2>6. CASE ~Listed(p)
    <3>1. /\ tool' = [tool EXCEPT ![t] = Returned(t, Tail(tool[t].frames))]
          /\ UNCHANGED <<answerMsg, tmpMsg, i>>
      BY <1>4, <2>2, <2>6 DEF NextChild
    <3>2. GlobalsType'
      BY <2>1, <3>1 DEF GlobalsType
    <3>3. PICK rest : rest = Tail(tool[t].frames)
      OBVIOUS
    <3>4. rest \in Seq(Elements) /\ Len(rest) = Len(tool[t].frames) - 1
      BY <1>a, <2>4, <3>3, FramesAre
    <3>5. Len(rest) <= MaxDepth
      BY <1>a, <1>b, <3>4
    <3>6. ToolType'
      BY <2>3, <3>1, <3>3, <3>4, <3>5, ReturnTypes
    <3> QED
      BY <2>1, <3>2, <3>6, TypesNext
  <2> QED
    BY <2>5, <2>6
<1> QED
  BY <1>1, <1>2, <1>3, <1>4 DEF Children

\* A process that exits, or is reaped, keeps the types.
LEMMA ExitTypes ==
    ASSUME Types, NEW p \in Pids, Exit(p) \/ Reap(p)
    PROVE  Types'
<1>1. /\ still' = [t \in Tools |-> still[t] /\ ~Handling(t)]
      /\ UNCHANGED <<env, globalVars, tool, inbox, solo, fault>>
      /\ \/ settled' = [t \in Tools |-> settled[t] /\ ~Handling(t)]
         \/ settled' = settled
  BY DEF Exit, Reap, Exits
<1>2. KernelSound'
  BY ExitKernel, ReapKernel DEF Types
<1>3. GlobalsType'
  BY <1>1 DEF Types, GlobalsType, globalVars
<1>4. ToolType'
  BY <1>1 DEF Types, ToolType, globalVars
<1>5. still' \in [Tools -> BOOLEAN] /\ settled' \in [Tools -> BOOLEAN]
  BY <1>1 DEF Types
<1> QED
  BY <1>1, <1>2, <1>3, <1>4, <1>5 DEF Types

\* Each step of a tool keeps the types.
LEMMA StepTypes ==
    ASSUME Types, NEW t \in Tools, Step(t)
    PROVE  Types'
<1>1. CASE LookupFails(t) \/ ReadFreed(t)
  BY <1>1, OopsTypes DEF LookupFails, ReadFreed
<1> QED
  BY <1>1, RequestTypes, ParentTypes, SiblingTypes, ChildrenTypes DEF Step

\* Each step of the program keeps the types.
LEMMA TypesStep ==
    ASSUME Types, [Next]_vars
    PROVE  Types'
<1>1. CASE \E t \in Tools : Step(t)
  BY <1>1, StepTypes
<1>2. CASE \E t \in Tools, arg \in env.args : Ask(t, arg) \/ Refuse(t, arg)
  BY <1>2, AskTypes, RefuseTypes
<1>3. CASE \E p \in Pids : Exit(p) \/ Reap(p)
  BY <1>3, ExitTypes
<1>4. CASE UNCHANGED vars
  <2>1. /\ UNCHANGED <<env, kernelVars, globalVars, tool, inbox, fault>>
        /\ UNCHANGED <<solo, still, settled>>
    BY <1>4 DEF vars, historyVars
  <2>2. GlobalsType'
    BY <2>1 DEF Types, GlobalsType, globalVars
  <2>3. ToolType'
    BY <2>1 DEF Types, ToolType, globalVars
  <2> QED
    BY <2>1, <2>2, <2>3, TypesNext DEF Types
<1> QED
  BY <1>1, <1>2, <1>3, <1>4 DEF Next

\* TypeOK is what the types say of the buffers, the counters and the tools.
LEMMA TypesTypeOK == Types => TypeOK
<1> SUFFICES ASSUME Types PROVE TypeOK
  OBVIOUS
<1>1. /\ alive \subseteq Pids /\ groups \subseteq Pids \ alive
  BY DEF Types, KernelSound
<1>2. /\ pid \in Tools \cup {0}
      /\ i \in 0 .. MaxDepth /\ j \in Nat /\ parentNum \in 0 .. MaxDepth
      /\ Len(answerMsg) <= MaxText /\ Len(tmpMsg) <= MaxText
      /\ \A k \in DOMAIN parent_pid_holder :
            parent_pid_holder[k] \in Pids \cup {0}
  BY DEF Types, GlobalsType, Texts, Roots
<1>3. \A t \in Tools : /\ tool[t].target \in Nat
                       /\ Len(tool[t].frames) <= MaxDepth
  BY ToolIs DEF Types
<1>4. fault \in Tools \cup {0}
  BY DEF Types
<1> QED
  BY <1>1, <1>2, <1>3, <1>4 DEF TypeOK

\* The table and the lists and the buffers of the module stay within their
\* bounds, however requests run into each other and whatever exits, and so do
\* the counters and the holder of a path until a walk would write past its
\* end, which ends the run (UpFails, ksimple_pstree.h:18-35, 71-77).
THEOREM TypeCorrect == Spec => []TypeOK
<1>1. Init => Types
  BY TypesInit
<1>2. Types /\ [Next]_vars => Types'
  BY TypesStep
<1>3. Types => TypeOK
  BY TypesTypeOK
<1> QED
  BY <1>1, <1>2, <1>3, PTL DEF Spec

-----------------------------------------------------------------------------
(* Walks that nobody disturbs                                               *)

\* What is gone is a process that was reaped or the head of its list.
LEMMA GoneIs ==
    ASSUME KernelSound
    PROVE  /\ \A p \in alive : ~Gone(p)
           /\ \A x \in Elements : ~(x < 0) /\ ~Gone(x) => x \in alive
           /\ \A x \in Elements : ~Gone(x) => Owner(x) \in alive \cup {0}
           /\ \A x, p : InListOf(x, p) /\ p \in alive \cup {0} => ~Gone(x)
<1>1. \A p \in alive : p \in Pids /\ ~(p < 0)
  BY Numbers DEF KernelSound
<1>2. \A p \in alive : ~Gone(p)
  BY <1>1 DEF Gone
<1>3. \A x \in Elements : ~(x < 0) /\ ~Gone(x) => x \in alive
  BY Numbers DEF Gone
<1>4. ASSUME NEW x \in Elements, ~Gone(x)
      PROVE  Owner(x) \in alive \cup {0}
  <2>1. CASE x < 0
    BY <1>4, <2>1 DEF Gone, Owner
  <2>2. CASE ~(x < 0)
    <3>1. x \in alive /\ Owner(x) = parent[x]
      BY <1>3, <1>4, <2>2 DEF Owner
    <3> QED
      BY <3>1 DEF KernelSound
  <2> QED
    BY <2>1, <2>2
<1>5. ASSUME NEW x, NEW p, InListOf(x, p), p \in alive \cup {0}
      PROVE  ~Gone(x)
  <2>1. x \in Elements /\ Owner(x) = p /\ (x > 0 => x \in alive)
    BY <1>5 DEF InListOf
  <2>2. CASE x < 0
    BY <1>5, <2>1, <2>2 DEF Gone, Owner
  <2>3. CASE ~(x < 0)
    BY <1>2, <2>1, <2>3, Numbers
  <2> QED
    BY <2>2, <2>3
<1> QED
  BY <1>2, <1>3, <1>4, <1>5

\* A loop goes on from what is not gone to what is not gone either.
LEMMA NextStands ==
    ASSUME KernelSound, NEW x \in Elements, ~Gone(x)
    PROVE  ~Gone(NextOf(x))
<1>1. x > 0 => x \in alive
  <2>1. x \in Int
    BY Numbers
  <2> QED
    BY <2>1, GoneIs
<1>2. InListOf(NextOf(x), Owner(x))
  BY <1>1, NextOfIs
<1>3. Owner(x) \in alive \cup {0}
  BY GoneIs
<1> QED
  BY <1>2, <1>3, GoneIs

\* When a tool has become what is said, its walk is sound if that is.
LEMMA WalkBecomes ==
    ASSUME NEW t \in Tools, NEW pc, NEW target, NEW task, NEW frames,
           Becomes(t, pc, target, task, frames), UNCHANGED <<env, kernelVars>>,
           pc \in {"p_task", "c_task"} => InTable(target),
           pc = "s_loop" => target \in alive,
           pc = "p_up" =>
               /\ task \in alive
               /\ \A k \in 0 .. i' - 1 : parent_pid_holder'[k] \in alive
               /\ i' + Depth[task] <= MaxDepth,
           pc \in {"p_tabs", "p_line"} =>
               \A k \in 0 .. parentNum' - 1 : parent_pid_holder'[k] \in alive,
           pc = "p_line" => j' <= parentNum' + 1,
           Standing(frames),
           pc \in {"c_enter", "c_loop"} => Nested(frames),
           pc = "c_enter" /\ Free(frames, 1) =>
               task \in alive /\ Depth[task] > Len(frames)
    PROVE  WalkSound(t)'
<1>1. /\ tool'[t].pc = pc /\ tool'[t].target = target
      /\ tool'[t].task = task /\ tool'[t].frames = frames
  BY DEF Becomes
<1>2. env' = env /\ alive' = alive /\ groups' = groups /\ parent' = parent
  BY DEF kernelVars
<1>3. /\ pc = "s_loop" => target \in alive'
      /\ pc \in {"p_task", "c_task"} => InTable(target)'
      /\ pc = "p_up" => /\ task \in alive'
                        /\ HeldAlive(i)' /\ i' + Depth[task] <= MaxDepth
      /\ pc \in {"p_tabs", "p_line"} => HeldAlive(parentNum)'
  BY <1>2 DEF HeldAlive, InTable
<1>4. /\ Standing(tool[t].frames)'
      /\ pc \in {"c_enter", "c_loop"} => Nested(tool[t].frames)'
      /\ Free(tool[t].frames, 1)' => Free(frames, 1)
  BY <1>1, <1>2 DEF Standing, Nested, Free, Stray, Gone, Owner, Listed, InTable,
                    PidAt
<1> QED
  BY <1>1, <1>2, <1>3, <1>4 DEF WalkSound

\* A tool that is in no walk, or has nothing left of it.
LEMMA PlainWalk ==
    ASSUME NEW t \in Tools, tool'[t].frames = <<>>,
           tool'[t].pc \notin {"p_task", "c_task", "s_loop", "p_up", "c_enter",
                              "p_tabs", "p_line"}
    PROVE  WalkSound(t)'
BY DEF WalkSound, Standing, Nested

\* A step that leaves the tool, the lists and the globals leaves its walk.
LEMMA WalkKept ==
    ASSUME NEW t \in Tools, WalkSound(t), tool'[t] = tool[t],
           UNCHANGED <<env, kernelVars, globalVars>>
    PROVE  WalkSound(t)'
BY DEF WalkSound, Standing, Nested, Free, Stray, Gone, Owner, Listed, InTable,
       PidAt, HeldAlive, kernelVars, globalVars

\* A call that enters the list of a process.
LEMMA LoopsEnter ==
    ASSUME KernelSound, NEW p \in alive, NEW frames \in Seq(Elements),
           Standing(frames), Nested(frames),
           Free(frames, 1) => Depth[p] > Len(frames)
    PROVE  /\ Standing(<<FirstKid(p)>> \o frames)
           /\ Nested(<<FirstKid(p)>> \o frames)
<1>1. p \in Pids /\ p \in Roots
  BY DEF KernelSound, Roots
<1>2. PICK x : x = FirstKid(p)
  OBVIOUS
<1>3. InListOf(x, p)
  BY <1>1, <1>2, FirstKidIs
<1>4. x \in Elements /\ Owner(x) = p /\ ~Gone(x)
  BY <1>3, GoneIs DEF InListOf
<1>5. PICK g : g = <<x>> \o frames
  OBVIOUS
<1>6. /\ g \in Seq(Elements) /\ Len(g) = Len(frames) + 1 /\ g[1] = x
      /\ Len(frames) \in Nat /\ DOMAIN frames = 1 .. Len(frames)
      /\ DOMAIN g = 1 .. Len(frames) + 1
      /\ \A k \in 2 .. Len(frames) + 1 : g[k] = frames[k - 1]
  BY <1>4, <1>5, FramesAre
<1>7. ASSUME NEW n \in Nat, n # 0, Free(g, n + 1)
      PROVE  Free(frames, n)
  <2>1. ASSUME NEW m \in n .. Len(frames) PROVE ~Stray(frames[m])
    <3>1. m + 1 \in n + 1 .. Len(g) /\ g[m + 1] = frames[m]
      <4>1. m + 1 \in 2 .. Len(frames) + 1 /\ (m + 1) - 1 = m
        BY <1>6, <1>7
      <4>2. g[m + 1] = frames[(m + 1) - 1]
        BY <1>6, <4>1
      <4> QED
        BY <1>6, <4>1, <4>2
    <3> QED
      BY <1>7, <3>1 DEF Free
  <2> QED
    BY <2>1 DEF Free
<1>8. ASSUME NEW k \in DOMAIN g
      PROVE  /\ ~Gone(g[k])
             /\ Owner(g[k]) \in Pids
             /\ Free(g, k + 1) => Depth[Owner(g[k])] > Len(g) - k
  <2>1. k \in 1 .. Len(frames) + 1
    BY <1>6
  <2>2. CASE k = 1
    <3>1. Len(g) - k = Len(frames)
      BY <1>6, <2>2
    <3>2. Free(g, k + 1) => Free(frames, 1)
      BY <1>7, <2>2
    <3> QED
      BY <1>1, <1>4, <1>6, <2>2, <3>1, <3>2
  <2>3. CASE k # 1
    <3>1. PICK n : n = k - 1
      OBVIOUS
    <3>2. n \in DOMAIN frames /\ g[k] = frames[n] /\ n \in Nat /\ n # 0
      BY <1>6, <2>1, <2>3, <3>1
    <3>3. Len(g) - k = Len(frames) - n /\ k = n + 1
      BY <1>6, <2>1, <3>1
    <3>4. ~Gone(frames[n])
      BY <3>2 DEF Standing
    <3>5. /\ Owner(frames[n]) \in Pids
          /\ Free(frames, n + 1) => Depth[Owner(frames[n])] > Len(frames) - n
      BY <3>2 DEF Nested
    <3>6. Free(g, k + 1) => Free(frames, n + 1)
      <4>1. k \in Nat /\ k # 0
        BY <2>1
      <4> QED
        BY <1>7, <3>3, <4>1
    <3> QED
      BY <3>2, <3>3, <3>4, <3>5, <3>6
  <2> QED
    BY <2>2, <2>3
<1>9. Standing(g) /\ Nested(g)
  BY <1>8 DEF Standing, Nested
<1> QED
  BY <1>2, <1>5, <1>9

\* A loop that ends.
LEMMA LoopsTail ==
    ASSUME NEW frames \in Seq(Elements), frames # <<>>,
           Standing(frames), Nested(frames)
    PROVE  Standing(Tail(frames)) /\ Nested(Tail(frames))
<1>1. PICK g : g = Tail(frames)
  OBVIOUS
<1>2. /\ g \in Seq(Elements) /\ Len(g) = Len(frames) - 1
      /\ Len(frames) \in Nat /\ DOMAIN frames = 1 .. Len(frames)
      /\ DOMAIN g = 1 .. Len(frames) - 1
      /\ \A k \in 1 .. Len(frames) - 1 : g[k] = frames[k + 1]
  BY <1>1, FramesAre
<1>3. ASSUME NEW k \in DOMAIN g
      PROVE  /\ ~Gone(g[k])
             /\ Owner(g[k]) \in Pids
             /\ Free(g, k + 1) => Depth[Owner(g[k])] > Len(g) - k
  <2>1. /\ k \in 1 .. Len(frames) - 1 /\ k + 1 \in DOMAIN frames
        /\ Len(g) - k = Len(frames) - (k + 1)
    BY <1>2
  <2>2. g[k] = frames[k + 1]
    BY <1>2, <2>1
  <2>3. ~Gone(frames[k + 1])
    BY <2>1 DEF Standing
  <2>4. /\ Owner(frames[k + 1]) \in Pids
        /\ Free(frames, (k + 1) + 1) =>
              Depth[Owner(frames[k + 1])] > Len(frames) - (k + 1)
    BY <2>1 DEF Nested
  <2>5. ASSUME Free(g, k + 1), NEW m \in (k + 1) + 1 .. Len(frames)
        PROVE  ~Stray(frames[m])
    <3>1. PICK n : n = m - 1
      OBVIOUS
    <3>2. n \in k + 1 .. Len(g) /\ n \in 1 .. Len(frames) - 1 /\ n + 1 = m
      BY <1>2, <2>1, <3>1
    <3>3. g[n] = frames[m]
      BY <1>2, <3>2
    <3> QED
      BY <2>5, <3>2, <3>3 DEF Free
  <2>6. Free(g, k + 1) => Free(frames, (k + 1) + 1)
    BY <2>5 DEF Free
  <2> QED
    BY <2>1, <2>2, <2>3, <2>4, <2>6
<1>4. Standing(g) /\ Nested(g)
  BY <1>3 DEF Standing, Nested
<1> QED
  BY <1>1, <1>4

\* A loop that goes on to its next element.
LEMMA LoopsNext ==
    ASSUME KernelSound, NEW frames \in Seq(Elements), frames # <<>>,
           Standing(frames), Nested(frames)
    PROVE  /\ Standing(<<NextOf(frames[1])>> \o Tail(frames))
           /\ Nested(<<NextOf(frames[1])>> \o Tail(frames))
<1>1. PICK x : x = NextOf(frames[1])
  OBVIOUS
<1>2. PICK rest : rest = Tail(frames)
  OBVIOUS
<1>3. /\ 1 \in DOMAIN frames /\ frames[1] \in Elements
      /\ rest \in Seq(Elements) /\ Len(rest) = Len(frames) - 1
      /\ Len(frames) \in Nat /\ DOMAIN frames = 1 .. Len(frames)
      /\ \A k \in 1 .. Len(frames) - 1 : rest[k] = frames[k + 1]
  BY <1>2, FramesAre
<1>4. ~Gone(frames[1])
  BY <1>3 DEF Standing
<1>5. x \in Elements /\ Owner(x) = Owner(frames[1]) /\ ~Gone(x)
  BY <1>1, <1>3, <1>4, NextOfIs, NextStands
<1>6. PICK g : g = <<x>> \o rest
  OBVIOUS
<1>7. /\ g \in Seq(Elements) /\ Len(g) = Len(rest) + 1 /\ g[1] = x
      /\ DOMAIN rest = 1 .. Len(rest) /\ Len(rest) \in Nat
      /\ \A k \in 2 .. Len(rest) + 1 : g[k] = rest[k - 1]
  BY <1>3, <1>5, <1>6, FramesAre
\* Only the innermost loop has moved, within its list.
<1>8. /\ Len(g) = Len(frames) /\ DOMAIN g = DOMAIN frames
      /\ \A k \in 2 .. Len(frames) : g[k] = frames[k]
  <2>1. Len(g) = Len(frames) /\ DOMAIN g = DOMAIN frames
    BY <1>3, <1>7
  <2>2. ASSUME NEW k \in 2 .. Len(frames) PROVE g[k] = frames[k]
    <3>1. PICK n : n = k - 1
      OBVIOUS
    <3>2. n \in 1 .. Len(frames) - 1 /\ n + 1 = k /\ k \in 2 .. Len(rest) + 1
      BY <1>3, <3>1
    <3>3. g[k] = rest[n]
      BY <1>7, <3>1, <3>2
    <3>4. rest[n] = frames[n + 1]
      BY <1>3, <3>2
    <3> QED
      BY <3>2, <3>3, <3>4
  <2> QED
    BY <2>1, <2>2
<1>9. \A k \in DOMAIN frames : ~Gone(g[k]) /\ Owner(g[k]) = Owner(frames[k])
  <2> SUFFICES ASSUME NEW k \in DOMAIN frames
               PROVE  ~Gone(g[k]) /\ Owner(g[k]) = Owner(frames[k])
    OBVIOUS
  <2>1. CASE k = 1
    BY <1>5, <1>7, <2>1
  <2>2. CASE k # 1
    <3>1. k \in 2 .. Len(frames)
      BY <1>3, <2>2
    <3>2. g[k] = frames[k]
      BY <1>8, <3>1
    <3> QED
      BY <3>2 DEF Standing
  <2> QED
    BY <2>1, <2>2
<1>10. ASSUME NEW k \in DOMAIN frames, Free(g, k + 1)
       PROVE  Free(frames, k + 1)
  <2>1. ASSUME NEW m \in k + 1 .. Len(frames) PROVE ~Stray(frames[m])
    <3>1. m \in 2 .. Len(frames)
      BY <1>3
    <3>2. g[m] = frames[m] /\ m \in k + 1 .. Len(g)
      BY <1>8, <3>1
    <3> QED
      BY <1>10, <3>2 DEF Free
  <2> QED
    BY <2>1 DEF Free
<1>11. ASSUME NEW k \in DOMAIN g
       PROVE  /\ Owner(g[k]) \in Pids
              /\ Free(g, k + 1) => Depth[Owner(g[k])] > Len(g) - k
  <2>1. k \in DOMAIN frames /\ Owner(g[k]) = Owner(frames[k])
    BY <1>8, <1>9
  <2>2. /\ Owner(frames[k]) \in Pids
        /\ Free(frames, k + 1) => Depth[Owner(frames[k])] > Len(frames) - k
    BY <2>1 DEF Nested
  <2> QED
    BY <1>8, <1>10, <2>1, <2>2
<1>12. Standing(g) /\ Nested(g)
  <2>1. \A k \in DOMAIN g : ~Gone(g[k])
    BY <1>8, <1>9
  <2> QED
    BY <1>11, <2>1 DEF Standing, Nested
<1> QED
  BY <1>1, <1>2, <1>6, <1>12

\* The path to a process.
LEMMA ParentWalk ==
    ASSUME Types, NEW t \in Tools, WalkSound(t), Parent(t),
           ~PutLineFails(t), ~UpFails(t)
    PROVE  WalkSound(t)'
<1>a. /\ tool \in [Tools -> ToolRecs] /\ tool[t].pc \in Pcs
      /\ tool[t].target \in Nat /\ tool[t].task \in Roots
      /\ tool[t].frames \in Seq(Elements)
  BY ToolIs DEF Types
<1>b. /\ i \in Nat /\ j \in Nat /\ parentNum \in Nat
      /\ i \in 0 .. MaxDepth /\ MaxDepth \in Nat
      /\ parent_pid_holder \in [0 .. MaxDepth - 1 -> Roots]
  BY DepthAssumption DEF Types, GlobalsType
<1>c. Standing(tool[t].frames)
  BY DEF WalkSound
<1>d. "p_up" \in Pcs /\ "p_tabs" \in Pcs /\ "p_line" \in Pcs /\ "send" \in Pcs
  BY DEF Pcs
<1>1. CASE ParentStart(t)
  <2>1. /\ tool[t].target \in alive /\ i' = 0 /\ UNCHANGED <<env, kernelVars>>
        /\ tool' = [tool EXCEPT ![t].pc = "p_up", ![t].task = tool[t].target]
    BY <1>1 DEF ParentStart
  <2>2. tool[t].target \in Roots /\ tool[t].target \in Pids
    BY <2>1 DEF Types, KernelSound, Roots
  <2>3. Becomes(t, "p_up", tool[t].target, tool[t].target, tool[t].frames)
    BY <1>a, <1>d, <2>1, <2>2, PcTaskSet
  <2>4. \A k \in 0 .. i' - 1 : parent_pid_holder'[k] \in alive
    BY <2>1
  <2>5. i' + Depth[tool[t].target] <= MaxDepth
    <3>1. Depth[tool[t].target] \in 1 .. MaxDepth
      BY <2>2, DepthIs
    <3> QED
      BY <1>b, <2>1, <3>1
  <2> QED
    BY <1>c, <2>1, <2>3, <2>4, <2>5, WalkBecomes
<1>2. CASE Up(t)
  <2>1. tool[t].pc = "p_up" /\ UNCHANGED <<env, kernelVars>>
    BY <1>2 DEF Up
  <2>2. /\ tool[t].task \in alive /\ HeldAlive(i)
        /\ i + Depth[tool[t].task] <= MaxDepth
    BY <2>1 DEF WalkSound
  <2>3. PICK above : above = parent[tool[t].task]
    OBVIOUS
  <2>4. CASE InTable(above)
    <3>1. /\ i < MaxDepth
          /\ parent_pid_holder' = [parent_pid_holder EXCEPT ![i] = above]
          /\ i' = i + 1
          /\ tool' = [tool EXCEPT ![t].task = above]
      BY <1>2, <2>3, <2>4 DEF Up
    <3>2. above \in Pids
      BY <2>4, InTableIs DEF Types
    <3>3. above \in alive /\ above \in Roots
      BY <2>2, <2>3, <3>2, Numbers DEF Types, KernelSound, Roots
    <3>6. i' + Depth[above] <= MaxDepth
      <4>1. tool[t].task \in Pids
        BY <2>2 DEF Types, KernelSound
      <4>2. Depth[above] < Depth[tool[t].task]
        BY <2>3, <3>2, <4>1, Numbers DEF Types, KernelSound
      <4>3. Depth[above] \in Int /\ Depth[tool[t].task] \in Int
        BY <3>2, <4>1, DepthIs
      <4> QED
        BY <1>b, <2>2, <3>1, <4>2, <4>3
    <3>4. Becomes(t, "p_up", tool[t].target, above, tool[t].frames)
      BY <1>a, <2>1, <3>1, <3>3, TaskSet
    <3>5. ASSUME NEW k \in 0 .. i' - 1
          PROVE  parent_pid_holder'[k] \in alive
      <4>1. k \in 0 .. MaxDepth - 1 /\ i \in 0 .. MaxDepth - 1
        BY <1>b, <3>1
      <4>2. k = i \/ k \in 0 .. i - 1
        BY <1>b, <3>1
      <4> QED
        BY <1>b, <2>2, <3>1, <3>3, <4>1, <4>2 DEF HeldAlive
    <3> QED
      BY <1>c, <2>1, <3>3, <3>4, <3>5, <3>6, WalkBecomes
  <2>5. CASE ~InTable(above)
    <3>1. /\ parentNum' = i /\ Goto(t, "p_tabs")
          /\ UNCHANGED <<i, parent_pid_holder>>
      BY <1>2, <2>3, <2>5 DEF Up
    <3>2. Becomes(t, "p_tabs", tool[t].target, tool[t].task, tool[t].frames)
      BY <1>a, <1>d, <3>1, PcSet DEF Goto
    <3>3. \A k \in 0 .. parentNum' - 1 : parent_pid_holder'[k] \in alive
      BY <2>2, <3>1 DEF HeldAlive
    <3> QED
      BY <1>c, <2>1, <3>2, <3>3, WalkBecomes
  <2> QED
    BY <2>4, <2>5
<1>3. CASE PutTabs(t)
  <2>1. /\ tool[t].pc = "p_tabs" /\ UNCHANGED <<env, kernelVars>>
        /\ UNCHANGED <<j, parentNum, parent_pid_holder>>
    BY <1>3 DEF PutTabs
  <2>2. \A k \in 0 .. parentNum' - 1 : parent_pid_holder'[k] \in alive
    BY <2>1 DEF WalkSound, HeldAlive
  <2>3. CASE j <= parentNum + 1
    <3>1. Goto(t, "p_line")
      BY <1>3, <2>3 DEF PutTabs
    <3>2. Becomes(t, "p_line", tool[t].target, tool[t].task, tool[t].frames)
      BY <1>a, <1>d, <3>1, PcSet DEF Goto
    <3>3. j' <= parentNum' + 1
      BY <2>1, <2>3
    <3> QED
      BY <1>c, <2>1, <2>2, <3>2, <3>3, WalkBecomes
  <2>4. CASE ~(j <= parentNum + 1)
    <3>1. Goto(t, "send")
      BY <1>3, <2>4 DEF PutTabs
    <3>2. Becomes(t, "send", tool[t].target, tool[t].task, tool[t].frames)
      BY <1>a, <1>d, <3>1, PcSet DEF Goto
    <3> QED
      BY <1>c, <2>1, <3>2, WalkBecomes
  <2> QED
    BY <2>3, <2>4
<1>4. CASE PutLine(t)
  <2>1. /\ tool[t].pc = "p_line" /\ UNCHANGED <<env, kernelVars>>
        /\ Goto(t, "p_tabs")
        /\ UNCHANGED <<parentNum, parent_pid_holder>>
    BY <1>4 DEF PutLine
  <2>2. \A k \in 0 .. parentNum' - 1 : parent_pid_holder'[k] \in alive
    BY <2>1 DEF WalkSound, HeldAlive
  <2>3. Becomes(t, "p_tabs", tool[t].target, tool[t].task, tool[t].frames)
    BY <1>a, <1>d, <2>1, PcSet DEF Goto
  <2> QED
    BY <1>c, <2>1, <2>2, <2>3, WalkBecomes
<1> QED
  BY <1>1, <1>2, <1>3, <1>4 DEF Parent

\* The walk over the siblings.
LEMMA SiblingWalk ==
    ASSUME Types, NEW t \in Tools, WalkSound(t), Sibling(t)
    PROVE  WalkSound(t)'
<1>a. /\ tool \in [Tools -> ToolRecs] /\ tool[t].pc \in Pcs
      /\ tool[t].target \in Nat /\ tool[t].task \in Roots
      /\ tool[t].frames \in Seq(Elements)
  BY ToolIs DEF Types
<1>b. Standing(tool[t].frames) /\ KernelSound
  BY DEF WalkSound, Types
<1>c. "s_loop" \in Pcs /\ "send" \in Pcs
  BY DEF Pcs
\* The loop stands on one element of the list.
<1>d. ASSUME NEW x \in Elements, ~Gone(x), tool[t].target \in alive,
             UNCHANGED <<env, kernelVars>>,
             Becomes(t, "s_loop", tool[t].target, tool[t].task, <<x>>)
      PROVE  WalkSound(t)'
  <2>1. Standing(<<x>>)
    BY <1>d DEF Standing
  <2> QED
    BY <1>d, <2>1, WalkBecomes
<1>1. CASE SiblingStart(t)
  <2>1. UNCHANGED <<env, kernelVars>>
    BY <1>1 DEF SiblingStart
  <2>2. CASE tool[t].target \in alive
    <3>1. PICK x : x = NextOf(tool[t].target)
      OBVIOUS
    <3>2. tool' = [tool EXCEPT ![t].pc = "s_loop", ![t].frames = <<x>>]
      BY <1>1, <2>2, <3>1 DEF SiblingStart
    <3>3. tool[t].target \in Elements /\ ~Gone(tool[t].target)
      BY <1>b, <2>2, Numbers, GoneIs DEF KernelSound
    <3>4. x \in Elements /\ ~Gone(x)
      BY <1>b, <3>1, <3>3, NextOfIs, NextStands
    <3>5. <<x>> \in Seq(Elements)
      BY <3>4
    <3>6. Becomes(t, "s_loop", tool[t].target, tool[t].task, <<x>>)
      BY <1>a, <1>c, <3>2, <3>5, PcFramesSet
    <3> QED
      BY <1>d, <2>1, <2>2, <3>4, <3>6
  <2>3. CASE tool[t].target \notin alive
    <3>1. Goto(t, "send")
      BY <1>1, <2>3 DEF SiblingStart
    <3>2. Becomes(t, "send", tool[t].target, tool[t].task, tool[t].frames)
      BY <1>a, <1>c, <3>1, PcSet DEF Goto
    <3> QED
      BY <1>b, <2>1, <3>2, WalkBecomes
  <2> QED
    BY <2>2, <2>3
<1>2. CASE NextSibling(t)
  <2>1. tool[t].pc = "s_loop" /\ UNCHANGED <<env, kernelVars>>
    BY <1>2 DEF NextSibling
  <2>2. PICK x : x = tool[t].frames[1]
    OBVIOUS
  <2>3. tool[t].frames # <<>> /\ tool[t].target \in alive
    BY <2>1 DEF Types, ToolType, WalkSound
  <2>4. x \in Elements /\ 1 \in DOMAIN tool[t].frames
    BY <1>a, <2>2, <2>3, FramesAre
  <2>5. ~Gone(x)
    BY <1>b, <2>2, <2>4 DEF Standing
  <2>6. CASE PidAt(x) = tool[t].target
    <3>1. tool' = [tool EXCEPT ![t].pc = "send", ![t].frames = <<>>]
      BY <1>2, <2>2, <2>6 DEF NextSibling
    <3>2. <<>> \in Seq(Elements) /\ Standing(<<>>)
      BY DEF Standing
    <3>3. Becomes(t, "send", tool[t].target, tool[t].task, <<>>)
      BY <1>a, <1>c, <3>1, <3>2, PcFramesSet
    <3> QED
      BY <2>1, <3>2, <3>3, WalkBecomes
  <2>7. CASE PidAt(x) # tool[t].target
    <3>1. PICK y : y = NextOf(x)
      OBVIOUS
    <3>2. tool' = [tool EXCEPT ![t].frames = <<y>>]
      BY <1>2, <2>2, <2>7, <3>1 DEF NextSibling
    <3>3. y \in Elements /\ ~Gone(y)
      BY <1>b, <2>4, <2>5, <3>1, NextOfIs, NextStands
    <3>4. <<y>> \in Seq(Elements)
      BY <3>3
    <3>5. Becomes(t, "s_loop", tool[t].target, tool[t].task, <<y>>)
      BY <1>a, <2>1, <3>2, <3>4, FramesSet
    <3> QED
      BY <1>d, <2>1, <2>3, <3>3, <3>5
  <2> QED
    BY <2>6, <2>7
<1> QED
  BY <1>1, <1>2 DEF Sibling

\* A call of the walk over the subtree that returns.
LEMMA ReturnWalk ==
    ASSUME Types, NEW t \in Tools, NEW frames \in Seq(Elements),
           tool' = [tool EXCEPT ![t] = Returned(t, frames)],
           Standing(frames), Nested(frames), UNCHANGED <<env, kernelVars>>
    PROVE  WalkSound(t)'
<1>1. PICK pc \in {"send", "c_loop"}, rest \in Seq(Elements) :
         /\ Becomes(t, pc, tool[t].target, tool[t].task, rest)
         /\ Len(rest) = Len(frames)
         /\ pc = "send" => rest = <<>>
         /\ pc = "c_loop" =>
               /\ frames # <<>> /\ rest # <<>>
               /\ rest = <<NextOf(frames[1])>> \o Tail(frames)
  BY ReturnBecomes
<1>2. CASE pc = "send"
  <2>1. Standing(<<>>)
    BY DEF Standing
  <2> QED
    BY <1>1, <1>2, <2>1, WalkBecomes
<1>3. CASE pc = "c_loop"
  <2>1. Standing(rest) /\ Nested(rest)
    BY <1>1, <1>3, LoopsNext DEF Types
  <2> QED
    BY <1>1, <1>3, <2>1, WalkBecomes
<1> QED
  BY <1>2, <1>3

\* The walk over the subtree.
LEMMA ChildrenWalk ==
    ASSUME Types, NEW t \in Tools, WalkSound(t), Children(t),
           ~EnterFails(t)
    PROVE  WalkSound(t)'
<1>a. /\ tool \in [Tools -> ToolRecs] /\ tool[t].pc \in Pcs
      /\ tool[t].target \in Nat /\ tool[t].task \in Roots
      /\ tool[t].frames \in Seq(Elements)
  BY ToolIs DEF Types
<1>b. Standing(tool[t].frames) /\ KernelSound
  BY DEF WalkSound, Types
<1>c. "c_loop" \in Pcs /\ "c_enter" \in Pcs
  BY DEF Pcs
<1>d. tool[t].pc \in {"c_enter", "c_loop"} => Nested(tool[t].frames)
  BY DEF WalkSound
<1>1. CASE ChildrenStart(t)
  <2>1. /\ tool[t].pc = "c_task"
        /\ tool[t].target \in alive /\ UNCHANGED <<env, kernelVars>>
        /\ tool' = [tool EXCEPT ![t].pc = "c_enter", ![t].task = tool[t].target]
    BY <1>1 DEF ChildrenStart
  <2>2. tool[t].target \in Pids /\ tool[t].target \in Roots
    BY <2>1 DEF Types, KernelSound, Roots
  <2>3. tool[t].frames = <<>>
    BY <2>1 DEF Types, ToolType, Fresh
  <2>4. Becomes(t, "c_enter", tool[t].target, tool[t].target, <<>>)
    BY <1>a, <1>c, <2>1, <2>2, <2>3, PcTaskSet
  <2>5. Standing(<<>>) /\ Nested(<<>>)
    BY DEF Standing, Nested
  <2>6. Depth[tool[t].target] > Len(<<>>)
    BY <2>2, DepthIs
  <2> QED
    BY <2>1, <2>4, <2>5, <2>6, WalkBecomes
<1>2. CASE Enter(t)
  <2>1. /\ tool[t].pc = "c_enter" /\ tool[t].task \in alive
        /\ UNCHANGED <<env, kernelVars>>
        /\ \/ tool' = [tool EXCEPT ![t] = Returned(t, tool[t].frames)]
           \/ Becomes(t, "c_loop", tool[t].target, tool[t].task,
                      <<FirstKid(tool[t].task)>> \o tool[t].frames)
    BY <1>2, EnterIs
  <2>3. /\ Nested(tool[t].frames)
        /\ Free(tool[t].frames, 1) => Depth[tool[t].task] > Len(tool[t].frames)
    BY <2>1 DEF WalkSound
  <2>4. CASE tool' = [tool EXCEPT ![t] = Returned(t, tool[t].frames)]
    BY <1>a, <1>b, <2>1, <2>3, <2>4, ReturnWalk
  <2>5. CASE Becomes(t, "c_loop", tool[t].target, tool[t].task,
                     <<FirstKid(tool[t].task)>> \o tool[t].frames)
    <3>1. /\ Standing(<<FirstKid(tool[t].task)>> \o tool[t].frames)
          /\ Nested(<<FirstKid(tool[t].task)>> \o tool[t].frames)
      BY <1>a, <1>b, <2>1, <2>3, LoopsEnter
    <3> QED
      BY <2>1, <2>5, <3>1, WalkBecomes
  <2> QED
    BY <2>1, <2>4, <2>5
<1>3. CASE NextChild(t)
  <2>1. tool[t].pc = "c_loop" /\ UNCHANGED <<env, kernelVars>>
    BY <1>3 DEF NextChild
  <2>2. PICK x : x = tool[t].frames[1]
    OBVIOUS
  <2>3. PICK p : p = PidAt(x)
    OBVIOUS
  <2>4. tool[t].frames # <<>> /\ Nested(tool[t].frames)
    BY <1>d, <2>1 DEF Types, ToolType
  <2>5. x \in Elements /\ 1 \in DOMAIN tool[t].frames
        /\ Len(tool[t].frames) \in Nat
    BY <1>a, <2>2, <2>4, FramesAre
  <2>6. /\ ~Gone(x)
        /\ Owner(x) \in Pids
        /\ Free(tool[t].frames, 2) =>
              Depth[Owner(x)] > Len(tool[t].frames) - 1
    BY <1>b, <2>2, <2>4, <2>5 DEF Standing, Nested
  <2>7. CASE Listed(p)
    <3>1. tool' = [tool EXCEPT ![t].pc = "c_enter", ![t].task = p]
      BY <1>3, <2>2, <2>3, <2>7 DEF NextChild
    <3>2. p \in Pids /\ p \in Roots
      BY <1>b, <2>7, InTableIs DEF Listed, Roots
    <3>3. Becomes(t, "c_enter", tool[t].target, p, tool[t].frames)
      BY <1>a, <1>c, <3>1, <3>2, PcTaskSet
    <3>4. ASSUME Free(tool[t].frames, 1)
          PROVE  p \in alive /\ Depth[p] > Len(tool[t].frames)
      <4>1. ~Stray(x) /\ Free(tool[t].frames, 2)
        BY <2>2, <2>5, <3>4 DEF Free
      <4>2. ~(x < 0) /\ p = x
        BY <2>3, <2>5, <2>7, <4>1, PidAtIs DEF Stray, Types
      <4>3. Owner(x) = parent[p] /\ parent[p] \in Pids /\ 0 \notin Pids
        BY <1>b, <2>6, <3>2, <4>2, Numbers, OwnerIs
      <4>4. Depth[parent[p]] < Depth[p]
        BY <1>b, <3>2, <4>3 DEF KernelSound
      <4>5. Depth[parent[p]] \in Int /\ Depth[p] \in Int
        BY <3>2, <4>3, DepthIs
      <4>6. Depth[parent[p]] > Len(tool[t].frames) - 1
        BY <2>6, <4>1, <4>3
      <4>7. p \in alive
        BY <1>b, <2>5, <2>6, <4>2, GoneIs
      <4> QED
        BY <2>5, <4>4, <4>5, <4>6, <4>7
    <3> QED
      BY <1>b, <2>1, <2>4, <3>3, <3>4, WalkBecomes
  <2>8. CASE ~Listed(p)
    <3>1. tool' = [tool EXCEPT ![t] = Returned(t, Tail(tool[t].frames))]
      BY <1>3, <2>2, <2>3, <2>8 DEF NextChild
    <3>2. PICK rest : rest = Tail(tool[t].frames)
      OBVIOUS
    <3>3. rest \in Seq(Elements)
      BY <1>a, <2>4, <3>2, FramesAre
    <3>4. Standing(rest) /\ Nested(rest)
      BY <1>a, <1>b, <2>4, <3>2, LoopsTail
    <3> QED
      BY <2>1, <3>1, <3>2, <3>3, <3>4, ReturnWalk
  <2> QED
    BY <2>7, <2>8
<1> QED
  BY <1>1, <1>2, <1>3 DEF Children

\* The steps before and after a walk.
LEMMA RequestWalk ==
    ASSUME Types, NEW t \in Tools, WalkSound(t),
           \/ SetPid(t) \/ Begin(t) \/ Option(t) \/ Send(t) \/ Receive(t)
           \/ Invalid(t) \/ FindPid(t)
    PROVE  WalkSound(t)'
<1>a. /\ tool \in [Tools -> ToolRecs] /\ tool[t].pc \in Pcs
      /\ tool[t].target \in Nat /\ tool[t].task \in Roots
      /\ tool[t].frames \in Seq(Elements)
  BY ToolIs DEF Types
<1>b. Standing(tool[t].frames)
  BY DEF WalkSound
<1>c. ASSUME NEW pc \in {"begin", "wait", "send", "p_start", "c_start",
                        "s_start"},
             Goto(t, pc), UNCHANGED <<env, kernelVars>>
      PROVE  WalkSound(t)'
  <2>1. pc \in Pcs
    BY DEF Pcs
  <2>2. Becomes(t, pc, tool[t].target, tool[t].task, tool[t].frames)
    BY <1>a, <1>c, <2>1, PcSet DEF Goto
  <2> QED
    BY <1>b, <1>c, <2>2, WalkBecomes
<1>1. CASE SetPid(t)
  BY <1>1, <1>c DEF SetPid
<1>2. CASE Begin(t)
  <2>1. /\ tool' = [tool EXCEPT ![t].target = str.target, ![t].pc = "option"]
        /\ UNCHANGED <<env, kernelVars>>
    BY <1>2 DEF Begin
  <2>2. str.target \in Nat /\ "option" \in Pcs
    BY DEF Types, GlobalsType, Pcs
  <2>3. Becomes(t, "option", str.target, tool[t].task, tool[t].frames)
    BY <1>a, <2>1, <2>2, TargetPcSet
  <2> QED
    BY <1>b, <2>1, <2>3, WalkBecomes
<1>3. CASE Option(t)
  <2>1. /\ tool[t].pc = "option" /\ Goto(t, Start(str.opt))
        /\ UNCHANGED <<env, kernelVars>>
    BY <1>3 DEF Option
  <2>2. str.opt \in Opts
    BY <2>1 DEF Types, ToolType
  <2>3. PICK pc : pc = Start(str.opt)
    OBVIOUS
  <2>4. pc \in {"p_start", "c_start", "s_start"}
    BY <2>2, <2>3 DEF Start, Opts
  <2> QED
    BY <1>c, <2>1, <2>3, <2>4
<1>4. CASE Send(t)
  BY <1>4, <1>c DEF Send
<1>5. CASE Receive(t)
  <2>1. tool' = [tool EXCEPT ![t] = [Idle EXCEPT !.pc = "done"]]
    BY <1>5 DEF Receive
  <2>2. tool'[t].frames = <<>> /\ tool'[t].pc = "done"
    BY <1>a, <2>1 DEF Idle
  <2> QED
    BY <2>2, PlainWalk
<1>6. CASE Invalid(t)
  BY <1>6, <1>c DEF Invalid
<1>7. CASE FindPid(t)
  <2>1. /\ Goto(t, IF tool[t].pc = "p_start" THEN "p_task" ELSE "c_task")
        /\ InTable(tool[t].target) /\ UNCHANGED <<env, kernelVars>>
    BY <1>7 DEF FindPid
  <2>2. PICK pc : pc = IF tool[t].pc = "p_start" THEN "p_task" ELSE "c_task"
    OBVIOUS
  <2>3. pc \in {"p_task", "c_task"} /\ pc \in Pcs /\ Goto(t, pc)
    BY <2>1, <2>2 DEF Pcs
  <2>4. Becomes(t, pc, tool[t].target, tool[t].task, tool[t].frames)
    BY <1>a, <2>3, PcSet DEF Goto
  <2> QED
    BY <1>b, <2>1, <2>3, <2>4, WalkBecomes
<1> QED
  BY <1>1, <1>2, <1>3, <1>4, <1>5, <1>6, <1>7

\* A step that fails.
Fails(t) == \/ LookupFails(t) \/ ReadFreed(t) \/ PutLineFails(t)
            \/ EnterFails(t) \/ UpFails(t)

\* A walk that nobody disturbs fails only on a number that names a group, or
\* when it has taken a list head for a process.
LEMMA FailsExplained ==
    ASSUME Types, NEW t \in Tools, WalkSound(t), Fails(t)
    PROVE  tool[t].target \in groups \/ Strays(t)
<1> SUFFICES ASSUME ~Strays(t) PROVE tool[t].target \in groups
  OBVIOUS
<1>a. /\ tool[t].task \in Roots
      /\ tool[t].frames \in Seq(Elements)
  BY ToolIs DEF Types
<1>b. KernelSound /\ Standing(tool[t].frames)
  BY DEF WalkSound, Types
<1>c. Free(tool[t].frames, 1)
  <2>1. DOMAIN tool[t].frames = 1 .. Len(tool[t].frames)
    BY <1>a
  <2> QED
    BY <2>1 DEF Free, Strays
<1>1. ASSUME tool[t].pc \in {"p_up", "c_enter"}
      PROVE  tool[t].task \in alive
  BY <1>1, <1>c DEF WalkSound
<1>2. CASE LookupFails(t)
  <2>1. CASE tool[t].pc \in {"p_task", "c_task"} /\ tool[t].target \notin alive
    BY <2>1 DEF WalkSound, InTable
  <2>2. CASE tool[t].pc = "c_enter" /\ tool[t].task \notin alive
    BY <1>1, <2>2
  <2> QED
    BY <1>2, <2>1, <2>2 DEF LookupFails
<1>3. CASE ReadFreed(t)
  <2>1. PICK x \in Reads(t) : Gone(x)
    BY <1>3 DEF ReadFreed
  <2>2. \A k \in DOMAIN tool[t].frames : ~Gone(tool[t].frames[k])
    BY <1>b DEF Standing
  <2>3. CASE tool[t].pc = "p_up"
    <3>1. x = tool[t].task
      BY <2>1, <2>3 DEF Reads
    <3> QED
      BY <1>1, <1>b, <2>1, <2>3, <3>1, GoneIs
  <2>4. CASE tool[t].pc = "s_loop"
    <3>1. x = tool[t].target \/ x = tool[t].frames[1]
      BY <2>1, <2>4 DEF Reads
    <3>2. tool[t].target \in alive /\ 1 \in DOMAIN tool[t].frames
      BY <1>a, <2>4, FramesAre DEF Types, ToolType, WalkSound
    <3> QED
      BY <1>b, <2>1, <2>2, <3>1, <3>2, GoneIs
  <2>5. CASE tool[t].pc \in {"c_enter", "c_loop"}
    <3>1. \E k \in DOMAIN tool[t].frames : x = tool[t].frames[k]
      BY <2>1, <2>5 DEF Reads
    <3> QED
      BY <2>1, <2>2, <3>1
  <2>6. CASE tool[t].pc \notin {"p_up", "s_loop", "c_enter", "c_loop"}
    BY <2>1, <2>6 DEF Reads
  <2> QED
    BY <2>3, <2>4, <2>5, <2>6
<1>4. CASE PutLineFails(t)
  <2>1. tool[t].pc = "p_line" /\ ~LastLine /\ Held \notin alive
    BY <1>4 DEF PutLineFails
  <2>2. j # 0 /\ j <= parentNum + 1 /\ HeldAlive(parentNum)
    BY <2>1 DEF Types, ToolType, WalkSound
  <2>3. /\ j \in Nat /\ parentNum \in 0 .. MaxDepth /\ MaxDepth \in Nat
        /\ DOMAIN parent_pid_holder = 0 .. MaxDepth - 1
    BY DepthAssumption DEF Types, GlobalsType
  <2>4. parentNum - j \in 0 .. parentNum - 1 /\ parentNum - j \in 0 .. MaxDepth - 1
    BY <2>1, <2>2, <2>3 DEF LastLine
  <2>5. Held = parent_pid_holder[parentNum - j]
    BY <2>3, <2>4 DEF Held
  <2> QED
    BY <2>1, <2>2, <2>4, <2>5 DEF HeldAlive
<1>5. CASE EnterFails(t)
  <2>1. /\ tool[t].pc = "c_enter" /\ tool[t].task \in alive
        /\ Len(tool[t].frames) = MaxDepth
    BY <1>5 DEF EnterFails
  <2>2. Depth[tool[t].task] > Len(tool[t].frames)
    BY <1>c, <2>1 DEF WalkSound
  <2>3. tool[t].task \in Pids
    BY <2>1 DEF Types, KernelSound
  <2>4. Depth[tool[t].task] \in 1 .. MaxDepth /\ MaxDepth \in Nat
    BY <2>3, DepthIs
  <2> QED
    BY <2>1, <2>2, <2>4
<1>6. CASE UpFails(t)
  <2>1. tool[t].pc = "p_up" /\ i = MaxDepth
    BY <1>6 DEF UpFails
  <2>2. tool[t].task \in Pids /\ i + Depth[tool[t].task] <= MaxDepth
    BY <2>1 DEF WalkSound, Types, KernelSound
  <2>3. Depth[tool[t].task] \in 1 .. MaxDepth /\ MaxDepth \in Nat
    BY <2>2, DepthIs
  <2> QED
    BY <2>1, <2>2, <2>3
<1> QED
  BY <1>2, <1>3, <1>4, <1>5, <1>6 DEF Fails

\* What a step of a tool leaves alone.
LEMMA StepFrame ==
    ASSUME Types, NEW t \in Tools, Step(t)
    PROVE  /\ UNCHANGED <<env, kernelVars, solo, still, settled>>
           /\ \A u \in Tools : u # t => tool'[u] = tool[u]
           /\ Handling(t) \/ (UNCHANGED globalVars /\ ~Handling(t)')
           /\ \/ UNCHANGED fault
              \/ Fails(t) /\ Oops(t) /\ Handling(t)
<1>a. tool \in [Tools -> ToolRecs]
  BY ToolIs DEF Types
<1>1. CASE \/ SetPid(t) \/ Begin(t) \/ Option(t) \/ Send(t) \/ Invalid(t)
         \/ FindPid(t)
  BY <1>a, <1>1 DEF SetPid, Begin, Option, Send, Invalid, FindPid, Goto, Handling,
                    historyVars
<1>2. CASE Receive(t)
  BY <1>a, <1>2 DEF Receive, Handling, Idle
<1>3. CASE Fails(t)
  <2>1. Oops(t) /\ Handling(t)
    <3>1. tool[t].pc \notin {"off", "wait", "done"}
      BY <1>3 DEF Fails, LookupFails, ReadFreed, Reads, PutLineFails,
                  EnterFails, UpFails
    <3> QED
      BY <1>3, <3>1 DEF Fails, LookupFails, ReadFreed, PutLineFails,
                        EnterFails, UpFails, Handling
  <2> QED
    BY <1>3, <2>1 DEF Oops, historyVars
<1>4. CASE ParentStart(t) \/ Up(t) \/ PutTabs(t) \/ PutLine(t)
  BY <1>a, <1>4 DEF ParentStart, Up, PutTabs, PutLine, Goto, Handling, historyVars
<1>5. CASE SiblingStart(t) \/ NextSibling(t)
  BY <1>a, <1>5 DEF SiblingStart, NextSibling, Goto, Handling, historyVars
<1>6. CASE ChildrenStart(t) \/ Enter(t) \/ NextChild(t)
  BY <1>a, <1>6 DEF ChildrenStart, Enter, NextChild, Handling, historyVars
<1> QED
  BY <1>1, <1>2, <1>3, <1>4, <1>5, <1>6 DEF Step, Parent, Sibling, Children, Fails

\* Each step of a tool keeps its walk sound.
LEMMA StepWalk ==
    ASSUME Types, NEW t \in Tools, WalkSound(t), Step(t)
    PROVE  WalkSound(t)'
<1>1. CASE Fails(t)
  <2>1. UNCHANGED <<env, kernelVars, globalVars, tool>>
    BY <1>1 DEF Fails, LookupFails, ReadFreed, PutLineFails, EnterFails,
                UpFails, Oops
  <2> QED
    BY <2>1, WalkKept
<1>2. CASE ~Fails(t)
  <2>1. \/ SetPid(t) \/ Begin(t) \/ Option(t) \/ Send(t) \/ Receive(t)
        \/ Invalid(t) \/ FindPid(t)
        \/ Parent(t) /\ ~PutLineFails(t) /\ ~UpFails(t)
        \/ Sibling(t)
        \/ Children(t) /\ ~EnterFails(t)
    BY <1>2 DEF Step, Fails
  <2> QED
    BY <2>1, RequestWalk, ParentWalk, SiblingWalk, ChildrenWalk
<1> QED
  BY <1>1, <1>2

\* The program starts with the invariant.
LEMMA InvInit == Init => Inv
<1> SUFFICES ASSUME Init PROVE Inv
  OBVIOUS
<1>1. Types
  BY TypesInit
<1>2. \A t \in Tools : ~Handling(t)
  BY DEF Init, Idle, Handling
<1>3. fault = 0
  BY DEF Init
<1> QED
  BY <1>1, <1>2, <1>3 DEF Inv, NoneAlone, FaultExplained

\* Each step of the program keeps the invariant.
LEMMA InvStep ==
    ASSUME Inv, [Next]_vars
    PROVE  Inv'
<1>1. Types /\ Types'
  BY TypesStep DEF Inv
<1>2. /\ \A u, v \in Tools : u # v /\ Handling(u) /\ Handling(v) => ~solo[u]
      /\ \A u \in Tools : Handling(u) /\ solo[u] /\ still[u] => WalkSound(u)
  BY DEF Inv, NoneAlone
<1>a. tool \in [Tools -> ToolRecs]
  BY <1>1 DEF Types, ToolType
<1>3. ASSUME fault = 0, NEW t \in Tools, Step(t)
      PROVE  Inv'
  <2>1. /\ UNCHANGED <<env, kernelVars, solo, still, settled>>
        /\ \A u \in Tools : u # t => tool'[u] = tool[u]
        /\ Handling(t) \/ (UNCHANGED globalVars /\ ~Handling(t)')
        /\ UNCHANGED fault \/ (Fails(t) /\ Oops(t) /\ Handling(t))
    BY <1>1, <1>3, StepFrame
  <2>2. \A u \in Tools : Handling(u)' => Handling(u)
    BY <2>1 DEF Handling
  <2>4. NoneAlone'
    BY <1>2, <2>1, <2>2 DEF NoneAlone
  <2>5. ASSUME NEW u \in Tools, Handling(u)', solo'[u], still'[u]
        PROVE  WalkSound(u)'
    <3>1. Handling(u) /\ WalkSound(u) /\ solo[u]
      BY <1>2, <2>1, <2>2, <2>5
    <3>2. CASE u = t
      BY <1>1, <1>3, <3>1, <3>2, StepWalk
    <3>3. CASE u # t
      <4>1. ~Handling(t)
        BY <1>2, <3>1, <3>3
      <4>2. UNCHANGED <<env, kernelVars, globalVars>> /\ tool'[u] = tool[u]
        BY <2>1, <3>3, <4>1
      <4> QED
        BY <3>1, <4>2, WalkKept
    <3> QED
      BY <3>2, <3>3
  <2>6. FaultExplained'
    <3>1. CASE UNCHANGED fault
      BY <1>3, <3>1 DEF FaultExplained
    <3>2. CASE Fails(t) /\ Oops(t) /\ Handling(t)
      <4>1. /\ fault' = t /\ UNCHANGED <<env, tool, solo, still>>
            /\ groups' = groups /\ alive' = alive
        BY <2>1, <3>2 DEF Oops, kernelVars
      <4>2. solo[t] /\ still[t] => tool[t].target \in groups \/ Strays(t)
        BY <1>1, <1>2, <3>2, FailsExplained
      <4>3. Strays(t) => Strays(t)'
        BY <4>1 DEF Strays, Stray, Listed, InTable, PidAt
      <4>4. tool'[t] = tool[t] /\ solo'[t] = solo[t] /\ still'[t] = still[t]
        BY <4>1
      <4>5. \/ ~solo'[t] \/ ~still'[t] \/ tool'[t].target \in groups'
            \/ Strays(t)'
        BY <4>1, <4>2, <4>3, <4>4
      <4> QED
        BY <4>1, <4>5 DEF FaultExplained, Strays
    <3> QED
      BY <2>1, <3>1, <3>2
  <2> QED
    BY <1>1, <2>4, <2>5, <2>6 DEF Inv
<1>4. ASSUME fault = 0, NEW t \in Tools, NEW arg \in env.args, Ask(t, arg)
      PROVE  Inv'
  <2>1. /\ tool[t].pc = "off" /\ Goto(t, "pid")
        /\ UNCHANGED <<env, kernelVars, still, fault>>
        /\ solo' = [u \in Tools |-> solo[u] /\
              ({v \in Tools : Handling(v)} # {} =>
                  u \notin {v \in Tools : Handling(v)} \cup {t})]
    BY <1>4 DEF Ask
  <2>2. /\ tool'[t].pc = "pid" /\ tool'[t].frames = tool[t].frames
        /\ \A u \in Tools : u # t => tool'[u] = tool[u]
    BY <1>a, <2>1 DEF Goto, ToolRecs
  <2>3. \A u \in Tools : u # t => (Handling(u)' <=> Handling(u))
    BY <2>2 DEF Handling
  <2>4. ASSUME NEW u \in Tools, NEW v \in Tools, u # v,
               Handling(u)', Handling(v)'
        PROVE  ~solo'[u]
    <3>1. CASE u = t
      BY <2>1, <2>3, <2>4, <3>1
    <3>2. CASE v = t
      BY <2>1, <2>3, <2>4, <3>2
    <3>3. CASE u # t /\ v # t
      BY <1>2, <2>1, <2>3, <2>4, <3>3
    <3> QED
      BY <3>1, <3>2, <3>3
  <2>5. NoneAlone'
    BY <2>4 DEF NoneAlone
  <2>6. ASSUME NEW u \in Tools, Handling(u)', solo'[u], still'[u]
        PROVE  WalkSound(u)'
    <3>2. u = t
      BY <2>1, <2>3, <2>6
    <3>3. tool[t].frames = <<>>
      BY <1>1, <2>1 DEF Types, ToolType, Fresh
    <3> QED
      BY <2>2, <3>2, <3>3, PlainWalk
  <2>7. FaultExplained'
    BY <1>4, <2>1 DEF FaultExplained
  <2> QED
    BY <1>1, <2>5, <2>6, <2>7 DEF Inv
<1>5. ASSUME fault = 0, NEW t \in Tools, NEW arg \in env.args, Refuse(t, arg)
      PROVE  Inv'
  <2>1. /\ Goto(t, "done")
        /\ UNCHANGED <<env, kernelVars, globalVars, solo, still, settled, fault>>
    BY <1>5 DEF Refuse, historyVars
  <2>2. /\ tool'[t].pc = "done"
        /\ \A u \in Tools : u # t => tool'[u] = tool[u]
    BY <1>a, <2>1 DEF Goto, ToolRecs
  <2>3. \A u \in Tools : Handling(u)' => Handling(u) /\ u # t
    BY <2>2 DEF Handling
  <2>4. NoneAlone'
    BY <1>2, <2>1, <2>3 DEF NoneAlone
  <2>5. ASSUME NEW u \in Tools, Handling(u)', solo'[u], still'[u]
        PROVE  WalkSound(u)'
    <3>1. Handling(u) /\ u # t /\ tool'[u] = tool[u]
      BY <2>2, <2>3, <2>5
    <3>3. WalkSound(u)
      BY <1>2, <2>1, <2>5, <3>1
    <3> QED
      BY <2>1, <3>1, <3>3, WalkKept
  <2>6. FaultExplained'
    BY <1>5, <2>1 DEF FaultExplained
  <2> QED
    BY <1>1, <2>4, <2>5, <2>6 DEF Inv
<1>6. ASSUME fault = 0, NEW p \in Pids, Exit(p) \/ Reap(p)
      PROVE  Inv'
  <2>1. /\ still' = [t \in Tools |-> still[t] /\ ~Handling(t)]
        /\ UNCHANGED <<tool, solo, fault>>
    BY <1>6 DEF Exit, Reap, Exits
  <2>2. \A u \in Tools : Handling(u)' <=> Handling(u)
    BY <2>1 DEF Handling
  <2>3. NoneAlone'
    BY <1>2, <2>1, <2>2 DEF NoneAlone
  <2>4. \A u \in Tools : ~(Handling(u)' /\ still'[u])
    BY <2>1, <2>2
  <2>5. FaultExplained'
    BY <1>6, <2>1 DEF FaultExplained
  <2> QED
    BY <1>1, <2>3, <2>4, <2>5 DEF Inv
<1>7. CASE UNCHANGED vars
  <2>1. /\ UNCHANGED <<env, kernelVars, globalVars, tool, solo, still, fault>>
        /\ groups' = groups /\ alive' = alive
    BY <1>7 DEF vars, historyVars, kernelVars
  <2>2. \A u \in Tools : Handling(u)' <=> Handling(u)
    BY <2>1 DEF Handling
  <2>3. NoneAlone'
    BY <1>2, <2>1, <2>2 DEF NoneAlone
  <2>4. \A u \in Tools :
           Handling(u)' /\ solo'[u] /\ still'[u] => WalkSound(u)'
    BY <1>2, <2>1, <2>2, WalkKept
  <2>5. FaultExplained'
    BY <2>1 DEF Inv, FaultExplained, Strays, Stray, Listed, InTable, PidAt
  <2> QED
    BY <1>1, <2>3, <2>4, <2>5 DEF Inv
<1> QED
  BY <1>3, <1>4, <1>5, <1>6, <1>7 DEF Next

\* The kernel fails only in a request that met another one or an exit, that
\* asked for a number that has outlived its process, or whose walk has taken a
\* list head for a process, whatever the tree, the requests and the words that
\* list heads are read as.  So a request that is alone, while no process exits,
\* never writes past the end of the holder, and fills the kernel's stack only
\* if it has taken a list head for a process (ksimple_pstree.h:59-66, 71-77,
\* 92, 155, 160-164).
THEOREM FaultsExplained == Spec => []FaultExplained
<1>1. Init => Inv
  BY InvInit
<1>2. Inv /\ [Next]_vars => Inv'
  BY InvStep
<1>3. Inv => FaultExplained
  BY DEF Inv
<1> QED
  BY <1>1, <1>2, <1>3, PTL DEF Spec

=============================================================================
