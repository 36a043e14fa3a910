--------------------------- MODULE HwMallocLists ---------------------------
(***************************************************************************)
(* hw_malloc.c with its lists: every chunk and every mmap area begins with *)
(* a header that links it to its neighbours in a bin, in allocated_heap or *)
(* in mmap_alloc_list.  HwMalloc has sets in their place.                  *)
(*                                                                         *)
(* The header takes 32 bytes and a block begins HDR = 24 bytes into it: at *)
(* its field next.  What the caller writes into its block lands there.     *)
(*                                                                         *)
(* Definitions called Bad... are faulty variants of the one that follows   *)
(* them: each breaks one of the properties.                                *)
(***************************************************************************)
EXTENDS Integers, FiniteSets, SequencesExt

CONSTANTS
    NBins, HDR, Bytes, Requests, MmapAddrs, SizeMod, FieldMod,  \* as in HwMalloc
    Callers     \* see caller

VARIABLES
    first_time, merge_index, mapped, held, held_mmap, fault,    \* as in HwMalloc
    bin, allocated_heap, mmap_alloc_list,  \* the heads of the lists
    hdr,        \* hdr[a]: curr_chunk_size, prev and next of the header at a,
                \* where a chunk or an area begins
    caller,     \* requests: what it asks for; writes: bounds the headers it
                \* writes into
    written     \* history: the headers it has written into

heapVars == <<first_time, bin, allocated_heap, merge_index, held>>
mmapVars == <<mmap_alloc_list, mapped, held_mmap>>
ownVars  == <<caller, written>>
vars     == <<heapVars, mmapVars, ownVars, hdr, fault>>

NULL == -1      \* offset 0 is a chunk
WILD == -2      \* a next that is the caller's data and no address

\* The nodes a walk from a comes by: no more than there are headers.
Walk(h, a) ==
    LET from[n \in 0 .. Cardinality(DOMAIN h)] ==
            [b \in Int |-> IF n = 0 \/ b \notin DOMAIN h THEN <<>>
                           ELSE <<b>> \o from[n - 1][h[b].next]]
    IN  from[Cardinality(DOMAIN h)][a]

InList(h, a) == ToSet(Walk(h, a))

\* Until the caller writes, this is HwMalloc with the nodes of each list as a
\* set.
NoWrites(now, atStart) == IF caller.writes = 0 THEN now ELSE atStart
Nodes(a) == {[addr |-> n, size |-> hdr[n].size] : n \in InList(hdr, a)}
BinNodes == [i \in DOMAIN bin |-> NoWrites(Nodes(bin[i]), {})]

Sets == INSTANCE HwMalloc WITH
    first_time      <- NoWrites(first_time, FALSE),
    bin             <- BinNodes,
    allocated_heap  <- NoWrites(Nodes(allocated_heap), {}),
    merge_index     <- NoWrites(merge_index, -1),
    mmap_alloc_list <- NoWrites(Nodes(mmap_alloc_list), {}),
    mapped          <- NoWrites(mapped, {}),
    held            <- NoWrites(held, {}),
    held_mmap       <- NoWrites(held_mmap, {}),
    fault           <- NoWrites(fault, "none")

Bins == Sets!Bins

ASSUME SizesAssumption == Sets!SizesAssumption
ASSUME RequestAssumption == Sets!RequestAssumption
ASSUME CallersAssumption ==
    Callers \subseteq [requests : SUBSET Requests, writes : Nat]
ASSUME ApartAssumption == \A a \in MmapAddrs : a >= Sets!HEAP_INITIAL

-----------------------------------------------------------------------------
(* The list operations: functions of a head and the headers                 *)

\* wild: a pointer that is none was followed; size: what deleteNode() returns
List(head, h) == [head |-> head, hdr |-> h, wild |-> FALSE, size |-> 0]
Wild(head, h) == [head |-> head, hdr |-> h, wild |-> TRUE, size |-> 0]

NewNode(h, a, size) ==
    [b \in DOMAIN h \cup {a} |->
        IF b = a THEN [size |-> size, prev |-> NULL, next |-> NULL] ELSE h[b]]

\* No chunk begins at a any more, or the area is unmapped.
Without(h, a) == [b \in DOMAIN h \ {a} |-> h[b]]

SetPrev(h, a, p) == IF a = NULL THEN h ELSE [h EXCEPT ![a].prev = p]
SetNext(h, a, n) == [h EXCEPT ![a].next = n]

\* The place of the first node of the list s at which a loop stops, or 0.
Place(s, stops) == SelectInSeq(s, LAMBDA a : a \in stops)

\* insertSorted() and mmap_insertSorted(), which differ in the order: the new
\* node goes before the head, or behind the first node that is the last or
\* has none of the smaller ones behind it.
Insert(head, node, h, goesFirst, smaller) ==
    IF head = NULL THEN List(node, h)
    ELSE IF goesFirst
    THEN List(node, SetPrev(SetNext(h, node, head), head, node))
    ELSE LET s    == Walk(h, head)
             curr == s[Place(s, {a \in ToSet(s) : h[a].next \notin smaller})]
             next == h[curr].next
         IN  IF next = WILD THEN Wild(head, h)
             ELSE List(head, SetPrev(SetPrev(SetNext(SetNext(h, node, next),
                                        curr, node), node, curr), next, node))

InsertSorted(head, node, h) ==
    Insert(head, node, h, node < head, {a \in DOMAIN h : a < node})
BadMmapInsertSorted(head, node, h) == InsertSorted(head, node, h)
MmapInsertSorted(head, node, h) ==
    Insert(head, node, h, h[node].size < h[head].size,
           {a \in DOMAIN h : h[a].size < h[node].size})

BadDeleteNode(head, del, h) ==
    IF head = NULL \/ del \notin InList(h, head) THEN List(head, h)
    ELSE [List(IF del = head THEN NULL ELSE head, h) EXCEPT !.size = h[del].size]
DeleteNode(head, del, h) ==
    LET s    == Walk(h, head)
        k    == Place(s, {del})
        next == h[del].next
        Size(list) == [list EXCEPT !.size = h[del].size]
    IN  IF head = NULL THEN List(head, h)
        ELSE IF k = 0
        THEN IF h[Last(s)].next = WILD THEN Wild(head, h) ELSE List(head, h)
        ELSE IF next = WILD THEN Wild(head, h)
        ELSE IF k = 1 THEN Size(List(next, SetPrev(h, next, NULL)))
        ELSE Size(List(head, SetPrev(SetNext(SetPrev(SetNext(h, s[k - 1], next),
                                next, s[k - 1]), del, NULL), del, NULL)))

\* A node is taken for the only one if it has no neighbours.
BadPopNode(head, h) ==
    IF h[head].next = NULL \/ h[head].prev = NULL THEN List(NULL, h)
    ELSE Wild(head, h)
PopNode(head, h) ==
    IF h[head].next = NULL /\ h[head].prev = NULL THEN List(NULL, h)
    ELSE IF h[head].next \in {NULL, WILD} THEN Wild(head, h)
    ELSE LET next == h[head].next
         IN  List(next, SetNext(SetPrev(SetPrev(h, next, NULL), head, NULL),
                                head, NULL))

\* The bins b and the headers h once a new node at a is in bin i.
InBin(m, i, a, size) ==
    LET r == InsertSorted(m.bin[i], a, NewNode(m.hdr, a, size))
    IN  [bin |-> [m.bin EXCEPT ![i] = r.head], hdr |-> r.hdr]

\* The loops of split_to_index() and split_to_allocate(): from bin s down to
\* bin i, the chunk that starts behind as many bytes as it has.
BadSplit(m, root, s, i) ==
    LET cut[n \in 0 .. s - i + 1] ==
            IF n = 0 THEN m
            ELSE LET k == s + 1 - n
                 IN  InBin(cut[n - 1], k, root + Bytes[i], Bytes[k])
    IN  cut[s - i + 1]
Split(m, root, s, i) ==
    LET cut[n \in 0 .. s - i + 1] ==
            IF n = 0 THEN m
            ELSE LET k == s + 1 - n
                 IN  InBin(cut[n - 1], k, root + Bytes[k], Bytes[k])
    IN  cut[s - i + 1]

-----------------------------------------------------------------------------

Init ==
    /\ first_time = FALSE
    /\ bin = [i \in 0 .. NBins - 1 |-> NULL]
    /\ allocated_heap = NULL
    /\ mmap_alloc_list = NULL
    /\ hdr = <<>>
    /\ merge_index = Sets!None
    /\ mapped = {}
    /\ held = {}
    /\ held_mmap = {}
    /\ fault = "none"
    /\ caller \in Callers
    /\ written = {}

Ready == fault = "none" /\ merge_index = Sets!None

Crash(why) == /\ fault' = why
              /\ UNCHANGED <<heapVars, mmapVars, ownVars, hdr>>

Give(addr, bytes) ==
    held' = held \cup {[ptr |-> addr + HDR, bytes |-> bytes]}

-----------------------------------------------------------------------------
(* hw_malloc()                                                              *)

MmapAllocate(bytes) ==
    /\ Ready
    /\ Sets!RequireByte(bytes) > Sets!MMAP_THRESHOLD
    /\ \E a \in {b \in MmapAddrs : \A m \in mapped : m.addr # b} :
          LET len  == Sets!RequireByte(bytes)
              list == MmapInsertSorted(mmap_alloc_list, a,
                                       NewNode(hdr, a, Sets!StoredSize(len)))
          IN  IF list.wild THEN Crash("wild pointer")
              ELSE /\ mmap_alloc_list' = list.head
                   /\ hdr' = list.hdr
                   /\ mapped' = mapped \cup {[addr |-> a, len |-> len]}
                   /\ held_mmap' = held_mmap \cup {a + HDR}
                   /\ UNCHANGED <<heapVars, ownVars, fault>>

MmapFails(bytes) ==
    /\ Ready
    /\ Sets!RequireByte(bytes) > Sets!MMAP_THRESHOLD
    /\ Crash("MAP_FAILED")

\* normal_allocate() on bins and headers that were just cut, or are as before
NormalAllocate(m, i, bytes) ==
    LET popped == PopNode(m.bin[i], m.hdr)
        used   == InsertSorted(allocated_heap, m.bin[i], popped.hdr)
    IN  IF popped.wild \/ used.wild THEN Crash("wild pointer")
        ELSE /\ bin' = [m.bin EXCEPT ![i] = popped.head]
             /\ allocated_heap' = used.head
             /\ hdr' = used.hdr
             /\ Give(m.bin[i], bytes)
             /\ first_time' = TRUE
             /\ mmap_alloc_list' = IF first_time THEN mmap_alloc_list ELSE NULL
             /\ UNCHANGED <<merge_index, mapped, held_mmap, ownVars, fault>>

\* split_to_allocate(): bin s has the lowest head
SplitToAllocate(s, i, bytes) ==
    LET theRoot == bin[s]
        deleted == DeleteNode(bin[s], theRoot, hdr)
        m       == Split([bin |-> [bin EXCEPT ![s] = deleted.head],
                          hdr |-> deleted.hdr], theRoot, s - 1, i)
        used    == InsertSorted(allocated_heap, theRoot,
                                NewNode(m.hdr, theRoot, Bytes[i]))
    IN  IF deleted.wild \/ used.wild THEN Crash("wild pointer")
        ELSE /\ bin' = m.bin
             /\ allocated_heap' = used.head
             /\ hdr' = used.hdr
             /\ Give(theRoot, bytes)
             /\ UNCHANGED <<first_time, merge_index, mmapVars, ownVars, fault>>

HasBin(bytes, i) == Ready /\ i \in Bins /\ Sets!IsProperBin(i, Sets!RequireByte(bytes))

\* split_to_index(): the whole heap, its upper parts first, then its start
FirstAllocate(bytes) ==
    /\ ~first_time
    /\ \E i \in Bins :
          /\ HasBin(bytes, i)
          /\ LET empty == [bin |-> [k \in Bins |-> NULL], hdr |-> hdr]
             IN  NormalAllocate(InBin(Split(empty, 0, NBins - 1, i),
                                      i, 0, Bytes[i]), i, bytes)

AllocateFromBin(bytes) ==
    /\ first_time
    /\ \E i \in Bins :
          /\ HasBin(bytes, i)
          /\ bin[i] # NULL
          /\ NormalAllocate([bin |-> bin, hdr |-> hdr], i, bytes)

AllocateFromLarger(bytes) ==
    /\ first_time
    /\ \E i \in Bins : \E s \in i + 1 .. NBins - 1 :
          /\ HasBin(bytes, i)
          /\ bin[i] = NULL
          /\ bin[s] # NULL
          /\ \A k \in i + 1 .. NBins - 1 : bin[k] # NULL => bin[s] <= bin[k]
          /\ SplitToAllocate(s, i, bytes)

\* sbrk fails, or no bin has a chunk, or there is no bin for the request
ReadsBinMinusOne(bytes) ==
    /\ Ready
    /\ \/ Sets!RequireByte(bytes) <= HDR
       \/ ~first_time /\ \E i \in Bins : HasBin(bytes, i)
       \/ /\ first_time
          /\ \E i \in Bins : /\ HasBin(bytes, i)
                             /\ \A k \in i .. NBins - 1 : bin[k] = NULL
    /\ Crash("bin[-1]")

-----------------------------------------------------------------------------
(* hw_free()                                                                *)

\* An offset is looked up in mmap_alloc_list first, where the one of the first
\* chunk reads as NULL.
InMmapList(addr) ==
    DeleteNode(mmap_alloc_list, IF addr = 0 THEN NULL ELSE addr, hdr)

FreeMmap(mem) ==
    /\ Ready
    /\ LET list == InMmapList(mem - HDR) IN
          /\ ~list.wild
          /\ list.size # 0
          /\ mmap_alloc_list' = list.head
          /\ hdr' = Without(list.hdr, mem - HDR)
          /\ mapped' = mapped \ {[addr |-> mem - HDR, len |-> list.size]}
          /\ held_mmap' = held_mmap \ {mem}
    /\ UNCHANGED <<heapVars, ownVars, fault>>

\* The node of an area whose stored size is 0 is deleted all the same.
FreeHeap(mem) ==
    /\ Ready
    /\ LET mlist == InMmapList(mem - HDR)
           list  == DeleteNode(allocated_heap, mem - HDR, mlist.hdr)
       IN /\ ~mlist.wild /\ mlist.size = 0
          /\ ~list.wild /\ list.size # 0
          /\ \E i \in Bins :
                /\ Sets!IsProperBin(i, list.size)
                /\ LET m == InBin([bin |-> bin, hdr |-> list.hdr], i,
                                  mem - HDR, list.size)
                   IN  bin' = m.bin /\ hdr' = m.hdr
                /\ merge_index' = i
          /\ allocated_heap' = list.head
          /\ held' = {h \in held : h.ptr # mem}
    /\ UNCHANGED <<first_time, mmapVars, ownVars, fault>>

\* hw_free() returns 0.
FreeFails(mem) ==
    /\ Ready
    /\ LET mlist == InMmapList(mem - HDR)
           list  == DeleteNode(allocated_heap, mem - HDR, mlist.hdr)
       IN /\ ~mlist.wild /\ mlist.size = 0
          /\ ~list.wild /\ list.size = 0
          /\ mmap_alloc_list' = mlist.head
          /\ hdr' = mlist.hdr
    /\ UNCHANGED <<heapVars, mapped, held_mmap, ownVars, fault>>

FreeGoesWild(mem) ==
    /\ Ready
    /\ LET mlist == InMmapList(mem - HDR)
           list  == DeleteNode(allocated_heap, mem - HDR, mlist.hdr)
       IN  mlist.wild \/ (mlist.size = 0 /\ list.wild)
    /\ Crash("wild pointer")

-----------------------------------------------------------------------------
(* merge(), one step per recursive call                                     *)

Merging == fault = "none" /\ merge_index # Sets!None

\* curr and the node behind it are the first pair of the list that is
\* adjacent in memory.
Meets(s, k) == s[k] + hdr[s[k]].size = s[k + 1]

MergeDone ==
    /\ Merging
    /\ LET s == Walk(hdr, bin[merge_index])
       IN  \A k \in 1 .. Len(s) - 1 : ~Meets(s, k)
    /\ merge_index' = Sets!None
    /\ UNCHANGED <<first_time, bin, allocated_heap, held, mmapVars, ownVars,
                   hdr, fault>>

\* The pair leaves the list; its first header is that of a chunk of the next
\* bin.
BadUnlink(prev, next) ==
    IF prev = NULL THEN [bin |-> [bin EXCEPT ![merge_index] = next],
                         hdr |-> hdr]
    ELSE [bin |-> bin, hdr |-> SetPrev(SetNext(hdr, prev, next), next, prev)]
Unlink(prev, next) ==
    IF prev = NULL THEN [bin |-> [bin EXCEPT ![merge_index] = next],
                         hdr |-> SetPrev(hdr, next, NULL)]
    ELSE [bin |-> bin, hdr |-> SetPrev(SetNext(hdr, prev, next), next, prev)]

MergePair ==
    /\ Merging
    /\ LET s == Walk(hdr, bin[merge_index]) IN
       \E k \in 1 .. Len(s) - 1 :
          /\ Meets(s, k)
          /\ \A l \in 1 .. k - 1 : ~Meets(s, l)
          /\ IF merge_index = NBins - 1 THEN Crash("bin[NBins]")
             ELSE LET m == InBin(Unlink(IF k = 1 THEN NULL ELSE s[k - 1],
                                        hdr[s[k + 1]].next),
                                 merge_index + 1, s[k], 2 * hdr[s[k]].size)
                  IN  /\ bin' = m.bin
                      /\ hdr' = Without(m.hdr, s[k + 1])
                      /\ merge_index' = IF merge_index + 1 = NBins - 1
                                        THEN Sets!None ELSE merge_index + 1
                      /\ UNCHANGED <<first_time, allocated_heap, held,
                                     mmapVars, ownVars, fault>>

-----------------------------------------------------------------------------
(* The caller                                                               *)

\* It fills the first bytes of a block with zeros, or with anything else.
WriteBlock(mem) ==
    /\ Ready
    /\ Cardinality(written \cup {mem - HDR}) <= caller.writes
    /\ \E next \in {NULL, WILD} : hdr' = SetNext(hdr, mem - HDR, next)
    /\ written' = written \cup {mem - HDR}
    /\ UNCHANGED <<heapVars, mmapVars, caller, fault>>

Malloc(bytes) == \/ MmapAllocate(bytes) \/ MmapFails(bytes)
                 \/ FirstAllocate(bytes) \/ AllocateFromBin(bytes)
                 \/ AllocateFromLarger(bytes) \/ ReadsBinMinusOne(bytes)

Free(mem) == FreeMmap(mem) \/ FreeHeap(mem) \/ FreeFails(mem)
                \/ FreeGoesWild(mem)

\* It may pass hw_free any pointer.
Pointers == {a + HDR : a \in MmapAddrs \cup {k * Bytes[0] :
                 k \in 0 .. Sets!HEAP_INITIAL \div Bytes[0] - 1}}

Next == \/ \E bytes \in caller.requests : Malloc(bytes)
        \/ \E mem \in Pointers : Free(mem)
        \/ MergeDone \/ MergePair
        \/ \E mem \in {h.ptr : h \in held} \cup held_mmap : WriteBlock(mem)

Spec == Init /\ [][Next]_vars

-----------------------------------------------------------------------------
(* Properties                                                               *)

IsList(head) ==
    LET s == Walk(hdr, head)
    IN  /\ s # <<>> => hdr[Last(s)].next = NULL /\ hdr[s[1]].prev = NULL
        /\ \A k \in 1 .. Len(s) - 1 : hdr[s[k + 1]].prev = s[k]

\* With key[a] at node a, no node comes before one of smaller key.
InOrder(head, key) ==
    LET s == Walk(hdr, head)
    IN  \A k \in 1 .. Len(s) - 1 : key[s[k]] <= key[s[k + 1]]

Address == [a \in DOMAIN hdr |-> a]
Size    == [a \in DOMAIN hdr |-> hdr[a].size]

\* Every list of free chunks is linked both ways, in order of address, and
\* ends; whatever the caller has written into blocks it held.  popNode() and
\* merge() rely on it (hw_malloc.c:166-218, 359).
FreeListsSound == \A i \in Bins : IsList(bin[i]) /\ InOrder(bin[i], Address)

\* So are the lists of what is in use until the caller writes into a block,
\* and no header is linked in two lists (hw_malloc.c:223-265, 306-350).
UsedListsSound ==
    caller.writes = 0 =>
        /\ IsList(allocated_heap) /\ InOrder(allocated_heap, Address)
        /\ IsList(mmap_alloc_list) /\ InOrder(mmap_alloc_list, Size)
        /\ \A i \in Bins : InList(hdr, bin[i])
                            \cap InList(hdr, allocated_heap) = {}

\* What the caller writes into its blocks costs it blocks that it can not free
\* any more, but only ones at higher addresses (hw_malloc.c:119, 328-344).
LostBehindWrites ==
    \A h \in held : \/ h.ptr - HDR \in InList(hdr, allocated_heap)
                    \/ \E a \in written : a < h.ptr - HDR

\* Nor does it ever get a block that shares a byte with another it holds or
\* with a free chunk.
HeldApart ==
    LET Apart(a, b) == \/ a + hdr[a].size <= b
                       \/ b + hdr[b].size <= a
        FreeNodes == UNION {InList(hdr, bin[i]) : i \in Bins}
    IN  \A h \in held : \A b \in FreeNodes \cup {g.ptr - HDR : g \in held \ {h}} :
           Apart(h.ptr - HDR, b)

\* Lists do what sets do in HwMalloc, until the caller writes into a block.
SetsSpec == Sets!Spec

=============================================================================
