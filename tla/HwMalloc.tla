------------------------------ MODULE HwMalloc ------------------------------
(***************************************************************************)
(* The allocator of hw4-simple-memory-allocator/lib/hw_malloc.c: a buddy   *)
(* heap of HEAP_INITIAL bytes taken from sbrk at the first small request,  *)
(* and one mmap area for every request above MMAP_THRESHOLD.               *)
(*                                                                         *)
(* A chunk is a record of its address (an offset from start_brk) and the   *)
(* curr_chunk_size of its header.  The address-sorted lists bin[i] and     *)
(* allocated_heap are sets of chunks: the head of a list is its chunk of   *)
(* lowest address.  The recursion of merge() is one step per call, kept in *)
(* merge_index; while a merge is pending no other call is possible, as the *)
(* program is single-threaded.                                             *)
(*                                                                         *)
(* Definitions called Bad... are faulty variants of the one that follows   *)
(* them: each breaks one of the properties.                                *)
(***************************************************************************)
EXTENDS Integers, FiniteSets

CONSTANTS
    NBins,      \* number of bins (11)
    HDR,        \* header bytes before the user's data (24)
    Bytes,      \* Bytes[i]: chunk size of bin i (32, 64, ..., 32768)
    Requests,   \* byte counts that hw_malloc is called with
    MmapAddrs,  \* addresses mmap may return; bounds the mapped areas
    SizeMod,    \* range of size_t (2^64)
    FieldMod    \* range of the bit-field curr_chunk_size (2^31)

None == -1                              \* no merge pending
Bins == 0 .. NBins - 1
MMAP_THRESHOLD == Bytes[NBins - 1]
HEAP_INITIAL   == 2 * Bytes[NBins - 1]

ASSUME SizesAssumption ==
    /\ NBins \in Nat \ {0}
    /\ HDR \in Nat
    /\ Bytes \in [Bins -> Nat]
    /\ \A i \in Bins : Bytes[i] > HDR
    /\ \A i \in Bins : i + 1 \in Bins => Bytes[i + 1] = 2 * Bytes[i]

ASSUME RequestAssumption ==
    /\ SizeMod \in Nat \ {0}
    /\ FieldMod \in Nat \ {0}
    /\ HEAP_INITIAL < SizeMod
    /\ HEAP_INITIAL <= FieldMod \div 2
    /\ Requests \subseteq 0 .. SizeMod - 1
    /\ MmapAddrs \subseteq Nat

VARIABLES
    first_time,       \* has the heap been taken from sbrk?
    bin,              \* the free lists
    allocated_heap,   \* the list of heap chunks in use
    merge_index,      \* argument of the pending merge() call, or None
    mmap_alloc_list,  \* the list of mmap chunks: address, stored size
    mapped,           \* the areas the kernel has mapped: address, length
    held,             \* heap blocks the caller holds: pointer, bytes asked for
    held_mmap,        \* pointers to mmap blocks the caller holds
    fault             \* the undefined access that ended the run, or "none"

heapVars == <<first_time, bin, allocated_heap, merge_index, held>>
mmapVars == <<mmap_alloc_list, mapped, held_mmap>>
vars     == <<first_time, bin, allocated_heap, merge_index, held,
              mmap_alloc_list, mapped, held_mmap, fault>>

Chunk == [addr : Nat, size : Nat]
MkChunk(a, s) == [addr |-> a, size |-> s]
End(c) == c.addr + c.size

\* The header is forgotten.
BadRequireByte(bytes) == bytes % SizeMod

\* The header size is added in size_t arithmetic, which wraps.
RequireByte(bytes) == (bytes + HDR) % SizeMod

\* Off by one: a chunk does not go back to the bin it came from.
BadIsProperBin(i, n) == /\ n > HDR
                        /\ n < Bytes[i]
                        /\ i > 0 => n >= Bytes[i - 1]

\* get_proper_bin(): i is the bin of the smallest chunk that holds n bytes.
IsProperBin(i, n) == /\ n > HDR
                     /\ n <= Bytes[i]
                     /\ i > 0 => n > Bytes[i - 1]

\* The size field is too narrow.
BadStoredSize(n) == n % 32

\* Length n as the signed bit-field curr_chunk_size keeps it.
StoredSize(n) == LET m == n % FieldMod
                 IN  IF m >= FieldMod \div 2 THEN m - FieldMod ELSE m

Give(addr, bytes) ==
    held' = held \cup {[ptr |-> addr + HDR, bytes |-> bytes]}

Ready == fault = "none" /\ merge_index = None

-----------------------------------------------------------------------------
(* hw_malloc()                                                              *)

Init ==
    /\ first_time = FALSE
    /\ bin = [i \in Bins |-> {}]
    /\ allocated_heap = {}
    /\ merge_index = None
    /\ mmap_alloc_list = {}
    /\ mapped = {}
    /\ held = {}
    /\ held_mmap = {}
    /\ fault = "none"

Crash(why) == /\ fault' = why
              /\ UNCHANGED <<heapVars, mmapVars>>

\* mmap_allocate(): the kernel picks an unused address; the node goes on the
\* list with the size its header can store.
MmapAllocate(bytes) ==
    /\ Ready
    /\ RequireByte(bytes) > MMAP_THRESHOLD
    /\ \E a \in MmapAddrs :
          /\ \A m \in mapped : m.addr # a
          /\ mapped' = mapped \cup {[addr |-> a, len |-> RequireByte(bytes)]}
          /\ mmap_alloc_list' = mmap_alloc_list \cup
                {[addr |-> a, size |-> StoredSize(RequireByte(bytes))]}
          /\ held_mmap' = held_mmap \cup {a + HDR}
    /\ UNCHANGED <<heapVars, fault>>

\* The result of mmap is used unchecked: the header is written to MAP_FAILED.
MmapFails(bytes) ==
    /\ Ready
    /\ RequireByte(bytes) > MMAP_THRESHOLD
    /\ Crash("MAP_FAILED")

\* First small request: split_to_index() cuts the heap down to bin i, then
\* normal_allocate() pops the chunk at offset 0.  The mmap list is reset.
FirstAllocate(bytes) ==
    /\ Ready
    /\ ~first_time
    /\ \E i \in Bins :
          /\ IsProperBin(i, RequireByte(bytes))
          /\ bin' = [k \in Bins |-> IF k >= i THEN {MkChunk(Bytes[k], Bytes[k])}
                                              ELSE {}]
          /\ allocated_heap' = allocated_heap \cup {MkChunk(0, Bytes[i])}
    /\ first_time' = TRUE
    /\ mmap_alloc_list' = {}
    /\ Give(0, bytes)
    /\ UNCHANGED <<merge_index, mapped, held_mmap, fault>>

\* sbrk fails: the request goes on with empty bins and reads bin[-1].
SbrkFails(bytes) ==
    /\ Ready
    /\ ~first_time
    /\ \E i \in Bins : IsProperBin(i, RequireByte(bytes))
    /\ Crash("bin[-1]")

\* normal_allocate(): the head of bin[i] moves to allocated_heap.
NormalAllocate(bytes) ==
    /\ Ready
    /\ first_time
    /\ \E i \in Bins : \E pop \in bin[i] :
          /\ IsProperBin(i, RequireByte(bytes))
          /\ \A d \in bin[i] : pop.addr <= d.addr
          /\ bin' = [bin EXCEPT ![i] = @ \ {pop}]
          /\ allocated_heap' = allocated_heap \cup {pop}
          /\ Give(pop.addr, bytes)
    /\ UNCHANGED <<first_time, merge_index, mmapVars, fault>>

\* The parts are put below the chunk.
BadSplitBinsBelow(i, s, theRoot) ==
    [k \in Bins |->
        IF k = s THEN bin[k] \ {theRoot}
        ELSE IF k \in i .. s - 1
             THEN bin[k] \cup {MkChunk(theRoot.addr - Bytes[k], Bytes[k])}
             ELSE bin[k]]

\* The parts all start where the chunk starts.
BadSplitBinsAtRoot(i, s, theRoot) ==
    [k \in Bins |->
        IF k = s THEN bin[k] \ {theRoot}
        ELSE IF k \in i .. s - 1
             THEN bin[k] \cup {MkChunk(theRoot.addr, Bytes[k])}
             ELSE bin[k]]

\* The loop over the bins stops one short.
BadSplitBinsShort(i, s, theRoot) ==
    [k \in Bins |->
        IF k = s THEN bin[k] \ {theRoot}
        ELSE IF k \in i + 1 .. s - 1
             THEN bin[k] \cup {MkChunk(theRoot.addr + Bytes[k], Bytes[k])}
             ELSE bin[k]]

\* The chunk stays in its bin.
BadSplitBinsKeep(i, s, theRoot) ==
    [k \in Bins |->
        IF k \in i .. s - 1
        THEN bin[k] \cup {MkChunk(theRoot.addr + Bytes[k], Bytes[k])}
        ELSE bin[k]]

\* split_to_allocate(): of all larger free chunks the one of lowest address,
\* theRoot, is cut; its upper parts go to the bins below its own.
SplitBins(i, s, theRoot) ==
    [k \in Bins |->
        IF k = s THEN bin[k] \ {theRoot}
        ELSE IF k \in i .. s - 1
             THEN bin[k] \cup {MkChunk(theRoot.addr + Bytes[k], Bytes[k])}
             ELSE bin[k]]

SplitToAllocate(bytes) ==
    /\ Ready
    /\ first_time
    /\ \E i \in Bins : \E s \in i + 1 .. NBins - 1 : \E theRoot \in bin[s] :
          /\ IsProperBin(i, RequireByte(bytes))
          /\ bin[i] = {}
          /\ theRoot.addr < HEAP_INITIAL
          /\ \A k \in i + 1 .. NBins - 1 : \A d \in bin[k] :
                theRoot.addr <= d.addr
          /\ bin' = SplitBins(i, s, theRoot)
          /\ allocated_heap' = allocated_heap \cup
                                  {MkChunk(theRoot.addr, Bytes[i])}
          /\ Give(theRoot.addr, bytes)
    /\ UNCHANGED <<first_time, merge_index, mmapVars, fault>>

\* No chunk is large enough: split_index stays -1 and bin[-1] is read.
NoChunkLeft(bytes) ==
    /\ Ready
    /\ first_time
    /\ \E i \in Bins : /\ IsProperBin(i, RequireByte(bytes))
                       /\ \A k \in i .. NBins - 1 : bin[k] = {}
    /\ Crash("bin[-1]")

\* get_proper_bin() has no bin for a request of HDR bytes or less (0 bytes,
\* or a size that wrapped): its -1 is used as an index.
NoProperBin(bytes) ==
    /\ Ready
    /\ RequireByte(bytes) <= HDR
    /\ Crash("bin[-1]")

-----------------------------------------------------------------------------
(* hw_free()                                                                *)

\* The caller's pointer names a listed mmap area: the node is deleted and the
\* stored size handed to munmap.  A stored size of 0 reads as "not found", a
\* size that is not the area's length does not unmap it.  An area that is
\* not listed is not found at all: hw_free returns 0 and changes nothing.
FreeMmap(mem) ==
    /\ Ready
    /\ \E n \in mmap_alloc_list :
          /\ n.addr = mem - HDR
          /\ mmap_alloc_list' = mmap_alloc_list \ {n}
          /\ mapped' = mapped \ {[addr |-> n.addr, len |-> n.size]}
          /\ held_mmap' = IF n.size = 0 THEN held_mmap ELSE held_mmap \ {mem}
    /\ UNCHANGED <<heapVars, fault>>

\* The pointer names a heap chunk in use: it goes to the bin of its size and
\* merge() is called on that bin.
FreeHeap(mem) ==
    /\ Ready
    /\ \E c \in allocated_heap : \E i \in Bins :
          /\ c.addr = mem - HDR
          /\ IsProperBin(i, c.size)
          /\ allocated_heap' = allocated_heap \ {c}
          /\ bin' = [bin EXCEPT ![i] = @ \cup {c}]
          /\ merge_index' = i
    /\ held' = {h \in held : h.ptr # mem}
    /\ UNCHANGED <<first_time, mmapVars, fault>>

-----------------------------------------------------------------------------
(* merge(), one step per recursive call                                     *)

\* c and d are the first neighbours of bin[i] where d starts as c ends.
FirstAdjacent(i, c, d) ==
    /\ d.addr = End(c)
    /\ \A c2, d2 \in bin[i] : d2.addr = End(c2) => c.addr <= c2.addr

Adjacent(i) == \E c, d \in bin[i] : d.addr = End(c)

Merging == fault = "none" /\ merge_index # None

MergeDone ==
    /\ Merging
    /\ ~Adjacent(merge_index)
    /\ merge_index' = None
    /\ UNCHANGED <<first_time, bin, allocated_heap, mmapVars, held, fault>>

\* The pair becomes one chunk of the next bin, which is merged in turn unless
\* it is the last one.
MergePair ==
    /\ Merging
    /\ merge_index + 1 \in Bins
    /\ \E c, d \in bin[merge_index] :
          /\ FirstAdjacent(merge_index, c, d)
          /\ bin' = [bin EXCEPT ![merge_index] = @ \ {c, d},
                                ![merge_index + 1] =
                                    @ \cup {MkChunk(c.addr, 2 * c.size)}]
    /\ merge_index' = IF merge_index + 1 = NBins - 1 THEN None
                                                     ELSE merge_index + 1
    /\ UNCHANGED <<first_time, allocated_heap, mmapVars, held, fault>>

\* The array of bins ends one early.
BadMergeLastBin ==
    /\ Merging
    /\ merge_index >= NBins - 2
    /\ Adjacent(merge_index)
    /\ Crash("bin[NBins]")

\* Both halves of the heap are free after one of them was freed: the pair is
\* inserted in bin[NBins], beyond the array.
MergeLastBin ==
    /\ Merging
    /\ merge_index = NBins - 1
    /\ Adjacent(merge_index)
    /\ Crash("bin[NBins]")

-----------------------------------------------------------------------------

Malloc(bytes) ==
    \/ MmapAllocate(bytes)
    \/ MmapFails(bytes)
    \/ FirstAllocate(bytes)
    \/ SbrkFails(bytes)
    \/ NormalAllocate(bytes)
    \/ SplitToAllocate(bytes)
    \/ NoChunkLeft(bytes)
    \/ NoProperBin(bytes)

\* The caller may pass any pointer, one it freed before included; hw_free
\* changes nothing when it finds no node for it.
Free == \/ \E a \in MmapAddrs : FreeMmap(a + HDR)
        \/ \E a \in 0 .. HEAP_INITIAL - 1 : FreeHeap(a + HDR)

Merge == MergeDone \/ MergePair \/ MergeLastBin

Next == \/ \E bytes \in Requests : Malloc(bytes)
        \/ Free
        \/ Merge

Spec == Init /\ [][Next]_vars

-----------------------------------------------------------------------------
(* Properties                                                               *)

FreeChunks == UNION {bin[i] : i \in Bins}
Chunks     == FreeChunks \cup allocated_heap

TypeOK ==
    /\ first_time \in BOOLEAN
    /\ bin \in [Bins -> SUBSET Chunk]
    /\ allocated_heap \subseteq Chunk
    /\ merge_index \in Bins \cup {None}
    /\ mmap_alloc_list \subseteq [addr : MmapAddrs, size : Int]
    /\ mapped \subseteq [addr : MmapAddrs, len : Nat]
    /\ held \subseteq [ptr : Nat, bytes : Requests]
    /\ held_mmap \subseteq {a + HDR : a \in MmapAddrs}
    /\ fault \in {"none", "bin[-1]", "bin[NBins]", "MAP_FAILED"}

\* A free chunk carries in its header the size of the bin it is linked in,
\* and no chunk is linked in a bin and in allocated_heap at once: hw_free
\* finds the right bin, and no chunk is handed out twice.
BinsSound ==
    \A i \in Bins : /\ \A c \in bin[i] : c.size = Bytes[i]
                    /\ bin[i] \cap allocated_heap = {}

\* No two chunks of the heap, free or in use, share a byte, and none reaches
\* past the end of the heap, whatever was split and merged before.
Disjoint ==
    /\ \A c \in Chunks : End(c) <= HEAP_INITIAL
    /\ \A c, d \in Chunks : c # d => End(c) <= d.addr \/ End(d) <= c.addr

\* No byte of the heap is lost: each belongs to some chunk, also half-way
\* through the recursion of merge().
Tiling ==
    first_time => \A x \in 0 .. HEAP_INITIAL - 1 :
                     \E c \in Chunks : c.addr <= x /\ x < End(c)

\* Every block the caller holds is a chunk of allocated_heap that has room for
\* the bytes asked for (so that hw_free will find it), and every chunk
\* in use is held by the caller (so that none is leaked).
HeldBacked ==
    /\ \A h \in held : \E c \in allocated_heap :
          c.addr = h.ptr - HDR /\ h.ptr + h.bytes <= End(c)
    /\ \A c \in allocated_heap : \E h \in held : h.ptr = c.addr + HDR

\* The kernel has mapped exactly the areas the caller holds: no area is
\* leaked by hw_free and none is unmapped under the caller's feet.
MappedIsHeld == held_mmap = {m.addr + HDR : m \in mapped}

\* hw_free can find every mmap block the caller holds (hw_malloc.c:64, "delete
\* mmap").  Does not hold: the first heap request empties the list.
MmapIsListed ==
    \A p \in held_mmap : \E n \in mmap_alloc_list : n.addr = p - HDR

\* merge() leaves the array of bins only when the whole heap is free.
LastMergeMeansAllFree ==
    fault = "bin[NBins]" => allocated_heap = {} /\ FreeChunks = bin[NBins - 1]

\* merge() stays inside the array of bins, whose last is bin[10]
\* (hw4_mm_test.c:77).  Does not hold.
StaysInBins == fault # "bin[NBins]"

\* The heap part of hw_malloc and hw_free implements an allocator.
Alloc == INSTANCE Allocator
            WITH Ptrs  <- {a + HDR : a \in 0 .. HEAP_INITIAL - 1},
                 Sizes <- Requests,
                 Limit <- HEAP_INITIAL,
                 live  <- held
AllocatorSpec == Alloc!Spec

=============================================================================
