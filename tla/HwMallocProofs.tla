--------------------------- MODULE HwMallocProofs ---------------------------
(***************************************************************************)
(* Theorems about HwMalloc, for every number of bins, every table of chunk *)
(* sizes that doubles from bin to bin, and every set of requests.          *)
(***************************************************************************)
EXTENDS HwMalloc, Groundwork, TLAPS

-----------------------------------------------------------------------------
(* The table of chunk sizes                                                 *)

\* Chunk sizes are positive and grow with the bin.
LEMMA BytesGrow ==
    /\ \A i \in Bins : Bytes[i] \in Nat /\ Bytes[i] > 0
    /\ \A i, j \in Bins : i < j => 2 * Bytes[i] <= Bytes[j]
    /\ \A i, j \in Bins : Bytes[i] = Bytes[j] => i = j
<1>1. \A i \in Bins : Bytes[i] \in Nat /\ Bytes[i] > 0
  BY SizesAssumption
<1>2. \A i, j \in Bins : i < j => 2 * Bytes[i] <= Bytes[j]
  <2> DEFINE T == {n \in Nat : \A i \in Bins :
                      i + 1 + n \in Bins => 2 * Bytes[i] <= Bytes[i + 1 + n]}
  <2>1. 0 \in T
    BY SizesAssumption DEF Bins
  <2>2. ASSUME NEW n \in Nat, n \in T PROVE n + 1 \in T
    <3>1. ASSUME NEW i \in Bins, i + 1 + (n + 1) \in Bins
          PROVE  2 * Bytes[i] <= Bytes[i + 1 + (n + 1)]
      <4>1. i + 1 + n \in Bins /\ i + 1 + (n + 1) = (i + 1 + n) + 1
        BY <3>1, SizesAssumption DEF Bins
      <4>2. Bytes[i + 1 + (n + 1)] = 2 * Bytes[i + 1 + n]
        BY <3>1, <4>1, SizesAssumption
      <4>3. 2 * Bytes[i] <= Bytes[i + 1 + n]
        BY <2>2, <4>1
      <4> QED
        BY <4>1, <4>2, <4>3, <1>1
    <3> QED
      BY <3>1
  <2> HIDE DEF T
  <2>3. Nat \subseteq T
    BY <2>1, <2>2, NaturalInduction
  <2> SUFFICES ASSUME NEW i \in Bins, NEW j \in Bins, i < j
               PROVE  2 * Bytes[i] <= Bytes[j]
    OBVIOUS
  <2>4. j - i - 1 \in Nat /\ i + 1 + (j - i - 1) = j
    BY SizesAssumption DEF Bins
  <2> QED
    BY <2>3, <2>4 DEF T
<1>3. \A i, j \in Bins : Bytes[i] = Bytes[j] => i = j
  <2> SUFFICES ASSUME NEW i \in Bins, NEW j \in Bins, i # j
               PROVE  Bytes[i] # Bytes[j]
    OBVIOUS
  <2>1. i < j \/ j < i
    BY SizesAssumption DEF Bins
  <2> QED
    BY <2>1, <1>1, <1>2
<1> QED
  BY <1>1, <1>2, <1>3

\* A chunk that was cut for bin j goes back to bin j when it is freed.
LEMMA ProperBinOfChunk ==
    ASSUME NEW i \in Bins, NEW j \in Bins, IsProperBin(i, Bytes[j])
    PROVE  i = j
<1>1. CASE i < j
  BY <1>1, BytesGrow DEF IsProperBin
<1>2. CASE j < i
  <2>1. i - 1 \in Bins /\ i > 0
    BY <1>2, SizesAssumption DEF Bins
  <2>2. Bytes[j] <= Bytes[i - 1]
    <3>1. CASE j = i - 1
      BY <3>1, <2>1, BytesGrow
    <3>2. CASE j < i - 1
      BY <3>2, <2>1, BytesGrow
    <3> QED
      BY <1>2, <3>1, <3>2, SizesAssumption DEF Bins
  <2> QED
    BY <2>1, <2>2, BytesGrow DEF IsProperBin
<1> QED
  BY <1>1, <1>2, SizesAssumption DEF Bins

-----------------------------------------------------------------------------
(* Type correctness                                                         *)

\* What a request is rounded up to is a number.
LEMMA RequireByteNat == ASSUME NEW b \in Requests PROVE RequireByte(b) \in Nat
  BY RequestAssumption, SizesAssumption DEF RequireByte

\* The size field holds a number.
LEMMA StoredSizeInt == ASSUME NEW n \in Nat PROVE StoredSize(n) \in Int
  BY RequestAssumption DEF StoredSize

\* What split_to_allocate() does once its bins and its chunk are chosen.
SplitsInto(b, i, s, theRoot) ==
    /\ IsProperBin(i, RequireByte(b))
    /\ bin[i] = {}
    /\ bin' = SplitBins(i, s, theRoot)
    /\ allocated_heap' = allocated_heap \cup {MkChunk(theRoot.addr, Bytes[i])}
    /\ Give(theRoot.addr, b)

\* What merge() does once its pair is found.
MergesInto(c, d) ==
    /\ d.addr = End(c)
    /\ bin' = [bin EXCEPT ![merge_index] = @ \ {c, d},
                          ![merge_index + 1] =
                              @ \cup {MkChunk(c.addr, 2 * c.size)}]

\* Each step keeps the types.
LEMMA TypeStep == TypeOK /\ [Next]_vars => TypeOK'
<1> SUFFICES ASSUME TypeOK, [Next]_vars PROVE TypeOK'
  OBVIOUS
<1> USE DEF heapVars, mmapVars
<1>1. ASSUME NEW b \in Requests, MmapAllocate(b) PROVE TypeOK'
  BY <1>1, RequireByteNat, StoredSizeInt DEF MmapAllocate, TypeOK
<1>2. ASSUME NEW b \in Requests, MmapFails(b) PROVE TypeOK'
  BY <1>2 DEF MmapFails, Crash, TypeOK
<1>3. ASSUME NEW b \in Requests, FirstAllocate(b) PROVE TypeOK'
  <2> PICK i \in Bins :
        /\ bin' = [k \in Bins |-> IF k >= i THEN {MkChunk(Bytes[k], Bytes[k])}
                                            ELSE {}]
        /\ allocated_heap' = allocated_heap \cup {MkChunk(0, Bytes[i])}
    BY <1>3 DEF FirstAllocate
  <2> QED
    BY <1>3, BytesGrow, SizesAssumption
    DEF FirstAllocate, Give, TypeOK, MkChunk, Chunk
<1>4. ASSUME NEW b \in Requests, SbrkFails(b) PROVE TypeOK'
  BY <1>4 DEF SbrkFails, Crash, TypeOK
<1>5. ASSUME NEW b \in Requests, NormalAllocate(b) PROVE TypeOK'
  BY <1>5, SizesAssumption DEF NormalAllocate, Give, TypeOK, Chunk
<1>6. ASSUME NEW b \in Requests, SplitToAllocate(b) PROVE TypeOK'
  <2> PICK i \in Bins : \E s \in i + 1 .. NBins - 1 : \E theRoot \in bin[s] :
                        SplitsInto(b, i, s, theRoot)
    BY <1>6 DEF SplitToAllocate, SplitsInto
  <2> PICK s \in i + 1 .. NBins - 1 : \E theRoot \in bin[s] :
                        SplitsInto(b, i, s, theRoot)
    OBVIOUS
  <2> PICK theRoot \in bin[s] : SplitsInto(b, i, s, theRoot)
    OBVIOUS
  <2>1. s \in Bins /\ theRoot \in Chunk
    BY SizesAssumption DEF Bins, TypeOK
  <2>2. bin' \in [Bins -> SUBSET Chunk]
    BY <2>1, BytesGrow DEF SplitsInto, SplitBins, TypeOK, MkChunk, Chunk
  <2> QED
    BY <1>6, <2>1, <2>2, BytesGrow, SizesAssumption
    DEF SplitToAllocate, SplitsInto, Give, TypeOK, MkChunk, Chunk
<1>7. ASSUME NEW b \in Requests, NoChunkLeft(b) PROVE TypeOK'
  BY <1>7 DEF NoChunkLeft, Crash, TypeOK
<1>8. ASSUME NEW b \in Requests, NoProperBin(b) PROVE TypeOK'
  BY <1>8 DEF NoProperBin, Crash, TypeOK
<1>9. ASSUME NEW p, FreeMmap(p) PROVE TypeOK'
  BY <1>9 DEF FreeMmap, TypeOK
<1>10. ASSUME NEW p, FreeHeap(p) PROVE TypeOK'
  BY <1>10 DEF FreeHeap, TypeOK
<1>11. CASE MergeDone
  BY <1>11 DEF MergeDone, TypeOK
<1>12. CASE MergePair
  <2> PICK c \in bin[merge_index] : \E d \in bin[merge_index] :
                                        MergesInto(c, d)
    BY <1>12 DEF MergePair, FirstAdjacent, MergesInto
  <2> PICK d \in bin[merge_index] : MergesInto(c, d)
    OBVIOUS
  <2>1. merge_index \in Bins /\ merge_index + 1 \in Bins /\ merge_index \in Nat
    BY <1>12, SizesAssumption DEF MergePair, Merging, TypeOK, Bins, None
  <2>2. c \in Chunk
    BY <2>1 DEF TypeOK
  <2>3. MkChunk(c.addr, 2 * c.size) \in Chunk
    BY <2>2 DEF Chunk, MkChunk
  <2>4. bin' \in [Bins -> SUBSET Chunk]
    BY <2>1, <2>3 DEF MergesInto, TypeOK
  <2>5. merge_index' \in Bins \cup {None}
    BY <1>12, <2>1 DEF MergePair
  <2> QED
    BY <1>12, <2>4, <2>5 DEF MergePair, TypeOK
<1>13. CASE MergeLastBin
  BY <1>13 DEF MergeLastBin, Crash, TypeOK
<1>14. CASE UNCHANGED vars
  BY <1>14 DEF vars, TypeOK
<1> QED
  BY <1>1, <1>2, <1>3, <1>4, <1>5, <1>6, <1>7, <1>8, <1>9, <1>10, <1>11,
     <1>12, <1>13, <1>14 DEF Next, Malloc, Free, Merge

\* The variables keep their types: in particular merge_index never leaves the
\* bins, and every list holds well-formed chunk headers.
THEOREM TypeCorrect == Spec => []TypeOK
<1>1. Init => TypeOK
  BY DEF Init, TypeOK, None
<1> QED
  BY <1>1, TypeStep, PTL DEF Spec

-----------------------------------------------------------------------------
(* The inductive invariant of the heap                                      *)

AllocatedSizes == \A c \in allocated_heap : \E i \in Bins : c.size = Bytes[i]

HeapNotTaken == ~first_time => /\ \A i \in Bins : bin[i] = {}
                               /\ allocated_heap = {}
                               /\ merge_index = None

\* The caller holds at most one block at an address.
HeldOnce == \A h1, h2 \in held : h1.ptr = h2.ptr => h1 = h2

Apart(c, d) == End(c) <= d.addr \/ End(d) <= c.addr

HeapInv == /\ TypeOK
           /\ BinsSound
           /\ AllocatedSizes
           /\ HeapNotTaken
           /\ Disjoint

\* No request that reaches the heap wraps in size_t.
LEMMA RequireByteExact ==
    ASSUME NEW b \in Requests, NEW i \in Bins, IsProperBin(i, RequireByte(b))
    PROVE  b \in Nat /\ b + HDR <= Bytes[i]
<1>1. b \in Nat /\ b < SizeMod /\ SizeMod \in Nat \ {0} /\ HDR \in Nat
  BY RequestAssumption, SizesAssumption
<1>2. HDR < SizeMod
  <2>1. NBins - 1 \in Bins
    BY SizesAssumption DEF Bins
  <2> QED
    BY <2>1, BytesGrow, SizesAssumption, RequestAssumption DEF HEAP_INITIAL
<1>3. RequireByte(b) > HDR /\ RequireByte(b) <= Bytes[i]
  BY DEF IsProperBin
<1>4. CASE b + HDR < SizeMod
  <2>1. (b + HDR) % SizeMod = b + HDR
    BY <1>1, <1>4
  <2> QED
    BY <1>1, <1>3, <2>1 DEF RequireByte
<1>5. CASE b + HDR >= SizeMod
  <2>1. (b + HDR) % SizeMod = b + HDR - SizeMod
    BY <1>1, <1>2, <1>5
  <2> QED
    BY <1>1, <1>3, <2>1 DEF RequireByte
<1> QED
  BY <1>1, <1>4, <1>5

\* Under the invariant a chunk has a positive size, the one of some bin.
LEMMA ChunkSizes ==
    ASSUME HeapInv, NEW c \in Chunks
    PROVE  c \in Chunk /\ \E i \in Bins : c.size = Bytes[i] /\ c.size > 0
<1>1. CASE c \in allocated_heap
  BY <1>1, BytesGrow DEF HeapInv, TypeOK, AllocatedSizes
<1>2. CASE c \in FreeChunks
  <2> PICK i \in Bins : c \in bin[i]
    BY <1>2 DEF FreeChunks
  <2> QED
    BY BytesGrow DEF HeapInv, TypeOK, BinsSound
<1> QED
  BY <1>1, <1>2 DEF Chunks

\* Both the free chunks and those in use are chunks.
LEMMA InChunks ==
    /\ \A i \in Bins : \A c \in bin[i] : c \in Chunks
    /\ \A c \in allocated_heap : c \in Chunks
BY DEF Chunks, FreeChunks

\* Two chunks at one address are the same chunk.
LEMMA OneChunkPerAddr ==
    ASSUME HeapInv, NEW c \in Chunks, NEW d \in Chunks, c.addr = d.addr
    PROVE  c = d
<1>1. c \in Chunk /\ d \in Chunk /\ c.size > 0 /\ d.size > 0
  BY ChunkSizes
<1> QED
  BY <1>1 DEF HeapInv, Disjoint, Chunk, End

\* Calls that leave the heap alone.
LEMMA HeapUnchanged ==
    ASSUME HeapInv, TypeOK', UNCHANGED <<first_time, bin, allocated_heap>>,
           first_time \/ merge_index' = merge_index
    PROVE  HeapInv'
BY DEF HeapInv, BinsSound, AllocatedSizes, HeapNotTaken, Disjoint, Chunks,
       FreeChunks, End

\* The first small request cuts a heap of one chunk.
LEMMA FirstAllocateSound ==
    ASSUME HeapInv, TypeOK', NEW b \in Requests, FirstAllocate(b)
    PROVE  HeapInv'
<1> PICK i \in Bins :
      /\ bin' = [k \in Bins |-> IF k >= i THEN {MkChunk(Bytes[k], Bytes[k])}
                                          ELSE {}]
      /\ allocated_heap' = allocated_heap \cup {MkChunk(0, Bytes[i])}
  BY DEF FirstAllocate
<1>1. allocated_heap' = {MkChunk(0, Bytes[i])}
  BY DEF FirstAllocate, HeapInv, HeapNotTaken
<1>2. BinsSound'
  BY <1>1, BytesGrow DEF BinsSound, MkChunk
<1>3. \A c \in Chunks' : \/ c = MkChunk(0, Bytes[i])
                         \/ \E k \in Bins : /\ k >= i
                                            /\ c = MkChunk(Bytes[k], Bytes[k])
  BY <1>1 DEF Chunks, FreeChunks
<1>4. \A k \in Bins : k >= i => Bytes[i] <= Bytes[k]
  BY BytesGrow DEF Bins
<1>5. NBins - 1 \in Bins
  BY SizesAssumption DEF Bins
<1>6. \A k \in Bins : Bytes[k] <= Bytes[NBins - 1]
  <2> SUFFICES ASSUME NEW k \in Bins PROVE Bytes[k] <= Bytes[NBins - 1]
    OBVIOUS
  <2>1. k = NBins - 1 \/ k < NBins - 1
    BY SizesAssumption DEF Bins
  <2> QED
    BY <2>1, <1>5, BytesGrow
<1>7. \A c \in Chunks' : End(c) <= HEAP_INITIAL
  BY <1>3, <1>5, <1>6, BytesGrow DEF End, MkChunk, HEAP_INITIAL
<1>8. \A c, d \in Chunks' : c # d => Apart(c, d)
  <2> SUFFICES ASSUME NEW c \in Chunks', NEW d \in Chunks', c # d
               PROVE  Apart(c, d)
    OBVIOUS
  <2>1. CASE c = MkChunk(0, Bytes[i]) \/ d = MkChunk(0, Bytes[i])
    BY <2>1, <1>3, <1>4, BytesGrow DEF Apart, End, MkChunk
  <2>2. CASE c # MkChunk(0, Bytes[i]) /\ d # MkChunk(0, Bytes[i])
    <3> PICK k \in Bins : k >= i /\ c = MkChunk(Bytes[k], Bytes[k])
      BY <2>2, <1>3
    <3> PICK l \in Bins : l >= i /\ d = MkChunk(Bytes[l], Bytes[l])
      BY <2>2, <1>3
    <3>1. k < l \/ l < k
      BY SizesAssumption DEF Bins
    <3> QED
      BY <3>1, BytesGrow DEF Apart, End, MkChunk
  <2> QED
    BY <2>1, <2>2
<1>9. Disjoint'
  BY <1>7, <1>8 DEF Disjoint, Apart, End, HEAP_INITIAL
<1>10. AllocatedSizes' /\ HeapNotTaken'
  BY <1>1 DEF AllocatedSizes, HeapNotTaken, FirstAllocate, MkChunk
<1> QED
  BY <1>2, <1>9, <1>10 DEF HeapInv

\* Popping the head of a bin moves a chunk from one list to another.
LEMMA NormalAllocateSound ==
    ASSUME HeapInv, TypeOK', NEW b \in Requests, NormalAllocate(b)
    PROVE  HeapInv'
<1> PICK i \in Bins : \E pop \in bin[i] :
      /\ bin' = [bin EXCEPT ![i] = @ \ {pop}]
      /\ allocated_heap' = allocated_heap \cup {pop}
  BY DEF NormalAllocate
<1> PICK pop \in bin[i] :
      /\ bin' = [bin EXCEPT ![i] = @ \ {pop}]
      /\ allocated_heap' = allocated_heap \cup {pop}
  OBVIOUS
<1>1. \A k \in Bins : bin'[k] = IF k = i THEN bin[k] \ {pop} ELSE bin[k]
  BY DEF HeapInv, TypeOK
<1>2. pop.size = Bytes[i]
  BY DEF HeapInv, BinsSound
<1>3. BinsSound'
  BY <1>1, <1>2, BytesGrow DEF HeapInv, BinsSound
<1>4. Chunks' = Chunks
  BY <1>1 DEF Chunks, FreeChunks
<1>5. Disjoint'
  BY <1>4 DEF HeapInv, Disjoint, End, HEAP_INITIAL
<1>6. AllocatedSizes' /\ HeapNotTaken'
  BY <1>2 DEF HeapInv, AllocatedSizes, HeapNotTaken, NormalAllocate
<1> QED
  BY <1>3, <1>5, <1>6 DEF HeapInv

\* Freeing a chunk moves it to the bin of its size, which is the bin it was
\* taken from or cut for.
LEMMA FreeHeapSound ==
    ASSUME HeapInv, TypeOK', NEW p, FreeHeap(p)
    PROVE  HeapInv'
<1> PICK c \in allocated_heap : \E i \in Bins :
      /\ IsProperBin(i, c.size)
      /\ allocated_heap' = allocated_heap \ {c}
      /\ bin' = [bin EXCEPT ![i] = @ \cup {c}]
  BY DEF FreeHeap
<1> PICK i \in Bins :
      /\ IsProperBin(i, c.size)
      /\ allocated_heap' = allocated_heap \ {c}
      /\ bin' = [bin EXCEPT ![i] = @ \cup {c}]
  OBVIOUS
<1>1. /\ bin'[i] = bin[i] \cup {c}
      /\ \A k \in Bins : k # i => bin'[k] = bin[k]
  BY DEF HeapInv, TypeOK
<1>2. c.size = Bytes[i]
  BY ProperBinOfChunk DEF HeapInv, AllocatedSizes
<1>3. BinsSound'
  BY <1>1, <1>2 DEF HeapInv, BinsSound
<1>4. Chunks' = Chunks
  <2>1. FreeChunks' = FreeChunks \cup {c}
    <3>1. \A x : x \in FreeChunks' <=> \E k \in Bins : x \in bin'[k]
      BY DEF FreeChunks
    <3>2. \A x : x \in FreeChunks <=> \E k \in Bins : x \in bin[k]
      BY DEF FreeChunks
    <3>3. \A x : x \in FreeChunks' <=> x \in FreeChunks \/ x = c
      BY <1>1, <3>1, <3>2
    <3> QED
      BY <3>3
  <2> QED
    BY <2>1 DEF Chunks
<1>5. Disjoint'
  BY <1>4 DEF HeapInv, Disjoint, End, HEAP_INITIAL
<1>6. AllocatedSizes' /\ HeapNotTaken'
  BY DEF HeapInv, AllocatedSizes, HeapNotTaken, FreeHeap
<1> QED
  BY <1>3, <1>5, <1>6 DEF HeapInv

\* Cutting a chunk into pieces that fill it.
LEMMA SplitSound ==
    ASSUME HeapInv, TypeOK', first_time, first_time',
           NEW b \in Requests, NEW i \in Bins, NEW s \in i + 1 .. NBins - 1,
           NEW theRoot \in bin[s], SplitsInto(b, i, s, theRoot)
    PROVE  HeapInv'
<1> DEFINE r == theRoot.addr
           Upper(k) == MkChunk(r + Bytes[k], Bytes[k])
           low == MkChunk(r, Bytes[i])
<1>1. s \in Bins /\ i < s /\ theRoot \in Chunks /\ theRoot.size = Bytes[s]
  BY SizesAssumption, InChunks DEF Bins, HeapInv, BinsSound
<1>2. r \in Nat
  BY <1>1, ChunkSizes DEF Chunk
<1>3. /\ \A k \in Bins : k = s => bin'[k] = bin[k] \ {theRoot}
      /\ \A k \in Bins : k \in i .. s - 1 => bin'[k] = bin[k] \cup {Upper(k)}
      /\ \A k \in Bins : k # s /\ k \notin i .. s - 1 => bin'[k] = bin[k]
      /\ allocated_heap' = allocated_heap \cup {low}
  BY <1>1 DEF SplitsInto, SplitBins
<1>4. \A k \in Bins : k \in i .. s - 1 => 2 * Bytes[k] <= Bytes[s]
                                          /\ Bytes[i] <= Bytes[k]
  BY <1>1, BytesGrow DEF Bins
<1>5. \A c \in Chunks : c # theRoot => Apart(c, theRoot)
  BY <1>1 DEF HeapInv, Disjoint, Apart
<1>6. \A k \in Bins : theRoot \in bin[k] => k = s
  BY <1>1, BytesGrow DEF HeapInv, BinsSound
<1>7. theRoot \notin allocated_heap
  BY <1>1 DEF HeapInv, BinsSound
\* A new chunk is an old one, a free upper part or the allocated lower one.
<1>8. ASSUME NEW c \in Chunks'
      PROVE  \/ c \in Chunks /\ c # theRoot
             \/ \E k \in Bins : k \in i .. s - 1 /\ c = Upper(k)
             \/ c = low
  <2>1. CASE c \in allocated_heap'
    BY <2>1, <1>3, <1>7, InChunks
  <2>2. CASE c \in FreeChunks'
    <3> PICK k \in Bins : c \in bin'[k]
      BY <2>2 DEF FreeChunks
    <3> QED
      BY <1>3, <1>6, InChunks
  <2> QED
    BY <2>1, <2>2 DEF Chunks
<1> DEFINE Piece(c) == /\ c.addr \in Nat /\ c.size \in Nat /\ c.size > 0
                       /\ r <= c.addr
                       /\ End(c) <= r + Bytes[s]
<1>9. Piece(low) /\ \A k \in Bins : k \in i .. s - 1 => Piece(Upper(k))
  <2>1. Piece(low)
    BY <1>1, <1>2, BytesGrow DEF MkChunk, End
  <2>2. ASSUME NEW k \in Bins, k \in i .. s - 1 PROVE Piece(Upper(k))
    BY <1>2, <1>4, <2>2, BytesGrow, <1>1 DEF MkChunk, End
  <2> QED
    BY <2>1, <2>2
<1> HIDE DEF Piece
<1>10. ASSUME NEW c \in Chunks, c # theRoot, NEW d, Piece(d)
       PROVE  Apart(c, d) /\ Apart(d, c) /\ c # d
  <2>1. c.addr \in Nat /\ c.size \in Nat /\ c.size > 0
    BY ChunkSizes DEF Chunk
  <2>2. Apart(c, theRoot)
    BY <1>5, <1>10
  <2> QED
    BY <1>1, <1>2, <1>10, <2>1, <2>2, BytesGrow DEF Piece, Apart, End
<1>11. ASSUME NEW k \in Bins, k \in i .. s - 1
       PROVE  /\ Apart(low, Upper(k)) /\ Apart(Upper(k), low)
              /\ low # Upper(k)
  BY <1>2, <1>4, <1>11, BytesGrow DEF Apart, End, MkChunk
<1>12. ASSUME NEW k \in Bins, k \in i .. s - 1,
              NEW l \in Bins, l \in i .. s - 1, k < l
       PROVE  Apart(Upper(k), Upper(l)) /\ Apart(Upper(l), Upper(k))
  BY <1>2, <1>12, BytesGrow DEF Apart, End, MkChunk
<1>13. Disjoint'
  <2>1. ASSUME NEW c \in Chunks' PROVE End(c) <= HEAP_INITIAL
    <3>1. CASE c \in Chunks
      BY <3>1 DEF HeapInv, Disjoint
    <3>2. CASE Piece(c)
      <4>1. End(theRoot) <= HEAP_INITIAL
        BY <1>1 DEF HeapInv, Disjoint
      <4>2. HEAP_INITIAL \in Nat
        BY BytesGrow, SizesAssumption DEF HEAP_INITIAL, Bins
      <4> QED
        BY <3>2, <4>1, <4>2, <1>1, <1>2, BytesGrow DEF Piece, End
    <3> QED
      BY <2>1, <1>8, <1>9, <3>1, <3>2
  <2>2. ASSUME NEW c \in Chunks', NEW d \in Chunks', c # d PROVE Apart(c, d)
    <3>1. CASE c \in Chunks /\ c # theRoot
      <4>1. CASE d \in Chunks /\ d # theRoot
        BY <3>1, <4>1, <2>2 DEF HeapInv, Disjoint, Apart
      <4>2. CASE Piece(d)
        BY <3>1, <4>2, <1>10
      <4> QED
        BY <4>1, <4>2, <1>8, <1>9
    <3>2. CASE c = low
      <4>1. CASE d \in Chunks /\ d # theRoot
        BY <3>2, <4>1, <1>9, <1>10
      <4>2. CASE \E k \in Bins : k \in i .. s - 1 /\ d = Upper(k)
        BY <3>2, <4>2, <1>11
      <4> QED
        BY <2>2, <3>2, <4>1, <4>2, <1>8
    <3>3. CASE \E k \in Bins : k \in i .. s - 1 /\ c = Upper(k)
      <4> PICK k \in Bins : k \in i .. s - 1 /\ c = Upper(k)
        BY <3>3
      <4>1. CASE d \in Chunks /\ d # theRoot
        BY <4>1, <1>9, <1>10
      <4>2. CASE d = low
        BY <4>2, <1>11
      <4>3. CASE \E l \in Bins : l \in i .. s - 1 /\ d = Upper(l)
        <5> PICK l \in Bins : l \in i .. s - 1 /\ d = Upper(l)
          BY <4>3
        <5>1. k < l \/ l < k
          BY <2>2 DEF Bins
        <5> QED
          BY <5>1, <1>12
      <4> QED
        BY <4>1, <4>2, <4>3, <1>8
    <3> QED
      BY <3>1, <3>2, <3>3, <1>8
  <2> QED
    BY <2>1, <2>2 DEF Disjoint, Apart, End, HEAP_INITIAL
<1>14. BinsSound'
  <2>1. ASSUME NEW k \in Bins, NEW c \in bin'[k]
        PROVE  c.size = Bytes[k] /\ c \notin allocated_heap'
    <3>1. CASE c \in bin[k] /\ c # theRoot
      <4>1. c \in Chunks /\ c.size = Bytes[k] /\ c \notin allocated_heap
        BY <3>1, InChunks DEF HeapInv, BinsSound
      <4> QED
        BY <3>1, <4>1, <1>3, <1>9, <1>10
    <3>2. CASE k \in i .. s - 1 /\ c = Upper(k)
      <4>1. c \notin allocated_heap
        BY <3>2, <1>7, <1>9, <1>10, InChunks
      <4> QED
        BY <3>2, <4>1, <1>3, <1>11 DEF MkChunk
    <3> QED
      BY <2>1, <1>3, <1>6, <3>1, <3>2
  <2> QED
    BY <2>1 DEF BinsSound
<1>15. AllocatedSizes' /\ HeapNotTaken'
  BY <1>3 DEF HeapInv, AllocatedSizes, HeapNotTaken, MkChunk
<1> QED
  BY <1>13, <1>14, <1>15 DEF HeapInv

\* An allocation that splits a chunk keeps the heap sound.
LEMMA SplitToAllocateSound ==
    ASSUME HeapInv, TypeOK', NEW b \in Requests, SplitToAllocate(b)
    PROVE  HeapInv'
<1>1. first_time /\ first_time'
  BY DEF SplitToAllocate
<1> PICK i \in Bins : \E s \in i + 1 .. NBins - 1 : \E theRoot \in bin[s] :
                         SplitsInto(b, i, s, theRoot)
  BY DEF SplitToAllocate, SplitsInto
<1> PICK s \in i + 1 .. NBins - 1 : \E theRoot \in bin[s] :
                         SplitsInto(b, i, s, theRoot)
  OBVIOUS
<1> PICK theRoot \in bin[s] : SplitsInto(b, i, s, theRoot)
  OBVIOUS
<1> QED
  BY <1>1, SplitSound

\* Two chunks that touch become one chunk of the next bin.
LEMMA MergePairSound ==
    ASSUME HeapInv, TypeOK', MergePair
    PROVE  HeapInv'
<1> DEFINE m == merge_index
<1>1. m \in Bins /\ m + 1 \in Bins /\ m # m + 1 /\ m < m + 1
  BY SizesAssumption DEF MergePair, Merging, HeapInv, TypeOK, Bins, None
<1> PICK c \in bin[m] : \E d \in bin[m] : MergesInto(c, d)
  BY DEF MergePair, FirstAdjacent, MergesInto
<1> PICK d \in bin[m] : MergesInto(c, d)
  OBVIOUS
<1> DEFINE u == MkChunk(c.addr, 2 * c.size)
<1>2. /\ bin'[m] = bin[m] \ {c, d}
      /\ bin'[m + 1] = bin[m + 1] \cup {u}
      /\ \A k \in Bins : k # m /\ k # m + 1 => bin'[k] = bin[k]
      /\ allocated_heap' = allocated_heap
  BY <1>1 DEF MergesInto, MergePair, HeapInv, TypeOK
<1>3. /\ c \in Chunks /\ d \in Chunks /\ c \in Chunk /\ d \in Chunk
      /\ c.size = Bytes[m] /\ d.size = Bytes[m]
      /\ d.addr = End(c)
  BY <1>1, InChunks, ChunkSizes DEF HeapInv, BinsSound, MergesInto
<1>4. u.addr = c.addr /\ u.size = Bytes[m + 1] /\ End(u) = End(d)
  BY <1>1, <1>3, SizesAssumption DEF MkChunk, End, Chunk
<1>5. c \notin allocated_heap /\ d \notin allocated_heap
  BY <1>1 DEF HeapInv, BinsSound
<1>6. \A k \in Bins : c \in bin[k] \/ d \in bin[k] => k = m
  BY <1>1, <1>3, BytesGrow DEF HeapInv, BinsSound
<1>7. ASSUME NEW e \in Chunks'
      PROVE  (e \in Chunks /\ e # c /\ e # d) \/ e = u
  <2>1. CASE e \in allocated_heap'
    BY <2>1, <1>2, <1>5, InChunks
  <2>2. CASE e \in FreeChunks'
    <3> PICK k \in Bins : e \in bin'[k]
      BY <2>2 DEF FreeChunks
    <3> QED
      BY <1>1, <1>2, <1>6, InChunks
  <2> QED
    BY <2>1, <2>2 DEF Chunks
<1>8. c.addr \in Nat /\ d.addr \in Nat /\ Bytes[m] \in Nat /\ Bytes[m] > 0
  BY <1>1, <1>3, BytesGrow DEF Chunk
<1>9. ASSUME NEW e \in Chunks, e # c, e # d
      PROVE  Apart(e, u) /\ Apart(u, e) /\ e # u
  <2>1. e.addr \in Nat /\ e.size \in Nat /\ e.size > 0
    BY ChunkSizes DEF Chunk
  <2>2. Apart(e, c) /\ Apart(e, d)
    BY <1>3, <1>9 DEF HeapInv, Disjoint, Apart
  <2> QED
    BY <1>3, <1>4, <1>8, <2>1, <2>2 DEF Apart, End
<1>10. Disjoint'
  <2>1. ASSUME NEW e \in Chunks' PROVE End(e) <= HEAP_INITIAL
    BY <1>3, <1>4, <1>7 DEF HeapInv, Disjoint
  <2>2. ASSUME NEW e \in Chunks', NEW f \in Chunks', e # f PROVE Apart(e, f)
    <3>1. CASE e = u
      BY <3>1, <2>2, <1>7, <1>9
    <3>2. CASE e # u /\ f = u
      BY <3>2, <1>7, <1>9
    <3>3. CASE e # u /\ f # u
      BY <3>3, <2>2, <1>7 DEF HeapInv, Disjoint, Apart
    <3> QED
      BY <3>1, <3>2, <3>3
  <2> QED
    BY <2>1, <2>2 DEF Disjoint, Apart, End, HEAP_INITIAL
<1>11. BinsSound'
  <2>1. ASSUME NEW k \in Bins, NEW e \in bin'[k]
        PROVE  e.size = Bytes[k] /\ e \notin allocated_heap'
    <3>1. CASE e \in bin[k]
      BY <3>1, <1>2 DEF HeapInv, BinsSound
    <3>2. CASE e \notin bin[k]
      <4>1. k = m + 1 /\ e = u
        BY <3>2, <1>1, <1>2
      <4>2. u \notin allocated_heap
        BY <1>5, <1>9, InChunks
      <4> QED
        BY <4>1, <4>2, <1>2, <1>4
    <3> QED
      BY <3>1, <3>2
  <2> QED
    BY <2>1 DEF BinsSound
<1>12. AllocatedSizes' /\ HeapNotTaken'
  BY <1>1, <1>2 DEF HeapInv, AllocatedSizes, HeapNotTaken, MergePair
<1> QED
  BY <1>10, <1>11, <1>12 DEF HeapInv

\* The heap starts out sound.
LEMMA HeapInit == Init => HeapInv
BY DEF Init, HeapInv, TypeOK, BinsSound, AllocatedSizes, HeapNotTaken,
       Disjoint, Chunks, FreeChunks, None

\* Each step keeps the heap sound.
LEMMA HeapStep == HeapInv /\ [Next]_vars => HeapInv'
<1> SUFFICES ASSUME HeapInv, [Next]_vars PROVE HeapInv'
  OBVIOUS
<1>0. TypeOK'
  BY TypeStep DEF HeapInv
<1> USE <1>0 DEF heapVars, mmapVars
<1>1. ASSUME NEW b \in Requests, MmapAllocate(b) PROVE HeapInv'
  BY <1>1, HeapUnchanged DEF MmapAllocate
<1>2. ASSUME NEW b \in Requests,
             \/ MmapFails(b)
             \/ SbrkFails(b)
             \/ NoChunkLeft(b)
             \/ NoProperBin(b)
      PROVE  HeapInv'
  BY <1>2, HeapUnchanged DEF MmapFails, SbrkFails, NoChunkLeft, NoProperBin,
                             Crash
<1>3. ASSUME NEW p, FreeMmap(p) PROVE HeapInv'
  BY <1>3, HeapUnchanged DEF FreeMmap
<1>4. CASE MergeDone
  <2>1. first_time
    BY <1>4 DEF HeapInv, HeapNotTaken, MergeDone, Merging
  <2> QED
    BY <1>4, <2>1, HeapUnchanged DEF MergeDone
<1>5. CASE MergeLastBin
  BY <1>5, HeapUnchanged DEF MergeLastBin, Crash
<1>6. CASE UNCHANGED vars
  BY <1>6, HeapUnchanged DEF vars
<1> QED
  BY <1>1, <1>2, <1>3, <1>4, <1>5, <1>6, FirstAllocateSound,
     NormalAllocateSound, SplitToAllocateSound, FreeHeapSound, MergePairSound
  DEF Next, Malloc, Free, Merge

\* Whatever is allocated, freed and merged, in any order, the lists agree with
\* the sizes in the chunk headers, no chunk is on two lists, and no two chunks
\* share a byte.
THEOREM HeapSound == Spec => [](BinsSound /\ Disjoint)
<1>1. HeapInv => BinsSound /\ Disjoint
  BY DEF HeapInv
<1> QED
  BY <1>1, HeapInit, HeapStep, PTL DEF Spec

\* Two touching chunks of the last bin are the whole heap.
LEMMA LastPairIsHeap ==
    ASSUME HeapInv, NEW c \in bin[NBins - 1], NEW d \in bin[NBins - 1],
           d.addr = End(c)
    PROVE  Chunks = {c, d}
<1> DEFINE B == Bytes[NBins - 1]
<1>1. NBins - 1 \in Bins
  BY SizesAssumption DEF Bins
<1>2. c \in Chunks /\ d \in Chunks
  BY <1>1, InChunks
<1>3. c.size = B /\ d.size = B /\ c.addr \in Nat /\ d.addr \in Nat
  BY <1>1, <1>2, ChunkSizes DEF HeapInv, BinsSound, Chunk
<1>4. B \in Nat /\ B > 0
  BY <1>1, BytesGrow
<1>5. c.addr = 0 /\ d.addr = B
  <2>1. End(d) <= 2 * B
    BY <1>2 DEF HeapInv, Disjoint, HEAP_INITIAL
  <2> QED
    BY <2>1, <1>3, <1>4 DEF End
<1>6. ASSUME NEW e \in Chunks PROVE e = c \/ e = d
  <2>1. e.addr \in Nat /\ e.size \in Nat /\ e.size > 0 /\ End(e) <= 2 * B
    BY ChunkSizes DEF HeapInv, Disjoint, HEAP_INITIAL, Chunk
  <2>2. e # c /\ e # d => Apart(e, c) /\ Apart(e, d)
    BY <1>2 DEF HeapInv, Disjoint, Apart
  <2> QED
    BY <1>3, <1>4, <1>5, <2>1, <2>2 DEF Apart, End
<1> QED
  BY <1>2, <1>6

\* The write past the array of bins can only come when the whole heap is free.
THEOREM LastMergeOfFreeHeap == Spec => []LastMergeMeansAllFree
<1> DEFINE L == HeapInv /\ LastMergeMeansAllFree
<1>1. Init => L
  BY HeapInit DEF Init, LastMergeMeansAllFree
<1>2. L /\ [Next]_vars => L'
  <2> SUFFICES ASSUME L, [Next]_vars PROVE LastMergeMeansAllFree'
    BY HeapStep
  <2> USE DEF heapVars, mmapVars
  <2>1. CASE MergeLastBin
    <3> PICK c \in bin[merge_index] : \E d \in bin[merge_index] :
                                         d.addr = End(c)
      BY <2>1 DEF MergeLastBin, Adjacent
    <3> PICK d \in bin[merge_index] : d.addr = End(c)
      OBVIOUS
    <3>1. merge_index = NBins - 1 /\ NBins - 1 \in Bins
      BY <2>1, SizesAssumption DEF MergeLastBin, Bins
    <3>2. Chunks = {c, d}
      BY <3>1, LastPairIsHeap
    <3>3. c \notin allocated_heap /\ d \notin allocated_heap
      BY <3>1 DEF HeapInv, BinsSound
    <3>4. allocated_heap = {} /\ FreeChunks = bin[NBins - 1]
      BY <3>1, <3>2, <3>3 DEF Chunks, FreeChunks
    <3> QED
      BY <2>1, <3>4
      DEF MergeLastBin, Crash, LastMergeMeansAllFree, FreeChunks
  <2>2. CASE UNCHANGED vars
    BY <2>2 DEF vars, LastMergeMeansAllFree, FreeChunks
  <2>3. CASE Next /\ ~MergeLastBin
    <3>1. fault' # "bin[NBins]"
      BY <2>3
      DEF Next, Malloc, Free, Merge, MmapAllocate, MmapFails, FirstAllocate,
          SbrkFails, NormalAllocate, SplitToAllocate, NoChunkLeft, NoProperBin,
          FreeMmap, FreeHeap, MergeDone, MergePair, Ready, Merging, Crash
    <3> QED
      BY <3>1 DEF LastMergeMeansAllFree
  <2> QED
    BY <2>1, <2>2, <2>3
<1>3. L => LastMergeMeansAllFree
  OBVIOUS
<1> QED
  BY <1>1, <1>2, <1>3, PTL DEF Spec

-----------------------------------------------------------------------------
(* No byte of the heap is lost                                              *)

\* A free chunk is in the bin of its size, and in no list twice: hw_free and
\* split_to_allocate() find the chunks where they look for them.
THEOREM BinsAreSound == Spec => []BinsSound
<1>1. HeapInv => BinsSound
  BY DEF HeapInv
<1> QED
  BY <1>1, HeapInit, HeapStep, PTL DEF Spec

Covers(c, x) == c.addr <= x /\ x < End(c)

\* The upper parts of a chunk that is cut down to bin i leave no gap: the byte
\* at distance x from its start is in the part of some bin k.
LEMMA UpperPart ==
    ASSUME NEW i \in Bins, NEW m \in Bins, i <= m, NEW x \in Nat,
           Bytes[i] <= x, x < 2 * Bytes[m]
    PROVE  \E k \in i .. m : k \in Bins /\ Bytes[k] <= x /\ x < 2 * Bytes[k]
<1> DEFINE T == {k \in i .. m : x < 2 * Bytes[k]}
<1>1. T \subseteq Nat /\ m \in T
  BY SizesAssumption DEF Bins
<1> HIDE DEF T
<1> PICK k \in T : \A l \in T : k <= l
  BY <1>1, LeastNatural
<1>2. k \in i .. m /\ k \in Bins /\ x < 2 * Bytes[k]
  BY SizesAssumption DEF T, Bins
<1>3. CASE k = i
  BY <1>2, <1>3
<1>4. CASE k # i
  <2>1. k - 1 \in i .. m /\ k - 1 \in Bins /\ (k - 1) + 1 = k
    BY <1>2, <1>4, SizesAssumption DEF Bins
  <2>2. k - 1 \notin T
    BY <1>2
  <2>3. 2 * Bytes[k - 1] <= x
    BY <2>1, <2>2, BytesGrow DEF T
  <2>4. Bytes[k] = 2 * Bytes[k - 1]
    BY <1>2, <2>1, SizesAssumption
  <2> QED
    BY <1>2, <2>3, <2>4
<1> QED
  BY <1>3, <1>4

\* A step that keeps every chunk, in whatever list, loses no byte.
LEMMA ChunksKept ==
    ASSUME Tiling, first_time' => first_time,
           \A c \in Chunks : c \in Chunks'
    PROVE  Tiling'
BY DEF Tiling, End, HEAP_INITIAL

\* The parts split_to_index() cuts the new heap into cover it.
LEMMA FirstAllocateTiles ==
    ASSUME HeapInv, NEW b \in Requests, FirstAllocate(b)
    PROVE  Tiling'
<1> PICK i \in Bins :
      /\ bin' = [k \in Bins |-> IF k >= i THEN {MkChunk(Bytes[k], Bytes[k])}
                                          ELSE {}]
      /\ allocated_heap' = allocated_heap \cup {MkChunk(0, Bytes[i])}
  BY DEF FirstAllocate
<1>1. MkChunk(0, Bytes[i]) \in Chunks'
  BY DEF Chunks
<1>2. \A k \in Bins : k >= i => MkChunk(Bytes[k], Bytes[k]) \in Chunks'
  BY DEF Chunks, FreeChunks
<1>3. NBins - 1 \in Bins /\ i <= NBins - 1
  BY SizesAssumption DEF Bins
<1>4. ASSUME NEW x \in 0 .. HEAP_INITIAL - 1
      PROVE  \E c \in Chunks' : Covers(c, x)
  <2>1. x \in Nat /\ x < 2 * Bytes[NBins - 1]
    BY <1>3, BytesGrow DEF HEAP_INITIAL
  <2>2. CASE x < Bytes[i]
    <3>1. Covers(MkChunk(0, Bytes[i]), x)
      BY <2>1, <2>2, BytesGrow DEF Covers, End, MkChunk
    <3> QED
      BY <3>1, <1>1
  <2>3. CASE Bytes[i] <= x
    <3> PICK k \in i .. NBins - 1 :
          k \in Bins /\ Bytes[k] <= x /\ x < 2 * Bytes[k]
      BY <2>1, <2>3, <1>3, UpperPart
    <3>1. k >= i
      BY DEF Bins
    <3>2. Covers(MkChunk(Bytes[k], Bytes[k]), x)
      BY <2>1, BytesGrow DEF Covers, End, MkChunk
    <3> QED
      BY <3>1, <3>2, <1>2
  <2> QED
    BY <2>1, <2>2, <2>3, BytesGrow
<1> QED
  BY <1>4 DEF Tiling, Covers, End, HEAP_INITIAL

\* The parts of a chunk that is cut cover what it covered.
LEMMA SplitTiles ==
    ASSUME HeapInv, Tiling, first_time,
           NEW b \in Requests, NEW i \in Bins, NEW s \in i + 1 .. NBins - 1,
           NEW theRoot \in bin[s], SplitsInto(b, i, s, theRoot)
    PROVE  Tiling'
<1> DEFINE r == theRoot.addr
           Upper(k) == MkChunk(r + Bytes[k], Bytes[k])
           low == MkChunk(r, Bytes[i])
<1>1. s \in Bins /\ i < s /\ theRoot \in Chunks /\ theRoot.size = Bytes[s]
  BY SizesAssumption, InChunks DEF Bins, HeapInv, BinsSound
<1>2. r \in Nat
  BY <1>1, ChunkSizes DEF Chunk
<1>3. /\ \A k \in Bins : bin[k] \ {theRoot} \subseteq bin'[k]
      /\ \A k \in Bins : k \in i .. s - 1 => Upper(k) \in bin'[k]
      /\ allocated_heap' = allocated_heap \cup {low}
  BY <1>1 DEF SplitsInto, SplitBins
<1>4. \A c \in Chunks : c # theRoot => c \in Chunks'
  BY <1>3 DEF Chunks, FreeChunks
<1>5. low \in Chunks' /\ \A k \in Bins : k \in i .. s - 1 => Upper(k) \in Chunks'
  BY <1>3 DEF Chunks, FreeChunks
<1>6. ASSUME NEW x \in 0 .. HEAP_INITIAL - 1, Covers(theRoot, x)
      PROVE  \E c \in Chunks' : Covers(c, x)
  <2>1. x - r \in Nat /\ x - r < Bytes[s] /\ x \in Int
    BY <1>1, <1>2, <1>6, BytesGrow DEF Covers, End
  <2>2. CASE x - r < Bytes[i]
    <3>1. Covers(low, x)
      BY <1>2, <2>1, <2>2, BytesGrow DEF Covers, End, MkChunk
    <3> QED
      BY <3>1, <1>5
  <2>3. CASE Bytes[i] <= x - r
    <3>1. s - 1 \in Bins /\ i <= s - 1 /\ (s - 1) + 1 = s
      BY <1>1, SizesAssumption DEF Bins
    <3>2. Bytes[s] = 2 * Bytes[s - 1]
      BY <3>1, <1>1, SizesAssumption
    <3> PICK k \in i .. s - 1 :
          k \in Bins /\ Bytes[k] <= x - r /\ x - r < 2 * Bytes[k]
      BY <2>1, <2>3, <3>1, <3>2, UpperPart
    <3>3. Covers(Upper(k), x)
      BY <1>2, <2>1, BytesGrow DEF Covers, End, MkChunk
    <3> QED
      BY <3>3, <1>5
  <2> QED
    BY <2>1, <2>2, <2>3, BytesGrow
<1>7. ASSUME NEW x \in 0 .. HEAP_INITIAL - 1
      PROVE  \E c \in Chunks' : Covers(c, x)
  <2> PICK c \in Chunks : Covers(c, x)
    BY DEF Tiling, Covers
  <2> QED
    BY <1>4, <1>6
<1> QED
  BY <1>7 DEF Tiling, Covers, End, HEAP_INITIAL

\* A merged chunk covers what its two halves covered.
LEMMA MergePairTiles ==
    ASSUME HeapInv, Tiling, MergePair
    PROVE  Tiling'
<1> DEFINE m == merge_index
<1>1. m \in Bins /\ m + 1 \in Bins /\ m # m + 1
  BY SizesAssumption DEF MergePair, Merging, HeapInv, TypeOK, Bins, None
<1> PICK c \in bin[m] : \E d \in bin[m] : MergesInto(c, d)
  BY DEF MergePair, FirstAdjacent, MergesInto
<1> PICK d \in bin[m] : MergesInto(c, d)
  OBVIOUS
<1> DEFINE u == MkChunk(c.addr, 2 * c.size)
<1>2. /\ \A k \in Bins : bin[k] \ {c, d} \subseteq bin'[k]
      /\ u \in bin'[m + 1]
      /\ allocated_heap' = allocated_heap
      /\ first_time' = first_time
  BY <1>1 DEF MergesInto, MergePair, HeapInv, TypeOK
<1>3. /\ c \in Chunks /\ d \in Chunks /\ c \in Chunk /\ d \in Chunk
      /\ c.size = Bytes[m] /\ d.size = Bytes[m]
      /\ d.addr = End(c)
  BY <1>1, InChunks, ChunkSizes DEF HeapInv, BinsSound, MergesInto
<1>4. u \in Chunks' /\ \A e \in Chunks : e \notin {c, d} => e \in Chunks'
  BY <1>1, <1>2 DEF Chunks, FreeChunks
<1>5. ASSUME NEW x \in Int, Covers(c, x) \/ Covers(d, x)
      PROVE  Covers(u, x)
  BY <1>1, <1>3, <1>5, BytesGrow DEF Covers, End, MkChunk, Chunk
<1>6. ASSUME NEW x \in 0 .. HEAP_INITIAL - 1, first_time
      PROVE  \E e \in Chunks' : Covers(e, x)
  <2> PICK e \in Chunks : Covers(e, x)
    BY <1>6 DEF Tiling, Covers
  <2>1. x \in Int
    OBVIOUS
  <2> QED
    BY <2>1, <1>4, <1>5
<1> QED
  BY <1>2, <1>6 DEF Tiling, Covers, End, HEAP_INITIAL

\* Each step keeps the heap covered.
LEMMA TilingStep == HeapInv /\ Tiling /\ [Next]_vars => Tiling'
<1> SUFFICES ASSUME HeapInv, Tiling, [Next]_vars PROVE Tiling'
  OBVIOUS
<1> USE DEF heapVars, mmapVars
<1>1. ASSUME UNCHANGED <<first_time, bin, allocated_heap>> PROVE Tiling'
  BY <1>1, ChunksKept DEF Chunks, FreeChunks
<1>2. ASSUME NEW b \in Requests, NormalAllocate(b) PROVE Tiling'
  <2> PICK i \in Bins : \E pop \in bin[i] :
        /\ bin' = [bin EXCEPT ![i] = @ \ {pop}]
        /\ allocated_heap' = allocated_heap \cup {pop}
    BY <1>2 DEF NormalAllocate
  <2> PICK pop \in bin[i] :
        /\ bin' = [bin EXCEPT ![i] = @ \ {pop}]
        /\ allocated_heap' = allocated_heap \cup {pop}
    OBVIOUS
  <2>1. \A k \in Bins : bin[k] \ {pop} \subseteq bin'[k]
    BY DEF HeapInv, TypeOK
  <2>2. \A c \in Chunks : c \in Chunks'
    BY <2>1 DEF Chunks, FreeChunks
  <2> QED
    BY <1>2, <2>2, ChunksKept DEF NormalAllocate
<1>3. ASSUME NEW b \in Requests, SplitToAllocate(b) PROVE Tiling'
  <2> PICK i \in Bins : \E s \in i + 1 .. NBins - 1 : \E theRoot \in bin[s] :
                           SplitsInto(b, i, s, theRoot)
    BY <1>3 DEF SplitToAllocate, SplitsInto
  <2> PICK s \in i + 1 .. NBins - 1 : \E theRoot \in bin[s] :
                           SplitsInto(b, i, s, theRoot)
    OBVIOUS
  <2> PICK theRoot \in bin[s] : SplitsInto(b, i, s, theRoot)
    OBVIOUS
  <2> QED
    BY <1>3, SplitTiles DEF SplitToAllocate
<1>4. ASSUME NEW p, FreeHeap(p) PROVE Tiling'
  <2> PICK c \in allocated_heap : \E i \in Bins :
        /\ allocated_heap' = allocated_heap \ {c}
        /\ bin' = [bin EXCEPT ![i] = @ \cup {c}]
    BY <1>4 DEF FreeHeap
  <2> PICK i \in Bins :
        /\ allocated_heap' = allocated_heap \ {c}
        /\ bin' = [bin EXCEPT ![i] = @ \cup {c}]
    OBVIOUS
  <2>1. c \in bin'[i] /\ \A k \in Bins : bin[k] \subseteq bin'[k]
    BY DEF HeapInv, TypeOK
  <2>2. \A e \in Chunks : e \in Chunks'
    BY <2>1 DEF Chunks, FreeChunks
  <2> QED
    BY <1>4, <2>2, ChunksKept DEF FreeHeap
<1>5. ASSUME NEW b \in Requests, Malloc(b) PROVE Tiling'
  BY <1>1, <1>2, <1>3, <1>5, FirstAllocateTiles
  DEF Malloc, MmapAllocate, MmapFails, SbrkFails, NoChunkLeft, NoProperBin,
      Crash
<1>6. CASE Free
  BY <1>1, <1>4, <1>6 DEF Free, FreeMmap
<1>7. CASE Merge
  BY <1>1, <1>7, MergePairTiles DEF Merge, MergeDone, MergeLastBin, Crash
<1>8. CASE UNCHANGED vars
  BY <1>1, <1>8 DEF vars
<1> QED
  BY <1>5, <1>6, <1>7, <1>8 DEF Next

\* Once the heap is taken from sbrk, every byte of it stays in some chunk,
\* free or in use, also while merge() is half-way.
THEOREM HeapIsTiled == Spec => []Tiling
<1>1. Init => Tiling
  BY DEF Init, Tiling
<1> QED
  BY <1>1, HeapInit, HeapStep, TilingStep, PTL DEF Spec

-----------------------------------------------------------------------------
(* The caller's blocks                                                      *)

Block(addr, b) == [ptr |-> addr + HDR, bytes |-> b]

\* What the three paths through heap_allocate() and split_to_index() have in
\* common: a chunk that is big enough and was not in use goes into use.
Gives(b, c) ==
    /\ c.addr \in Nat /\ c.size \in Nat /\ c.size > 0
    /\ c.addr + HDR + b <= End(c)
    /\ allocated_heap' = allocated_heap \cup {c}
    /\ \A e \in allocated_heap : Apart(e, c)
    /\ End(c) <= HEAP_INITIAL
    /\ held' = held \cup {Block(c.addr, b)}

HeldInv == HeapInv /\ HeldBacked /\ HeldOnce

\* A block of the caller lies inside one chunk in use.
LEMMA HeldChunk ==
    ASSUME HeldInv, NEW h \in held
    PROVE  \E c \in allocated_heap :
              /\ c \in Chunks /\ c.addr \in Nat /\ c.size \in Nat /\ c.size > 0
              /\ h.ptr = c.addr + HDR
              /\ h.ptr + h.bytes <= End(c)
              /\ h.ptr \in Nat /\ h.bytes \in Nat /\ HDR \in Nat
<1>1. h.ptr \in Nat /\ h.bytes \in Nat /\ HDR \in Nat
  <2>1. h \in [ptr : Nat, bytes : Requests]
    BY DEF HeldInv, HeapInv, TypeOK
  <2>2. HDR \in Nat /\ \A b \in Requests : b \in Nat
    BY RequestAssumption, SizesAssumption
  <2> QED
    BY <2>1, <2>2
<1>2. PICK c \in allocated_heap :
         c.addr = h.ptr - HDR /\ h.ptr + h.bytes <= End(c)
  BY DEF HeldInv, HeldBacked
<1>3. c \in Chunks /\ c.addr \in Nat /\ c.size \in Nat /\ c.size > 0
  BY InChunks, ChunkSizes DEF HeldInv, Chunk
<1> QED
  BY <1>1, <1>2, <1>3

\* A chunk that is handed out backs what the caller asked for.
LEMMA GivesSound ==
    ASSUME HeldInv, HeapInv', NEW b \in Requests, NEW c, Gives(b, c)
    PROVE  HeldInv'
<1>1. HDR \in Nat /\ b \in Nat
  BY RequestAssumption, SizesAssumption
<1>2. HeldBacked'
  <2>1. ASSUME NEW h \in held'
        PROVE  \E e \in allocated_heap' :
                  e.addr = h.ptr - HDR /\ h.ptr + h.bytes <= End(e)
    <3>1. CASE h \in held
      BY <3>1 DEF HeldInv, HeldBacked, Gives
    <3>2. CASE h = Block(c.addr, b)
      BY <3>2, <1>1 DEF Gives, Block
    <3> QED
      BY <2>1, <3>1, <3>2 DEF Gives
  <2>2. ASSUME NEW e \in allocated_heap'
        PROVE  \E h \in held' : h.ptr = e.addr + HDR
    <3>1. CASE e \in allocated_heap
      BY <3>1 DEF HeldInv, HeldBacked, Gives
    <3>2. CASE e = c
      <4>1. Block(c.addr, b) \in held' /\ Block(c.addr, b).ptr = c.addr + HDR
        BY DEF Gives, Block
      <4> QED
        BY <3>2, <4>1
    <3> QED
      BY <2>2, <3>1, <3>2 DEF Gives
  <2> QED
    BY <2>1, <2>2 DEF HeldBacked, End
<1>3. HeldOnce'
  <2>1. ASSUME NEW h \in held PROVE h.ptr # c.addr + HDR
    <3> PICK e \in allocated_heap :
              /\ e.addr \in Nat /\ e.size \in Nat /\ e.size > 0
              /\ h.ptr = e.addr + HDR
      BY HeldChunk
    <3> QED
      BY <1>1 DEF Gives, Apart, End
  <2> QED
    BY <2>1 DEF HeldInv, HeldOnce, Gives, Block
<1> QED
  BY <1>2, <1>3 DEF HeldInv

\* Each allocating path gives a chunk.
LEMMA AllocatesGive ==
    ASSUME HeldInv, HeapInv', NEW b \in Requests,
           FirstAllocate(b) \/ NormalAllocate(b) \/ SplitToAllocate(b)
    PROVE  \E c : Gives(b, c)
<1>1. HDR \in Nat /\ b \in Nat
  BY RequestAssumption, SizesAssumption
<1>2. ASSUME NEW i \in Bins, NEW c, IsProperBin(i, RequireByte(b)),
             c.addr \in Nat, c.size = Bytes[i], c \notin allocated_heap,
             allocated_heap' = allocated_heap \cup {c},
             Give(c.addr, b)
      PROVE  Gives(b, c)
  <2>1. c.size \in Nat /\ c.size > 0 /\ c.addr + HDR + b <= End(c)
    BY <1>1, <1>2, RequireByteExact, BytesGrow DEF End
  <2>2. c \in Chunks' /\ \A e \in allocated_heap : e \in Chunks'
    BY <1>2 DEF Chunks
  <2>3. \A e \in allocated_heap : Apart(e, c)
    BY <1>2, <2>2 DEF HeapInv, Disjoint, Apart, End
  <2>4. End(c) <= HEAP_INITIAL
    BY <2>2 DEF HeapInv, Disjoint, End, HEAP_INITIAL
  <2> QED
    BY <1>2, <2>1, <2>3, <2>4 DEF Gives, Give, Block
<1>3. CASE FirstAllocate(b)
  <2> PICK i \in Bins :
        /\ IsProperBin(i, RequireByte(b))
        /\ allocated_heap' = allocated_heap \cup {MkChunk(0, Bytes[i])}
    BY <1>3 DEF FirstAllocate
  <2>1. allocated_heap = {} /\ Give(0, b)
    BY <1>3 DEF HeldInv, HeapInv, HeapNotTaken, FirstAllocate
  <2>2. MkChunk(0, Bytes[i]).addr = 0 /\ MkChunk(0, Bytes[i]).size = Bytes[i]
    BY DEF MkChunk
  <2>3. Gives(b, MkChunk(0, Bytes[i]))
    BY <2>1, <2>2, <1>2
  <2> QED
    BY <2>3
<1>4. CASE NormalAllocate(b)
  <2> PICK i \in Bins : \E pop \in bin[i] :
        /\ IsProperBin(i, RequireByte(b))
        /\ allocated_heap' = allocated_heap \cup {pop}
        /\ Give(pop.addr, b)
    BY <1>4 DEF NormalAllocate
  <2> PICK pop \in bin[i] :
        /\ IsProperBin(i, RequireByte(b))
        /\ allocated_heap' = allocated_heap \cup {pop}
        /\ Give(pop.addr, b)
    OBVIOUS
  <2>1. pop.addr \in Nat /\ pop.size = Bytes[i] /\ pop \notin allocated_heap
    BY InChunks, ChunkSizes DEF HeldInv, HeapInv, BinsSound, Chunk
  <2> QED
    BY <2>1, <1>2
<1>5. CASE SplitToAllocate(b)
  <2> PICK i \in Bins : \E s \in i + 1 .. NBins - 1 : \E theRoot \in bin[s] :
                           SplitsInto(b, i, s, theRoot)
    BY <1>5 DEF SplitToAllocate, SplitsInto
  <2> PICK s \in i + 1 .. NBins - 1 : \E theRoot \in bin[s] :
                           SplitsInto(b, i, s, theRoot)
    OBVIOUS
  <2> PICK theRoot \in bin[s] : SplitsInto(b, i, s, theRoot)
    OBVIOUS
  <2> DEFINE low == MkChunk(theRoot.addr, Bytes[i])
  <2>1. s \in Bins /\ i # s
    BY SizesAssumption DEF Bins
  <2>2. /\ theRoot \in Chunks /\ theRoot \notin allocated_heap
        /\ theRoot.addr \in Nat /\ theRoot.size = Bytes[s]
    BY <2>1, InChunks, ChunkSizes DEF HeldInv, HeapInv, BinsSound, Chunk
  <2>3. low \notin allocated_heap
    BY <2>1, <2>2, InChunks, OneChunkPerAddr DEF HeldInv, MkChunk
  <2> QED
    BY <2>2, <2>3, <1>2 DEF SplitsInto, MkChunk
<1> QED
  BY <1>3, <1>4, <1>5

\* Freeing a chunk ends the caller's hold on it and on no other.
LEMMA FreeHeapHeld ==
    ASSUME HeldInv, HeapInv', NEW p \in Int, FreeHeap(p)
    PROVE  HeldInv'
<1> PICK c \in allocated_heap :
      /\ c.addr = p - HDR
      /\ allocated_heap' = allocated_heap \ {c}
  BY DEF FreeHeap
<1>1. held' = {h \in held : h.ptr # p}
  BY DEF FreeHeap
<1>2. ASSUME NEW h \in held'
      PROVE  \E e \in allocated_heap' :
                e.addr = h.ptr - HDR /\ h.ptr + h.bytes <= End(e)
  <2>1. h \in held /\ h.ptr # p
    BY <1>1, <1>2
  <2> PICK e \in allocated_heap :
        /\ h.ptr = e.addr + HDR /\ h.ptr + h.bytes <= End(e)
        /\ e.addr \in Nat /\ HDR \in Nat
    BY <2>1, HeldChunk
  <2>2. e # c
    BY <2>1
  <2> QED
    BY <2>1, <2>2 DEF HeldInv, HeldBacked
<1>3. ASSUME NEW e \in allocated_heap'
      PROVE  \E h \in held' : h.ptr = e.addr + HDR
  <2> PICK h \in held : h.ptr = e.addr + HDR
    BY <1>3 DEF HeldInv, HeldBacked
  <2>1. e \in Chunks /\ c \in Chunks /\ e # c
    BY <1>3, InChunks
  <2>2. e.addr # c.addr /\ e.addr \in Nat /\ HDR \in Nat
    BY <2>1, OneChunkPerAddr, ChunkSizes, SizesAssumption DEF HeldInv, Chunk
  <2>3. h.ptr # p
    BY <2>2
  <2> QED
    BY <1>1, <2>3
<1>4. HeldBacked'
  BY <1>2, <1>3 DEF HeldBacked, End
<1>5. HeldOnce'
  BY <1>1 DEF HeldInv, HeldOnce
<1> QED
  BY <1>4, <1>5 DEF HeldInv

\* A step that touches neither the chunks in use nor what is held.
LEMMA HeldUnchanged ==
    ASSUME HeldInv, HeapInv', UNCHANGED <<allocated_heap, held>>
    PROVE  HeldInv'
BY DEF HeldInv, HeldBacked, HeldOnce, End

\* Each step keeps what the caller holds backed.
LEMMA HeldStep == HeldInv /\ [Next]_vars => HeldInv'
<1> SUFFICES ASSUME HeldInv, [Next]_vars PROVE HeldInv'
  OBVIOUS
<1>0. HeapInv'
  BY HeapStep DEF HeldInv
<1> USE <1>0 DEF heapVars, mmapVars
<1>1. ASSUME NEW b \in Requests,
             FirstAllocate(b) \/ NormalAllocate(b) \/ SplitToAllocate(b)
      PROVE  HeldInv'
  BY <1>1, AllocatesGive, GivesSound
<1>2. ASSUME NEW b \in Requests,
             \/ MmapAllocate(b)
             \/ MmapFails(b)
             \/ SbrkFails(b)
             \/ NoChunkLeft(b)
             \/ NoProperBin(b)
      PROVE  HeldInv'
  BY <1>2, HeldUnchanged DEF MmapAllocate, MmapFails, SbrkFails, NoChunkLeft,
                             NoProperBin, Crash
<1>3. ASSUME NEW p, FreeMmap(p) PROVE HeldInv'
  BY <1>3, HeldUnchanged DEF FreeMmap
<1>4. CASE Merge
  BY <1>4, HeldUnchanged DEF Merge, MergeDone, MergePair, MergeLastBin, Crash
<1>5. CASE UNCHANGED vars
  BY <1>5, HeldUnchanged DEF vars
<1>6. \A a \in 0 .. HEAP_INITIAL - 1 : a + HDR \in Int
  BY SizesAssumption
<1> QED
  BY <1>1, <1>2, <1>3, <1>4, <1>5, <1>6, FreeHeapHeld DEF Next, Malloc, Free

\* The caller starts out with nothing.
LEMMA HeldInit == Init => HeldInv
BY HeapInit DEF Init, HeldInv, HeldBacked, HeldOnce

\* Every block the caller holds is backed by a chunk in use that is large
\* enough, and every chunk in use belongs to the caller.
THEOREM HeldIsBacked == Spec => []HeldBacked
<1>1. HeldInv => HeldBacked
  BY DEF HeldInv
<1> QED
  BY <1>1, HeldInit, HeldStep, PTL DEF Spec

-----------------------------------------------------------------------------
(* hw_malloc and hw_free implement an allocator                             *)

\* A block given to the caller overlaps none that the caller holds.
LEMMA GivesAllocates ==
    ASSUME HeldInv, NEW b \in Requests, NEW c, Gives(b, c)
    PROVE  Alloc!Next
<1> DEFINE new == Block(c.addr, b)
<1>1. HDR \in Nat /\ b \in Nat /\ HEAP_INITIAL \in Nat
  BY RequestAssumption, SizesAssumption, BytesGrow DEF HEAP_INITIAL, Bins
<1>2. new.ptr = c.addr + HDR /\ new.bytes = b
  BY DEF Block
<1>3. new \in [ptr : {a + HDR : a \in 0 .. HEAP_INITIAL - 1}, bytes : Requests]
  <2>1. c.addr \in 0 .. HEAP_INITIAL - 1
    BY <1>1 DEF Gives, End
  <2> QED
    BY <2>1 DEF Block
<1>4. new.ptr + new.bytes <= HEAP_INITIAL
  BY <1>1, <1>2 DEF Gives, End
<1>5. ASSUME NEW h \in held PROVE ~Alloc!Overlap(new, h)
  <2> PICK e \in allocated_heap :
        /\ e.addr \in Nat /\ e.size \in Nat /\ e.size > 0
        /\ h.ptr = e.addr + HDR
        /\ h.ptr + h.bytes <= End(e)
        /\ h.ptr \in Nat /\ h.bytes \in Nat
    BY HeldChunk
  <2>1. Apart(e, c)
    BY DEF Gives
  <2> QED
    BY <1>1, <1>2, <2>1 DEF Gives, Apart, End, Alloc!Overlap
<1>6. Alloc!Allocate(new)
  BY <1>4, <1>5 DEF Gives, Alloc!Allocate
<1> QED
  BY <1>3, <1>6 DEF Alloc!Next

\* hw_free takes back one block.
LEMMA FreeHeapReleases ==
    ASSUME HeldInv, NEW p \in Int, FreeHeap(p)
    PROVE  Alloc!Next
<1> PICK c \in allocated_heap : c.addr = p - HDR
  BY DEF FreeHeap
<1>1. held' = {h \in held : h.ptr # p}
  BY DEF FreeHeap
<1> PICK g \in held : g.ptr = c.addr + HDR
  BY DEF HeldInv, HeldBacked
<1>2. g.ptr = p
  BY HeldChunk, SizesAssumption
<1>3. held' = held \ {g}
  BY <1>1, <1>2 DEF HeldInv, HeldOnce
<1> QED
  BY <1>3 DEF Alloc!Next, Alloc!Release

\* Every execution of hw_malloc and hw_free is one of an allocator: a block
\* lies inside the heap, overlaps no block in use, and stays in use until it
\* is freed.
THEOREM ImplementsAllocator == Spec => AllocatorSpec
<1>1. Init => Alloc!Init
  BY DEF Init, Alloc!Init
<1>2. HeldInv /\ HeldInv' /\ [Next]_vars => [Alloc!Next]_held
  <2> SUFFICES ASSUME HeldInv, HeldInv', [Next]_vars, held' # held
               PROVE  Alloc!Next
    OBVIOUS
  <2>1. HeapInv'
    BY DEF HeldInv
  <2> USE DEF heapVars, mmapVars
  <2>2. ASSUME NEW b \in Requests, Malloc(b) PROVE Alloc!Next
    BY <2>1, <2>2, AllocatesGive, GivesAllocates
    DEF Malloc, MmapAllocate, MmapFails, SbrkFails, NoChunkLeft, NoProperBin,
        Crash
  <2>3. CASE Free
    <3>1. \A a \in 0 .. HEAP_INITIAL - 1 : a + HDR \in Int
      BY SizesAssumption
    <3> QED
      BY <2>3, <3>1, FreeHeapReleases DEF Free, FreeMmap
  <2>4. ~Merge /\ ~UNCHANGED vars
    BY DEF Merge, MergeDone, MergePair, MergeLastBin, Crash, vars
  <2> QED
    BY <2>2, <2>3, <2>4 DEF Next
<1> QED
  BY <1>1, <1>2, HeldInit, HeldStep, PTL DEF Spec, AllocatorSpec, Alloc!Spec

-----------------------------------------------------------------------------
(* The areas taken from the kernel                                          *)

\* No area is as long as half the range of the size field (1 GiB).
AreasFitField == \A b \in Requests : RequireByte(b) < FieldMod \div 2

\* A listed area is mapped, with the length its node stores, and no two areas
\* start at one address: munmap gets the right length.
ListedAreMapped ==
    /\ \A n \in mmap_alloc_list :
          n.size > 0 /\ [addr |-> n.addr, len |-> n.size] \in mapped
    /\ \A m1, m2 \in mapped : m1.addr = m2.addr => m1 = m2

MmapInv == TypeOK /\ MappedIsHeld /\ ListedAreMapped

\* The size field is wide enough for the sizes of areas.
LEMMA StoredSizeExact ==
    ASSUME NEW n \in Nat, n < FieldMod \div 2
    PROVE  StoredSize(n) = n
  BY RequestAssumption DEF StoredSize

\* A new area keeps the lists in step.
LEMMA MmapAllocateSound ==
    ASSUME AreasFitField, MmapInv, NEW b \in Requests, MmapAllocate(b)
    PROVE  MappedIsHeld' /\ ListedAreMapped'
<1>1. RequireByte(b) \in Nat /\ StoredSize(RequireByte(b)) = RequireByte(b)
  BY RequireByteNat, StoredSizeExact DEF AreasFitField
<1>2. RequireByte(b) > 0
  <2>1. MMAP_THRESHOLD \in Nat
    BY BytesGrow, SizesAssumption DEF MMAP_THRESHOLD, Bins
  <2> QED
    BY <1>1, <2>1 DEF MmapAllocate
<1> PICK a \in MmapAddrs :
       /\ \A m \in mapped : m.addr # a
       /\ mapped' = mapped \cup {[addr |-> a, len |-> RequireByte(b)]}
       /\ mmap_alloc_list' = mmap_alloc_list \cup
             {[addr |-> a, size |-> RequireByte(b)]}
       /\ held_mmap' = held_mmap \cup {a + HDR}
  BY <1>1 DEF MmapAllocate
<1> DEFINE area == [addr |-> a, len |-> RequireByte(b)]
<1>3. MappedIsHeld'
  <2>1. mapped' = mapped \cup {area} /\ area.addr = a
    OBVIOUS
  <2>2. held_mmap = {m.addr + HDR : m \in mapped}
    BY DEF MmapInv, MappedIsHeld
  <2> HIDE DEF area
  <2>3. {m.addr + HDR : m \in mapped'} = held_mmap \cup {a + HDR}
    BY <2>1, <2>2
  <2> QED
    BY <2>3 DEF MappedIsHeld
<1>4. ListedAreMapped'
  BY <1>2 DEF MmapInv, ListedAreMapped
<1> QED
  BY <1>3, <1>4

\* hw_free unmaps the area of the node it deletes, and no other.
LEMMA FreeMmapSound ==
    ASSUME MmapInv, NEW p, FreeMmap(p), NEW a \in MmapAddrs, p = a + HDR
    PROVE  MappedIsHeld' /\ ListedAreMapped'
<1>1. HDR \in Nat /\ MmapAddrs \subseteq Nat
  BY SizesAssumption, RequestAssumption
<1> PICK n \in mmap_alloc_list :
       /\ n.addr = p - HDR
       /\ mmap_alloc_list' = mmap_alloc_list \ {n}
       /\ mapped' = mapped \ {[addr |-> n.addr, len |-> n.size]}
       /\ held_mmap' = IF n.size = 0 THEN held_mmap ELSE held_mmap \ {p}
  BY DEF FreeMmap
<1> DEFINE area == [addr |-> n.addr, len |-> n.size]
<1>2. n.size > 0 /\ area \in mapped /\ area.addr = a /\ n.size \in Int
  BY <1>1 DEF MmapInv, ListedAreMapped, TypeOK
<1>3. held_mmap' = held_mmap \ {p}
  BY <1>2
<1>4. ASSUME NEW m \in mapped, m.addr + HDR = p PROVE m = area
  <2>1. m.addr \in Nat /\ a \in Nat
    BY <1>1 DEF MmapInv, TypeOK
  <2>2. m.addr = area.addr
    BY <1>1, <1>2, <1>4, <2>1
  <2> QED
    BY <1>2, <2>2 DEF MmapInv, ListedAreMapped
<1>5. MappedIsHeld'
  BY <1>2, <1>3, <1>4 DEF MmapInv, MappedIsHeld
<1>6. \A o \in mmap_alloc_list \ {n} : [addr |-> o.addr, len |-> o.size] # area
  BY DEF MmapInv, TypeOK
<1>7. ListedAreMapped'
  BY <1>6 DEF MmapInv, ListedAreMapped
<1> QED
  BY <1>5, <1>7

\* Each step keeps the list of areas sound.
LEMMA MmapStep ==
    ASSUME AreasFitField
    PROVE  MmapInv /\ [Next]_vars => MmapInv'
<1> SUFFICES ASSUME MmapInv, [Next]_vars PROVE MmapInv'
  OBVIOUS
<1> USE DEF heapVars, mmapVars
<1>1. TypeOK'
  BY TypeStep DEF MmapInv
<1>2. ASSUME NEW b \in Requests, MmapAllocate(b) PROVE MmapInv'
  BY <1>1, <1>2, MmapAllocateSound DEF MmapInv
<1>3. ASSUME NEW a \in MmapAddrs, FreeMmap(a + HDR) PROVE MmapInv'
  BY <1>1, <1>3, FreeMmapSound DEF MmapInv
<1>4. ASSUME NEW b \in Requests, FirstAllocate(b) PROVE MmapInv'
  BY <1>1, <1>4 DEF FirstAllocate, MmapInv, MappedIsHeld, ListedAreMapped
<1>5. CASE UNCHANGED mmapVars
  BY <1>1, <1>5 DEF MmapInv, MappedIsHeld, ListedAreMapped
<1>6. ASSUME NEW b \in Requests, Malloc(b) PROVE MmapInv'
  BY <1>2, <1>4, <1>5, <1>6
  DEF Malloc, MmapFails, SbrkFails, NormalAllocate, SplitToAllocate,
      NoChunkLeft, NoProperBin, Crash
<1>7. CASE Free
  BY <1>3, <1>5, <1>7 DEF Free, FreeHeap
<1>8. CASE Merge \/ UNCHANGED vars
  BY <1>5, <1>8 DEF Merge, MergeDone, MergePair, MergeLastBin, Crash, vars
<1> QED
  BY <1>6, <1>7, <1>8 DEF Next

\* As long as no request reaches 1 GiB, hw_free unmaps exactly the area the
\* caller releases: the kernel has mapped what the caller holds, the blocks
\* hw_free can no longer find included.
THEOREM MappedAreHeld ==
    ASSUME AreasFitField
    PROVE  Spec => []MappedIsHeld
<1>1. Init => MmapInv
  BY DEF Init, MmapInv, TypeOK, MappedIsHeld, ListedAreMapped, None
<1>2. MmapInv /\ [Next]_vars => MmapInv'
  BY MmapStep
<1>3. MmapInv => MappedIsHeld
  BY DEF MmapInv
<1> QED
  BY <1>1, <1>2, <1>3, PTL DEF Spec

=============================================================================
