------------------------- MODULE HwMallocListsProofs -------------------------
(***************************************************************************)
(* Proofs about HwMallocLists, whatever the caller writes into its blocks. *)
(*                                                                         *)
(* The heap part of HwMallocLists implements HwMalloc: the nodes of a bin  *)
(* are its free chunks, and the chunks in use are those the caller holds,  *)
(* listed or lost.  What is proved about HwMalloc's heap then holds of the *)
(* nodes, and tells the proofs about the lists that nodes are apart.       *)
(***************************************************************************)
EXTENDS HwMallocLists, Groundwork, FiniteSetTheorems

-----------------------------------------------------------------------------
(* Lists                                                                    *)

IsHeaders(h) ==
    /\ DOMAIN h \subseteq Nat
    /\ IsFiniteSet(DOMAIN h)
    /\ h \in [DOMAIN h -> [size : Int, prev : Int, next : Int]]

\* s is a list of headers from head on, linked both ways, whose last next is
\* end.
NextIn(s, k, end) == IF k = Len(s) THEN end ELSE s[k + 1]
PrevIn(s, k)      == IF k = 1 THEN NULL ELSE s[k - 1]
IsChain(h, head, s, end) ==
    /\ s \in Seq(DOMAIN h)
    /\ \A k, l \in 1 .. Len(s) : s[k] = s[l] => k = l
    /\ head = IF s = <<>> THEN NULL ELSE s[1]
    /\ \A k \in 1 .. Len(s) : /\ h[s[k]].next = NextIn(s, k, end)
                              /\ h[s[k]].prev = PrevIn(s, k)

\* The keys of the nodes do not decrease.
Ordered(s, key) == \A k, l \in 1 .. Len(s) : k < l => key[s[k]] <= key[s[l]]

Ends == {NULL, WILD}

-----------------------------------------------------------------------------
(* Headers                                                                  *)

\* A function from 1 .. n is a sequence.
LEMMA MakeSeq ==
    ASSUME NEW S, NEW n \in Nat, NEW f \in [1 .. n -> S]
    PROVE  f \in Seq(S) /\ Len(f) = n /\ DOMAIN f = 1 .. n
OBVIOUS

\* A prev is set in one header, or in none.
LEMMA SetPrevIs ==
    ASSUME NEW h, IsHeaders(h), NEW a \in DOMAIN h \cup {NULL}, NEW p \in Int
    PROVE  LET g == SetPrev(h, a, p)
           IN  /\ IsHeaders(g)
               /\ DOMAIN g = DOMAIN h
               /\ \A b \in DOMAIN h :
                     /\ g[b].size = h[b].size
                     /\ g[b].next = h[b].next
                     /\ g[b].prev = IF a = b THEN p ELSE h[b].prev
                     /\ b # a => g[b] = h[b]
<1>1. CASE a = NULL
  <2>1. \A b \in DOMAIN h : b # a
    BY <1>1 DEF IsHeaders, NULL
  <2> QED
    BY <1>1, <2>1 DEF SetPrev
<1>2. CASE a # NULL
  <2>1. SetPrev(h, a, p) = [h EXCEPT ![a].prev = p]
    BY <1>2 DEF SetPrev
  <2> QED
    BY <1>2, <2>1 DEF IsHeaders
<1> QED
  BY <1>1, <1>2

\* The same, with the headers before and after as one fact.
PrevSet(h, a, p, g) ==
    /\ IsHeaders(g)
    /\ DOMAIN g = DOMAIN h
    /\ \A b \in DOMAIN h :
          /\ g[b].size = h[b].size
          /\ g[b].next = h[b].next
          /\ g[b].prev = IF a = b THEN p ELSE h[b].prev
          /\ b # a => g[b] = h[b]

LEMMA PrevIsSet ==
    ASSUME NEW h, IsHeaders(h), NEW a, a \in DOMAIN h \cup {NULL}, NEW p, p \in Int
    PROVE  PrevSet(h, a, p, SetPrev(h, a, p))
BY SetPrevIs DEF PrevSet

\* A next is set in one header.
LEMMA SetNextIs ==
    ASSUME NEW h, IsHeaders(h), NEW a \in DOMAIN h, NEW p \in Int
    PROVE  LET g == SetNext(h, a, p)
           IN  /\ IsHeaders(g)
               /\ DOMAIN g = DOMAIN h
               /\ \A b \in DOMAIN h :
                     /\ g[b].size = h[b].size
                     /\ g[b].prev = h[b].prev
                     /\ g[b].next = IF a = b THEN p ELSE h[b].next
                     /\ b # a => g[b] = h[b]
BY DEF SetNext, IsHeaders

\* A header is written where a chunk or an area begins.
LEMMA NewNodeIs ==
    ASSUME NEW h, IsHeaders(h), NEW a \in Nat, NEW size \in Int
    PROVE  LET g == NewNode(h, a, size)
           IN  /\ IsHeaders(g)
               /\ DOMAIN g = DOMAIN h \cup {a}
               /\ \A b \in DOMAIN h : b # a => g[b] = h[b]
               /\ g[a].size = size /\ g[a].prev = NULL /\ g[a].next = NULL
<1> DEFINE g == NewNode(h, a, size)
<1>1. /\ DOMAIN g = DOMAIN h \cup {a}
      /\ \A b \in DOMAIN h : b # a => g[b] = h[b]
      /\ g[a] = [size |-> size, prev |-> NULL, next |-> NULL]
      /\ g = [b \in DOMAIN g |-> g[b]]
  BY DEF NewNode
<1>2. IsFiniteSet(DOMAIN g)
  BY <1>1, FS_AddElement DEF IsHeaders
<1>3. g[a] \in [size : Int, prev : Int, next : Int]
  BY <1>1 DEF NULL
<1> HIDE DEF g
<1>4. \A b \in DOMAIN g : g[b] \in [size : Int, prev : Int, next : Int]
  BY <1>1, <1>3 DEF IsHeaders
<1>5. g \in [DOMAIN g -> [size : Int, prev : Int, next : Int]]
  BY <1>1, <1>4
<1>6. IsHeaders(g)
  BY <1>1, <1>2, <1>5 DEF IsHeaders
<1> QED
  BY <1>1, <1>6 DEF g

\* A header is no more.
LEMMA WithoutIs ==
    ASSUME NEW h, IsHeaders(h), NEW a
    PROVE  LET g == Without(h, a)
           IN  /\ IsHeaders(g)
               /\ DOMAIN g = DOMAIN h \ {a}
               /\ \A b \in DOMAIN h \ {a} : g[b] = h[b]
<1>1. IsFiniteSet(DOMAIN h \ {a})
  BY FS_Subset DEF IsHeaders
<1> QED
  BY <1>1 DEF Without, IsHeaders

-----------------------------------------------------------------------------
(* Walks                                                                    *)

\* What Walk looks up: at f[n][b] the walk of at most n nodes from b.
IsWalk(f, h) ==
    f = [n \in 0 .. Cardinality(DOMAIN h) |->
            [b \in Int |-> IF n = 0 \/ b \notin DOMAIN h THEN <<>>
                           ELSE <<b>> \o f[n - 1][h[b].next]]]

\* There is such a function: it is defined by recursion on n.
LEMMA WalkExists ==
    ASSUME NEW h, IsHeaders(h)
    PROVE  \E f : IsWalk(f, h)
<1> DEFINE S == [Int -> Seq(Int)]
           base == [b \in Int |-> <<>>]
           Longer(g) == [b \in Int |-> IF b \notin DOMAIN h THEN <<>>
                                       ELSE <<b>> \o g[h[b].next]]
           step == [n \in Nat |-> [g \in S |-> Longer(g)]]
           N == Cardinality(DOMAIN h)
<1>1. N \in Nat
  BY FS_CardinalityType DEF IsHeaders
<1>2. base \in S
  OBVIOUS
<1>3. \A g \in S : Longer(g) \in S
  BY DEF IsHeaders
<1>4. step \in [Nat -> [S -> S]]
  <2> HIDE DEF Longer, S
  <2> QED
    BY <1>3
<1> HIDE DEF S, base, step, N
<1>5. PICK f \in [0 .. N -> S] : IsRecursion(f, N, base, step)
  BY <1>1, <1>2, <1>4, RecursionExists
<1>6. \A n \in 1 .. N : f[n - 1] \in S /\ f[n] = Longer(f[n - 1])
  <2> SUFFICES ASSUME NEW n \in 1 .. N
               PROVE  f[n - 1] \in S /\ f[n] = Longer(f[n - 1])
    OBVIOUS
  <2>1. n \in Nat /\ n - 1 \in 0 .. N
    BY <1>1
  <2>2. f[n - 1] \in S
    BY <1>5, <2>1
  <2>3. step[n][f[n - 1]] = Longer(f[n - 1])
    <3> HIDE DEF Longer
    <3> QED
      BY <2>1, <2>2 DEF step
  <2>4. f[n] = step[n][f[n - 1]]
    BY <1>5 DEF IsRecursion
  <2> QED
    BY <2>2, <2>3, <2>4
<1>7. \A n \in 0 .. N : f[n] = [b \in Int |->
                                  IF n = 0 \/ b \notin DOMAIN h THEN <<>>
                                  ELSE <<b>> \o f[n - 1][h[b].next]]
  <2> SUFFICES ASSUME NEW n \in 0 .. N
               PROVE  f[n] = [b \in Int |->
                                IF n = 0 \/ b \notin DOMAIN h THEN <<>>
                                ELSE <<b>> \o f[n - 1][h[b].next]]
    OBVIOUS
  <2>1. CASE n = 0
    BY <1>5, <2>1 DEF IsRecursion, base
  <2>2. CASE n # 0
    <3>1. n \in 1 .. N
      BY <1>1, <2>2
    <3> QED
      BY <1>6, <2>2, <3>1
  <2> QED
    BY <2>1, <2>2
<1>8. f = [n \in 0 .. N |-> [b \in Int |->
                               IF n = 0 \/ b \notin DOMAIN h THEN <<>>
                               ELSE <<b>> \o f[n - 1][h[b].next]]]
  BY <1>5, <1>7
<1> QED
  BY <1>8 DEF IsWalk, N

LEMMA WalkAt ==
    ASSUME NEW h, IsHeaders(h), NEW a
    PROVE  \E f : IsWalk(f, h) /\ Walk(h, a) = f[Cardinality(DOMAIN h)][a]
<1> DEFINE g == CHOOSE f : IsWalk(f, h)
<1>1. IsWalk(g, h)
  BY WalkExists
<1>2. Walk(h, a) = g[Cardinality(DOMAIN h)][a]
  BY DEF Walk, IsWalk
<1> QED
  BY <1>1, <1>2

\* The nodes of a list are headers.
LEMMA ChainNodes ==
    ASSUME NEW h, IsHeaders(h), NEW head, NEW end, NEW s,
           IsChain(h, head, s, end)
    PROVE  /\ Len(s) \in Nat /\ DOMAIN s = 1 .. Len(s)
           /\ \A k \in 1 .. Len(s) : s[k] \in DOMAIN h /\ s[k] \in Nat
<1>1. PICK D : D = DOMAIN h
  OBVIOUS
<1>2. s \in Seq(D) /\ D \subseteq Nat
  BY <1>1 DEF IsChain, IsHeaders
<1>3. /\ Len(s) \in Nat /\ DOMAIN s = 1 .. Len(s)
      /\ \A k \in 1 .. Len(s) : s[k] \in D
  BY <1>2
<1> QED
  BY <1>1, <1>2, <1>3

\* A list has no more nodes than there are headers.
LEMMA ChainIsShort ==
    ASSUME NEW h, IsHeaders(h), NEW head, NEW end, NEW s,
           IsChain(h, head, s, end)
    PROVE  Len(s) <= Cardinality(DOMAIN h)
<1>1. s \in Injection(1 .. Len(s), DOMAIN h)
  BY DEF IsChain, Injection, IsInjective
<1>2. Len(s) \in Nat /\ Cardinality(1 .. Len(s)) = Len(s)
  <2>1. Len(s) \in Nat
    BY ChainNodes
  <2>2. Cardinality(1 .. Len(s)) = IF 1 > Len(s) THEN 0 ELSE Len(s) - 1 + 1
    BY <2>1, FS_Interval
  <2> QED
    BY <2>1, <2>2
<1> QED
  BY <1>1, <1>2, FS_Injection DEF IsHeaders

\* A walk along a list comes by its nodes.
LEMMA WalkIs ==
    ASSUME NEW h, IsHeaders(h), NEW head, NEW end \in Ends, NEW s,
           IsChain(h, head, s, end)
    PROVE  Walk(h, head) = s
<1> DEFINE N == Cardinality(DOMAIN h)
<1>1. N \in Nat /\ Len(s) \in Nat /\ Len(s) <= N
  BY FS_CardinalityType, ChainNodes, ChainIsShort DEF IsHeaders
<1>2. PICK f : IsWalk(f, h) /\ Walk(h, head) = f[N][head]
  BY WalkAt
<1> HIDE DEF N
<1>3. \A n \in 0 .. N : \A b \in Int :
         f[n][b] = IF n = 0 \/ b \notin DOMAIN h THEN <<>>
                   ELSE <<b>> \o f[n - 1][h[b].next]
  <2>1. \A n \in 0 .. N :
           f[n] = [b \in Int |-> IF n = 0 \/ b \notin DOMAIN h THEN <<>>
                                 ELSE <<b>> \o f[n - 1][h[b].next]]
    BY <1>2 DEF IsWalk, N
  <2> QED
    BY <2>1
<1>4. end \in Int /\ NULL \in Int /\ end \notin DOMAIN h /\ NULL \notin DOMAIN h
  BY DEF IsHeaders, Ends, NULL, WILD
<1> DEFINE T == {n \in Nat : n <= N =>
                   \A k \in 1 .. Len(s) : Len(s) + 1 - k <= n =>
                      f[n][s[k]] = SubSeq(s, k, Len(s))}
<1>5. 0 \in T
  BY <1>1
<1>6. ASSUME NEW n \in Nat, n \in T PROVE n + 1 \in T
  <2> SUFFICES ASSUME n + 1 <= N, NEW k \in 1 .. Len(s),
                      Len(s) + 1 - k <= n + 1
               PROVE  f[n + 1][s[k]] = SubSeq(s, k, Len(s))
    <3>1. n + 1 \in Nat
      OBVIOUS
    <3> QED
      BY <3>1
  <2>1. s[k] \in DOMAIN h /\ s[k] \in Int
    <3>1. s[k] \in DOMAIN h /\ s[k] \in Nat
      BY ChainNodes
    <3> QED
      BY <3>1
  <2>2. n + 1 \in 0 .. N /\ n \in 0 .. N /\ n + 1 # 0 /\ (n + 1) - 1 = n
    BY <1>1
  <2>3. f[n + 1][s[k]] = <<s[k]>> \o f[n][h[s[k]].next]
    BY <1>3, <2>1, <2>2
  <2>4. CASE k = Len(s)
    <3>1. h[s[k]].next = end
      BY <2>4 DEF IsChain, NextIn
    <3>2. f[n][end] = <<>>
      BY <1>3, <1>4, <2>2
    <3>3. SubSeq(s, k, Len(s)) = <<s[k]>>
      <4>1. PICK D : D = DOMAIN h
        OBVIOUS
      <4>2. s \in Seq(D)
        BY <4>1 DEF IsChain
      <4>3. PICK q : q = SubSeq(s, k, Len(s))
        OBVIOUS
      <4>4. q \in Seq(D) /\ Len(q) = 1 /\ q[1] = s[k]
        BY <1>1, <2>4, <4>2, <4>3
      <4>5. q = <<s[k]>>
        BY <4>4
      <4> QED
        BY <4>3, <4>5
    <3> QED
      BY <2>3, <3>1, <3>2, <3>3
  <2>5. CASE k # Len(s)
    <3>1. k + 1 \in 1 .. Len(s) /\ Len(s) + 1 - (k + 1) <= n /\ n <= N
      BY <1>1, <2>5
    <3>2. h[s[k]].next = s[k + 1]
      BY <2>5 DEF IsChain, NextIn
    <3>3. f[n][s[k + 1]] = SubSeq(s, k + 1, Len(s))
      BY <1>6, <3>1
    <3>4. SubSeq(s, k, Len(s)) = <<s[k]>> \o SubSeq(s, k + 1, Len(s))
      BY <1>1, <3>1 DEF IsChain
    <3> QED
      BY <2>3, <3>2, <3>3, <3>4
  <2> QED
    BY <2>4, <2>5
<1> HIDE DEF T
<1>7. N \in T
  BY <1>1, <1>5, <1>6, NaturalInduction
<1>8. CASE s = <<>>
  <2>1. head = NULL
    BY <1>8 DEF IsChain
  <2>2. f[N][NULL] = <<>>
    <3>1. N \in 0 .. N
      BY <1>1
    <3> QED
      BY <1>3, <1>4, <3>1
  <2> QED
    BY <1>2, <1>8, <2>1, <2>2
<1>9. CASE s # <<>>
  <2>1. 1 \in 1 .. Len(s) /\ head = s[1] /\ Len(s) + 1 - 1 <= N
    BY <1>1, <1>9 DEF IsChain
  <2>2. f[N][s[1]] = SubSeq(s, 1, Len(s))
    BY <1>1, <1>7, <2>1 DEF T
  <2>3. SubSeq(s, 1, Len(s)) = s
    BY DEF IsChain
  <2> QED
    BY <1>2, <2>1, <2>2, <2>3
<1> QED
  BY <1>8, <1>9

-----------------------------------------------------------------------------
(* Lists that grow and shrink                                               *)

\* The place of the first node at which a loop stops.
LEMMA PlaceIs ==
    ASSUME NEW S, NEW s \in Seq(S), NEW stops
    PROVE  LET k == Place(s, stops)
           IN  \/ k = 0 /\ \A j \in 1 .. Len(s) : s[j] \notin stops
               \/ /\ k \in 1 .. Len(s)
                  /\ s[k] \in stops
                  /\ \A j \in 1 .. k - 1 : s[j] \notin stops
<1> DEFINE I == {j \in 1 .. Len(s) : s[j] \in stops}
<1>1. Place(s, stops) = IF I # {} THEN Min(I) ELSE 0
  BY DEF Place, SelectInSeq
<1>2. Len(s) \in Nat /\ I \subseteq Nat
  OBVIOUS
<1>3. CASE I = {}
  BY <1>1, <1>3
<1>4. CASE I # {}
  <2>1. \E x \in I : \A y \in I : x <= y
    <3> HIDE DEF I
    <3> QED
      BY <1>2, <1>4, LeastNatural
  <2>2. Min(I) \in I /\ \A y \in I : Min(I) <= y
    <3> HIDE DEF I
    <3> QED
      BY <2>1 DEF Min
  <2>3. PICK k : k = Min(I)
    OBVIOUS
  <2>4. k \in 1 .. Len(s) /\ s[k] \in stops
    BY <2>2, <2>3
  <2>5. \A j \in 1 .. k - 1 : s[j] \notin stops
    <3> SUFFICES ASSUME NEW j \in 1 .. k - 1, s[j] \in stops PROVE FALSE
      OBVIOUS
    <3>1. j \in I
      BY <1>2, <2>4
    <3> QED
      BY <2>2, <2>3, <2>4, <3>1
  <2> QED
    BY <1>1, <1>4, <2>3, <2>4, <2>5
<1> QED
  BY <1>3, <1>4

\* node behind place k of s; s without the d nodes from place k on.
Inserted(s, k, node) ==
    [j \in 1 .. Len(s) + 1 |-> IF j <= k THEN s[j]
                               ELSE IF j = k + 1 THEN node ELSE s[j - 1]]
CutOut(s, k, d) == [j \in 1 .. Len(s) - d |-> IF j < k THEN s[j] ELSE s[j + d]]

\* The headers at A may be linked otherwise; nothing else is changed.
Kept(h, g, A) ==
    /\ IsHeaders(g)
    /\ DOMAIN g = DOMAIN h
    /\ \A b \in DOMAIN h : /\ g[b].size = h[b].size
                           /\ b \notin A => g[b] = h[b]

\* g links node behind place k of s.
Links(h, g, s, k, node, end) ==
    \A b \in DOMAIN h :
       /\ g[b].next = IF b = node THEN NextIn(s, k, end)
                      ELSE IF k > 0 /\ b = s[k] THEN node ELSE h[b].next
       /\ g[b].prev = IF b = node THEN PrevIn(s, k + 1)
                      ELSE IF k < Len(s) /\ b = s[k + 1] THEN node
                      ELSE h[b].prev

LEMMA InsertedIs ==
    ASSUME NEW D, NEW s \in Seq(D), NEW k \in 0 .. Len(s), NEW node \in D
    PROVE  /\ Inserted(s, k, node) \in Seq(D)
           /\ Len(Inserted(s, k, node)) = Len(s) + 1
           /\ \A j \in 1 .. Len(s) + 1 :
                 Inserted(s, k, node)[j] =
                     IF j <= k THEN s[j]
                     ELSE IF j = k + 1 THEN node ELSE s[j - 1]
           /\ ToSet(Inserted(s, k, node)) = ToSet(s) \cup {node}
<1> DEFINE s2 == Inserted(s, k, node)
<1>1. Len(s) \in Nat /\ Len(s) + 1 \in Nat
  OBVIOUS
<1>2. s2 \in [1 .. Len(s) + 1 -> D]
  BY <1>1 DEF Inserted
<1>3. /\ s2 \in Seq(D) /\ Len(s2) = Len(s) + 1 /\ DOMAIN s2 = 1 .. Len(s) + 1
  <2> HIDE DEF s2
  <2> QED
    BY <1>1, <1>2, MakeSeq
<1>4. \A j \in 1 .. Len(s) + 1 :
         s2[j] = IF j <= k THEN s[j] ELSE IF j = k + 1 THEN node ELSE s[j - 1]
  BY <1>1 DEF Inserted
<1> HIDE DEF s2
<1>5. ToSet(s2) = {s2[j] : j \in 1 .. Len(s) + 1}
  BY <1>3 DEF ToSet
<1>6. ToSet(s) = {s[j] : j \in 1 .. Len(s)}
  BY DEF ToSet
<1>7. \A x \in ToSet(s2) : x \in ToSet(s) \cup {node}
  <2> SUFFICES ASSUME NEW j \in 1 .. Len(s) + 1
               PROVE  s2[j] \in ToSet(s) \cup {node}
    BY <1>5
  <2>1. CASE j <= k
    BY <1>1, <1>4, <1>6, <2>1
  <2>2. CASE j = k + 1
    BY <1>1, <1>4, <2>2
  <2>3. CASE j > k + 1
    BY <1>1, <1>4, <1>6, <2>3
  <2> QED
    BY <1>1, <2>1, <2>2, <2>3
<1>8. \A x \in ToSet(s) \cup {node} : x \in ToSet(s2)
  <2>1. node \in ToSet(s2)
    <3>1. k + 1 \in 1 .. Len(s) + 1 /\ s2[k + 1] = node
      BY <1>1, <1>4
    <3> QED
      BY <1>5, <3>1
  <2>2. ASSUME NEW j \in 1 .. Len(s) PROVE s[j] \in ToSet(s2)
    <3>1. CASE j <= k
      <4>1. j \in 1 .. Len(s) + 1 /\ s2[j] = s[j]
        BY <1>1, <1>4, <3>1
      <4> QED
        BY <1>5, <4>1
    <3>2. CASE ~(j <= k)
      <4>1. j + 1 \in 1 .. Len(s) + 1 /\ s2[j + 1] = s[j]
        BY <1>1, <1>4, <3>2
      <4> QED
        BY <1>5, <4>1
    <3> QED
      BY <3>1, <3>2
  <2> QED
    BY <1>6, <2>1, <2>2
<1> QED
  BY <1>3, <1>4, <1>7, <1>8 DEF s2

\* A node that is linked behind place k of a list is in it there.
LEMMA ChainInsert ==
    ASSUME NEW h, IsHeaders(h), NEW head, NEW end, NEW s,
           IsChain(h, head, s, end), NEW k \in 0 .. Len(s),
           NEW node \in DOMAIN h, node \notin ToSet(s),
           NEW g, DOMAIN g = DOMAIN h, Links(h, g, s, k, node, end)
    PROVE  IsChain(g, IF k = 0 THEN node ELSE head, Inserted(s, k, node), end)
<1>1. PICK D : D = DOMAIN h
  OBVIOUS
<1>2. s \in Seq(D) /\ D \subseteq Nat /\ node \in D
  BY <1>1 DEF IsChain, IsHeaders
<1>3. Len(s) \in Nat /\ \A j \in 1 .. Len(s) : s[j] \in D /\ s[j] # node
  BY <1>2 DEF ToSet
<1>4. PICK s2 : s2 = Inserted(s, k, node)
  OBVIOUS
<1>5. /\ s2 \in Seq(D)
      /\ Len(s2) = Len(s) + 1
      /\ \A j \in 1 .. Len(s) + 1 :
            s2[j] = IF j <= k THEN s[j]
                    ELSE IF j = k + 1 THEN node ELSE s[j - 1]
  <2>1. s \in Seq(D) /\ node \in D /\ k \in 0 .. Len(s)
    BY <1>2
  <2>2. Inserted(s, k, node) \in Seq(D)
    BY <2>1, InsertedIs
  <2>3. Len(Inserted(s, k, node)) = Len(s) + 1
    BY <2>1, InsertedIs
  <2>4. \A j \in 1 .. Len(s) + 1 :
           Inserted(s, k, node)[j] = IF j <= k THEN s[j]
                                     ELSE IF j = k + 1 THEN node ELSE s[j - 1]
    BY <2>1, InsertedIs
  <2> QED
    BY <1>4, <2>2, <2>3, <2>4
<1>6. \A j, l \in 1 .. Len(s) : s[j] = s[l] => j = l
  BY DEF IsChain
<1>7. \A j \in 1 .. Len(s) : h[s[j]].next = NextIn(s, j, end)
                             /\ h[s[j]].prev = PrevIn(s, j)
  BY DEF IsChain
<1>8. \A j, l \in 1 .. Len(s2) : s2[j] = s2[l] => j = l
  <2> SUFFICES ASSUME NEW j \in 1 .. Len(s2), NEW l \in 1 .. Len(s2),
                      s2[j] = s2[l]
               PROVE  j = l
    OBVIOUS
  <2> DEFINE At(m) == IF m <= k THEN m ELSE m - 1
  <2>1. \A m \in 1 .. Len(s) + 1 :
           m # k + 1 => At(m) \in 1 .. Len(s) /\ s2[m] = s[At(m)]
    BY <1>3, <1>5
  <2>2. j \in 1 .. Len(s) + 1 /\ l \in 1 .. Len(s) + 1
    BY <1>5
  <2>3. s2[k + 1] = node
    BY <1>3, <1>5
  <2>4. CASE j = k + 1 \/ l = k + 1
    BY <1>3, <2>1, <2>2, <2>3, <2>4
  <2>5. CASE j # k + 1 /\ l # k + 1
    <3>1. At(j) = At(l)
      <4> HIDE DEF At
      <4> QED
        BY <1>6, <2>1, <2>2, <2>5
    <3> QED
      BY <2>2, <2>5, <3>1
  <2> QED
    BY <2>4, <2>5
<1>9. (IF k = 0 THEN node ELSE head) = IF s2 = <<>> THEN NULL ELSE s2[1]
  <2>1. s2 # <<>> /\ 1 \in 1 .. Len(s) + 1
    BY <1>3, <1>5
  <2>2. CASE k = 0
    BY <1>5, <2>1, <2>2
  <2>3. CASE k # 0
    <3>1. s # <<>>
      BY <2>3
    <3>2. head = s[1]
      BY <3>1 DEF IsChain
    <3> QED
      BY <1>5, <2>1, <2>3, <3>2
  <2> QED
    BY <2>2, <2>3
<1>10. ASSUME NEW j \in 1 .. Len(s2)
       PROVE  g[s2[j]].next = NextIn(s2, j, end) /\ g[s2[j]].prev = PrevIn(s2, j)
  <2>1. j \in 1 .. Len(s) + 1 /\ s2[j] \in DOMAIN h
    BY <1>1, <1>3, <1>5
  <2>2. /\ g[s2[j]].next = IF s2[j] = node THEN NextIn(s, k, end)
                           ELSE IF k > 0 /\ s2[j] = s[k] THEN node
                           ELSE h[s2[j]].next
        /\ g[s2[j]].prev = IF s2[j] = node THEN PrevIn(s, k + 1)
                           ELSE IF k < Len(s) /\ s2[j] = s[k + 1] THEN node
                           ELSE h[s2[j]].prev
    BY <2>1 DEF Links
  <2>3. CASE j = k + 1
    <3>1. s2[j] = node
      BY <1>3, <1>5, <2>3, <2>1
    <3>2. NextIn(s2, j, end) = NextIn(s, k, end)
      BY <1>3, <1>5, <2>3, <2>1 DEF NextIn
    <3>3. PrevIn(s2, j) = PrevIn(s, k + 1)
      BY <1>3, <1>5, <2>3, <2>1 DEF PrevIn
    <3> QED
      BY <2>2, <3>1, <3>2, <3>3
  <2>4. CASE j <= k
    <3>1. j \in 1 .. Len(s) /\ s2[j] = s[j] /\ s[j] # node
      BY <1>3, <1>5, <2>4, <2>1
    <3>2. CASE j = k
      <4>1. NextIn(s2, j, end) = node
        BY <1>3, <1>5, <3>2, <2>1 DEF NextIn
      <4>2. k > 0 /\ s2[j] = s[k]
        BY <3>1, <3>2
      <4>3. g[s2[j]].next = node
        BY <2>2, <3>1, <4>2
      <4>4. k < Len(s) => s[k + 1] # s[j]
        BY <1>3, <1>6, <3>1, <3>2
      <4>5. g[s2[j]].prev = PrevIn(s, j)
        BY <1>7, <2>2, <3>1, <4>4
      <4>6. PrevIn(s2, j) = PrevIn(s, j)
        BY <1>3, <1>5, <3>1, <3>2 DEF PrevIn
      <4> QED
        BY <4>1, <4>3, <4>5, <4>6
    <3>3. CASE j < k
      <4>1. k \in 1 .. Len(s) /\ s[k] # s[j]
        BY <1>3, <1>6, <3>1, <3>3
      <4>2. k < Len(s) => s[k + 1] # s[j]
        BY <1>3, <1>6, <3>1, <3>3
      <4>3. /\ g[s2[j]].next = NextIn(s, j, end)
            /\ g[s2[j]].prev = PrevIn(s, j)
        BY <1>7, <2>2, <3>1, <4>1, <4>2
      <4>4. NextIn(s2, j, end) = NextIn(s, j, end)
        BY <1>3, <1>5, <3>1, <3>3 DEF NextIn
      <4>5. PrevIn(s2, j) = PrevIn(s, j)
        BY <1>3, <1>5, <3>1, <3>3 DEF PrevIn
      <4> QED
        BY <4>3, <4>4, <4>5
    <3> QED
      BY <2>1, <2>4, <3>2, <3>3
  <2>5. CASE j > k + 1
    <3>1. /\ j - 1 \in 1 .. Len(s) /\ j - 1 > k
          /\ s2[j] = s[j - 1] /\ s[j - 1] # node
      BY <1>3, <1>5, <2>5, <2>1
    <3>2. k > 0 => s[k] # s[j - 1]
      BY <1>3, <1>6, <3>1
    <3>3. g[s2[j]].next = NextIn(s, j - 1, end)
      BY <1>7, <2>2, <3>1, <3>2
    <3>4. NextIn(s2, j, end) = NextIn(s, j - 1, end)
      BY <1>3, <1>5, <3>1, <2>5 DEF NextIn
    <3>5. CASE j - 1 = k + 1
      <4>1. k < Len(s) /\ s2[j] = s[k + 1]
        BY <1>3, <3>1, <3>5
      <4>2. g[s2[j]].prev = node
        BY <2>2, <3>1, <4>1
      <4>3. PrevIn(s2, j) = node
        BY <1>3, <1>5, <2>5, <2>1, <3>5 DEF PrevIn
      <4> QED
        BY <3>3, <3>4, <4>2, <4>3
    <3>6. CASE j - 1 # k + 1
      <4>1. k < Len(s) => s[k + 1] # s[j - 1]
        BY <1>3, <1>6, <3>1, <3>6
      <4>2. g[s2[j]].prev = PrevIn(s, j - 1)
        BY <1>7, <2>2, <3>1, <4>1
      <4>3. PrevIn(s2, j) = PrevIn(s, j - 1)
        BY <1>3, <1>5, <2>5, <3>1, <3>6 DEF PrevIn
      <4> QED
        BY <3>3, <3>4, <4>2, <4>3
    <3> QED
      BY <3>5, <3>6
  <2> QED
    BY <1>3, <2>1, <2>3, <2>4, <2>5
<1>11. IsChain(g, IF k = 0 THEN node ELSE head, s2, end)
  BY <1>1, <1>5, <1>8, <1>9, <1>10 DEF IsChain
<1> QED
  BY <1>4, <1>11

\* g links s without the d nodes from place k on.
Unlinks(h, g, s, k, d, end) ==
    \A j \in 1 .. Len(s) : j < k \/ j >= k + d =>
       /\ s[j] \in DOMAIN g
       /\ g[s[j]].next = IF j = k - 1 THEN NextIn(s, k + d - 1, end)
                         ELSE h[s[j]].next
       /\ g[s[j]].prev = IF j = k + d THEN PrevIn(s, k) ELSE h[s[j]].prev

LEMMA CutOutIs ==
    ASSUME NEW D, NEW s \in Seq(D), NEW k \in 1 .. Len(s), NEW d \in Nat,
           k + d - 1 <= Len(s)
    PROVE  /\ CutOut(s, k, d) \in Seq(D)
           /\ Len(CutOut(s, k, d)) = Len(s) - d
           /\ \A j \in 1 .. Len(s) - d :
                 CutOut(s, k, d)[j] = IF j < k THEN s[j] ELSE s[j + d]
           /\ ToSet(CutOut(s, k, d)) =
                 {s[j] : j \in {l \in 1 .. Len(s) : l < k \/ l >= k + d}}
<1> DEFINE s2 == CutOut(s, k, d)
<1>1. Len(s) \in Nat /\ Len(s) - d \in Nat
  OBVIOUS
<1>2. s2 \in [1 .. Len(s) - d -> D]
  BY <1>1 DEF CutOut
<1>3. /\ s2 \in Seq(D) /\ Len(s2) = Len(s) - d /\ DOMAIN s2 = 1 .. Len(s) - d
  <2> HIDE DEF s2
  <2> QED
    BY <1>1, <1>2, MakeSeq
<1>4. \A j \in 1 .. Len(s) - d : s2[j] = IF j < k THEN s[j] ELSE s[j + d]
  BY <1>1 DEF CutOut
<1> HIDE DEF s2
<1> DEFINE Left == {l \in 1 .. Len(s) : l < k \/ l >= k + d}
<1>5. ToSet(s2) = {s2[j] : j \in 1 .. Len(s) - d}
  BY <1>3 DEF ToSet
<1>6. ASSUME NEW j \in 1 .. Len(s) - d PROVE s2[j] \in {s[l] : l \in Left}
  <2>1. CASE j < k
    BY <1>1, <1>4, <2>1
  <2>2. CASE ~(j < k)
    <3>1. j + d \in Left /\ s2[j] = s[j + d]
      BY <1>1, <1>4, <2>2
    <3> QED
      BY <3>1
  <2> QED
    BY <2>1, <2>2
<1>7. ASSUME NEW l \in Left PROVE s[l] \in ToSet(s2)
  <2>1. CASE l < k
    <3>1. l \in 1 .. Len(s) - d /\ s2[l] = s[l]
      BY <1>1, <1>4, <2>1
    <3> QED
      BY <1>5, <3>1
  <2>2. CASE ~(l < k)
    <3>1. l - d \in 1 .. Len(s) - d /\ s2[l - d] = s[l]
      BY <1>1, <1>4, <2>2
    <3> QED
      BY <1>5, <3>1
  <2> QED
    BY <2>1, <2>2
<1>8. ToSet(s2) = {s[l] : l \in Left}
  <2> HIDE DEF Left
  <2> QED
    BY <1>5, <1>6, <1>7
<1> QED
  BY <1>3, <1>4, <1>8 DEF s2

\* Nodes that are taken out of a list leave the others in it.
LEMMA ChainCut ==
    ASSUME NEW h, IsHeaders(h), NEW head, NEW end, NEW s,
           IsChain(h, head, s, end), NEW k \in 1 .. Len(s),
           NEW d \in Nat \ {0}, k + d - 1 <= Len(s),
           NEW g, Unlinks(h, g, s, k, d, end),
           k + d - 1 = Len(s) => end \in Ends
    PROVE  IsChain(g, IF k = 1 THEN (IF d = Len(s) THEN NULL ELSE s[d + 1])
                      ELSE head, CutOut(s, k, d), end)
<1>1. PICK D : D = DOMAIN h
  OBVIOUS
<1>2. s \in Seq(D) /\ D \subseteq Nat
  BY <1>1 DEF IsChain, IsHeaders
<1>3. Len(s) \in Nat /\ \A j \in 1 .. Len(s) : s[j] \in D
  BY <1>2
<1>4. PICK s2 : s2 = CutOut(s, k, d)
  OBVIOUS
<1>5. /\ s2 \in Seq(D)
      /\ Len(s2) = Len(s) - d
      /\ \A j \in 1 .. Len(s) - d : s2[j] = IF j < k THEN s[j] ELSE s[j + d]
  <2>1. CutOut(s, k, d) \in Seq(D)
    BY <1>2, CutOutIs
  <2>2. Len(CutOut(s, k, d)) = Len(s) - d
    BY <1>2, CutOutIs
  <2>3. \A j \in 1 .. Len(s) - d :
           CutOut(s, k, d)[j] = IF j < k THEN s[j] ELSE s[j + d]
    BY <1>2, CutOutIs
  <2> QED
    BY <1>4, <2>1, <2>2, <2>3
<1>6. \A j, l \in 1 .. Len(s) : s[j] = s[l] => j = l
  BY DEF IsChain
<1>7. \A j \in 1 .. Len(s) : h[s[j]].next = NextIn(s, j, end)
                             /\ h[s[j]].prev = PrevIn(s, j)
  BY DEF IsChain
<1> DEFINE At(m) == IF m < k THEN m ELSE m + d
<1>8. \A m \in 1 .. Len(s2) :
         /\ At(m) \in 1 .. Len(s) /\ (At(m) < k \/ At(m) >= k + d)
         /\ s2[m] = s[At(m)]
  BY <1>3, <1>5
<1>9. \A j, l \in 1 .. Len(s2) : s2[j] = s2[l] => j = l
  <2> SUFFICES ASSUME NEW j \in 1 .. Len(s2), NEW l \in 1 .. Len(s2),
                      s2[j] = s2[l]
               PROVE  j = l
    OBVIOUS
  <2>1. At(j) = At(l)
    <3> HIDE DEF At
    <3> QED
      BY <1>6, <1>8
  <2> QED
    BY <1>3, <1>5, <2>1
<1>10. (IF k = 1 THEN (IF d = Len(s) THEN NULL ELSE s[d + 1]) ELSE head)
          = IF s2 = <<>> THEN NULL ELSE s2[1]
  <2>1. CASE k = 1
    <3>1. CASE d = Len(s)
      BY <1>5, <2>1, <3>1
    <3>2. CASE d # Len(s)
      <4>1. s2 # <<>> /\ 1 \in 1 .. Len(s) - d
        BY <1>3, <1>5, <3>2, <2>1
      <4>2. s2[1] = s[1 + d] /\ 1 + d = d + 1
        BY <1>5, <2>1, <4>1
      <4> QED
        BY <2>1, <3>2, <4>1, <4>2
    <3> QED
      BY <3>1, <3>2
  <2>2. CASE k # 1
    <3>1. s2 # <<>> /\ 1 \in 1 .. Len(s) - d /\ 1 < k /\ s # <<>>
      BY <1>3, <1>5, <2>2
    <3>2. head = s[1]
      BY <3>1 DEF IsChain
    <3> QED
      BY <1>5, <2>2, <3>1, <3>2
  <2> QED
    BY <2>1, <2>2
<1>11. ASSUME NEW j \in 1 .. Len(s2)
       PROVE  /\ s2[j] \in DOMAIN g
              /\ g[s2[j]].next = NextIn(s2, j, end)
              /\ g[s2[j]].prev = PrevIn(s2, j)
  <2>1. j \in 1 .. Len(s) - d /\ Len(s2) = Len(s) - d
    BY <1>5
  <2>2. CASE j < k
    <3>1. j \in 1 .. Len(s) /\ s2[j] = s[j]
      BY <1>3, <1>5, <2>2, <2>1
    <3>2. /\ s2[j] \in DOMAIN g
          /\ g[s2[j]].next = IF j = k - 1 THEN NextIn(s, k + d - 1, end)
                             ELSE NextIn(s, j, end)
          /\ g[s2[j]].prev = PrevIn(s, j)
      BY <1>7, <2>2, <3>1 DEF Unlinks
    <3>3. PrevIn(s2, j) = PrevIn(s, j)
      BY <1>3, <1>5, <2>1, <2>2 DEF PrevIn
    <3>4. CASE j = k - 1
      <4>1. NextIn(s2, j, end) = NextIn(s, k + d - 1, end)
        BY <1>3, <1>5, <2>1, <2>2, <3>4 DEF NextIn
      <4> QED
        BY <3>2, <3>3, <3>4, <4>1
    <3>5. CASE j # k - 1
      <4>1. NextIn(s2, j, end) = NextIn(s, j, end)
        BY <1>3, <1>5, <2>1, <2>2, <3>5, SMTT(40) DEF NextIn
      <4> QED
        BY <3>2, <3>3, <3>5, <4>1
    <3> QED
      BY <3>4, <3>5
  <2>3. CASE ~(j < k)
    <3>1. j + d \in 1 .. Len(s) /\ j + d >= k + d /\ s2[j] = s[j + d]
      BY <1>3, <1>5, <2>3, <2>1
    <3>2. /\ s2[j] \in DOMAIN g
          /\ g[s2[j]].next = NextIn(s, j + d, end)
          /\ g[s2[j]].prev = IF j + d = k + d THEN PrevIn(s, k)
                             ELSE PrevIn(s, j + d)
      <4>1. j + d # k - 1
        BY <1>3, <2>3, <2>1
      <4> QED
        BY <1>7, <3>1, <4>1 DEF Unlinks
    <3>3. NextIn(s2, j, end) = NextIn(s, j + d, end)
      <4>1. CASE j = Len(s) - d
        BY <1>3, <2>1, <4>1 DEF NextIn
      <4>2. CASE j # Len(s) - d
        <5>1. j + 1 \in 1 .. Len(s) - d /\ ~(j + 1 < k)
          BY <1>3, <2>1, <2>3, <4>2
        <5>2. s2[j + 1] = s[(j + 1) + d] /\ (j + 1) + d = (j + d) + 1
          BY <1>5, <5>1
        <5>3. j # Len(s2) /\ j + d # Len(s)
          BY <1>3, <2>1, <4>2
        <5> QED
          BY <5>2, <5>3 DEF NextIn
      <4> QED
        BY <4>1, <4>2
    <3>4. CASE j = k
      <4>1. PrevIn(s2, j) = PrevIn(s, k)
        BY <1>3, <1>5, <2>1, <2>3, <3>4 DEF PrevIn
      <4> QED
        BY <3>2, <3>3, <3>4, <4>1
    <3>5. CASE j # k
      <4>1. PrevIn(s2, j) = PrevIn(s, j + d)
        BY <1>3, <1>5, <2>1, <2>3, <3>5 DEF PrevIn
      <4>2. j + d # k + d
        BY <3>5, <2>1
      <4> QED
        BY <3>2, <3>3, <4>1, <4>2
    <3> QED
      BY <3>4, <3>5
  <2> QED
    BY <2>1, <2>2, <2>3
<1>12. s2 \in Seq(DOMAIN g)
  <2>1. PICK E : E = DOMAIN g
    OBVIOUS
  <2>2. Len(s2) \in Nat /\ s2 \in [1 .. Len(s2) -> D]
    BY <1>5
  <2>3. s2 \in [1 .. Len(s2) -> E]
    BY <1>11, <2>1, <2>2
  <2>4. s2 \in Seq(E)
    BY <2>2, <2>3, MakeSeq
  <2> QED
    BY <2>1, <2>4
<1>13. IsChain(g, IF k = 1 THEN (IF d = Len(s) THEN NULL ELSE s[d + 1])
                  ELSE head, s2, end)
  BY <1>9, <1>10, <1>11, <1>12 DEF IsChain
<1> QED
  BY <1>4, <1>13

\* A list is none the worse for changes to other headers.
LEMMA ChainKept ==
    ASSUME NEW h, IsHeaders(h), NEW head, NEW end, NEW s,
           IsChain(h, head, s, end), NEW g,
           \A a \in ToSet(s) : a \in DOMAIN g /\ g[a] = h[a]
    PROVE  IsChain(g, head, s, end)
<1>1. PICK D, E : D = DOMAIN h /\ E = DOMAIN g
  OBVIOUS
<1>2. s \in Seq(D)
  BY <1>1 DEF IsChain
<1>3. Len(s) \in Nat /\ \A j \in 1 .. Len(s) : s[j] \in ToSet(s)
  BY <1>2 DEF ToSet
<1>4. \A j \in 1 .. Len(s) : s[j] \in E /\ g[s[j]] = h[s[j]]
  BY <1>1, <1>3
<1>5. s \in [1 .. Len(s) -> E]
  BY <1>2, <1>3, <1>4
<1>6. s \in Seq(E)
  BY <1>3, <1>5, MakeSeq
<1> QED
  BY <1>1, <1>4, <1>6 DEF IsChain

-----------------------------------------------------------------------------
(* The list operations                                                      *)

LEMMA ListFields ==
    ASSUME NEW head, NEW h
    PROVE  /\ ~List(head, h).wild /\ List(head, h).head = head
           /\ List(head, h).hdr = h /\ List(head, h).size = 0
           /\ Wild(head, h).wild /\ Wild(head, h).size = 0
BY DEF List, Wild

\* What Insert() does: it follows a wild pointer, or links the node behind
\* place k of the list.
InsertedAt(r, h, head, s, k, node, end) ==
    /\ ~r.wild
    /\ IsChain(r.hdr, r.head, Inserted(s, k, node), IF s = <<>> THEN NULL
                                                    ELSE end)
    /\ Kept(h, r.hdr, ToSet(s) \cup {node})

\* Before the head.
LEMMA InsertFirst ==
    ASSUME NEW h, IsHeaders(h), NEW head, NEW end \in Ends, NEW s,
           IsChain(h, head, s, end), s # <<>>, NEW node \in DOMAIN h,
           node \notin ToSet(s), h[node].prev = NULL,
           NEW goesFirst, goesFirst, NEW smaller
    PROVE  InsertedAt(Insert(head, node, h, goesFirst, smaller),
                      h, head, s, 0, node, end)
<1> DEFINE g1 == SetNext(h, node, head)
           g  == SetPrev(g1, head, node)
<1>1. /\ Len(s) \in Nat /\ Len(s) > 0 /\ head = s[1] /\ head \in DOMAIN h
      /\ head \in ToSet(s) /\ head # NULL
  <2>1. Len(s) \in Nat /\ DOMAIN s = 1 .. Len(s)
        /\ \A j \in 1 .. Len(s) : s[j] \in DOMAIN h /\ s[j] \in Nat
    BY ChainNodes
  <2>2. 1 \in 1 .. Len(s)
    <3>1. PICK D : D = DOMAIN h
      OBVIOUS
    <3>2. s \in Seq(D)
      BY <3>1 DEF IsChain
    <3> QED
      BY <3>2
  <2>3. head = s[1]
    BY DEF IsChain
  <2> QED
    BY <2>1, <2>2, <2>3 DEF ToSet, NULL
<1>2. node \in Int /\ head \in Int
  BY <1>1 DEF IsHeaders
<1>3. /\ IsHeaders(g1) /\ DOMAIN g1 = DOMAIN h
      /\ \A b \in DOMAIN h :
            /\ g1[b].size = h[b].size
            /\ g1[b].prev = h[b].prev
            /\ g1[b].next = IF node = b THEN head ELSE h[b].next
            /\ b # node => g1[b] = h[b]
  BY <1>2, SetNextIs
<1> HIDE DEF g1
<1>4. /\ IsHeaders(g) /\ DOMAIN g = DOMAIN g1
      /\ \A b \in DOMAIN g1 :
            /\ g[b].size = g1[b].size
            /\ g[b].next = g1[b].next
            /\ g[b].prev = IF head = b THEN node ELSE g1[b].prev
            /\ b # head => g[b] = g1[b]
  <2>1. head \in DOMAIN g1 \cup {NULL} /\ node \in Int /\ IsHeaders(g1)
    BY <1>1, <1>2, <1>3
  <2> QED
    BY <2>1, SetPrevIs
<1> HIDE DEF g
<1>5. Links(h, g, s, 0, node, end)
  <2>1. NextIn(s, 0, end) = head /\ PrevIn(s, 0 + 1) = NULL
    BY <1>1 DEF NextIn, PrevIn
  <2>2. head # node
    BY <1>1
  <2> QED
    BY <1>1, <1>3, <1>4, <2>1, <2>2 DEF Links
<1>6. IsChain(g, node, Inserted(s, 0, node), end)
  <2>1. 0 \in 0 .. Len(s) /\ DOMAIN g = DOMAIN h
    BY <1>1, <1>3, <1>4
  <2>2. IsChain(g, IF 0 = 0 THEN node ELSE head, Inserted(s, 0, node), end)
    BY <1>5, <2>1, ChainInsert
  <2> QED
    BY <2>2
<1>7. Kept(h, g, ToSet(s) \cup {node})
  BY <1>1, <1>3, <1>4 DEF Kept
<1>8. Insert(head, node, h, goesFirst, smaller) = List(node, g)
  BY <1>1 DEF Insert, g, g1
<1>9. end = IF s = <<>> THEN NULL ELSE end
  OBVIOUS
<1>10. PICK r : r = Insert(head, node, h, goesFirst, smaller)
  OBVIOUS
<1>11. ~r.wild /\ r.hdr = g /\ r.head = node
  BY <1>8, <1>10, ListFields
<1>12. InsertedAt(r, h, head, s, 0, node, end)
  BY <1>6, <1>7, <1>9, <1>11 DEF InsertedAt
<1> QED
  BY <1>10, <1>12

\* Into a list that is empty.
LEMMA InsertOnly ==
    ASSUME NEW h, IsHeaders(h), NEW head, NEW end \in Ends, NEW s,
           IsChain(h, head, s, end), s = <<>>, NEW node \in DOMAIN h,
           h[node].prev = NULL, h[node].next = NULL,
           NEW goesFirst, NEW smaller
    PROVE  InsertedAt(Insert(head, node, h, goesFirst, smaller),
                      h, head, s, 0, node, end)
<1>1. Insert(head, node, h, goesFirst, smaller) = List(node, h)
  BY DEF Insert, IsChain
<1>2. Len(s) = 0 /\ ToSet(s) = {}
  BY DEF ToSet
<1>3. Links(h, h, s, 0, node, NULL)
  BY <1>2 DEF Links, NextIn, PrevIn
<1>4. IsChain(h, NULL, s, NULL)
  BY DEF IsChain
<1>5. IsChain(h, node, Inserted(s, 0, node), NULL)
  <2>1. 0 \in 0 .. Len(s) /\ node \notin ToSet(s)
    BY <1>2
  <2>2. IsChain(h, IF 0 = 0 THEN node ELSE NULL, Inserted(s, 0, node), NULL)
    BY <1>3, <1>4, <2>1, ChainInsert
  <2> QED
    BY <2>2
<1>6. Kept(h, h, ToSet(s) \cup {node})
  BY DEF Kept
<1> QED
  BY <1>1, <1>5, <1>6, ListFields DEF InsertedAt

\* Behind the first node that is the last or has no smaller one behind it.
StopsAt(s, k, smaller) ==
    /\ k \in 1 .. Len(s)
    /\ \A j \in 2 .. k : s[j] \in smaller
    /\ k < Len(s) => s[k + 1] \notin smaller

LEMMA InsertBehind ==
    ASSUME NEW h, IsHeaders(h), NEW head, NEW end \in Ends, NEW s,
           IsChain(h, head, s, end), s # <<>>, NEW node \in DOMAIN h,
           node \notin ToSet(s), NEW goesFirst, ~goesFirst,
           NEW smaller, smaller \subseteq DOMAIN h
    PROVE  \E k : /\ StopsAt(s, k, smaller)
                  /\ LET r == Insert(head, node, h, goesFirst, smaller)
                     IN  \/ /\ k = Len(s) /\ end = WILD
                            /\ r.wild
                         \/ InsertedAt(r, h, head, s, k, node, end)
<1>1. /\ Len(s) \in Nat /\ Len(s) > 0 /\ head = s[1]
      /\ ToSet(s) = {s[j] : j \in 1 .. Len(s)} /\ head # NULL
      /\ \A j \in 1 .. Len(s) : s[j] \in DOMAIN h /\ s[j] \in Nat
  <2>1. Len(s) \in Nat /\ DOMAIN s = 1 .. Len(s)
        /\ \A j \in 1 .. Len(s) : s[j] \in DOMAIN h /\ s[j] \in Nat
    BY ChainNodes
  <2>2. 1 \in 1 .. Len(s)
    <3>1. PICK D : D = DOMAIN h
      OBVIOUS
    <3>2. s \in Seq(D)
      BY <3>1 DEF IsChain
    <3> QED
      BY <3>2
  <2>3. head = s[1]
    BY DEF IsChain
  <2> QED
    BY <2>1, <2>2, <2>3 DEF ToSet, NULL
<1> DEFINE stops == {a \in ToSet(s) : h[a].next \notin smaller}
           k == Place(s, stops)
<1>2. \A j \in 1 .. Len(s) : s[j] \in stops <=> NextIn(s, j, end) \notin smaller
  BY <1>1 DEF IsChain
<1>3. end \notin smaller
  BY DEF IsHeaders, Ends, NULL, WILD
<1>4. \/ k = 0 /\ \A j \in 1 .. Len(s) : s[j] \notin stops
      \/ /\ k \in 1 .. Len(s)
         /\ s[k] \in stops
         /\ \A j \in 1 .. k - 1 : s[j] \notin stops
  <2>1. PICK D : D = DOMAIN h
    OBVIOUS
  <2>2. s \in Seq(D)
    BY <2>1 DEF IsChain
  <2> HIDE DEF stops
  <2> QED
    BY <2>2, PlaceIs
<1> HIDE DEF k, stops
<1>5. /\ k \in 1 .. Len(s)
      /\ s[k] \in stops
      /\ \A j \in 1 .. k - 1 : s[j] \notin stops
  <2>1. Len(s) \in 1 .. Len(s) /\ s[Len(s)] \in stops
    BY <1>1, <1>2, <1>3 DEF NextIn
  <2> QED
    BY <1>4, <2>1
<1>6. StopsAt(s, k, smaller)
  <2>1. \A j \in 2 .. k : s[j] \in smaller
    <3> SUFFICES ASSUME NEW j \in 2 .. k PROVE s[j] \in smaller
      OBVIOUS
    <3>1. j - 1 \in 1 .. k - 1 /\ j - 1 \in 1 .. Len(s) /\ j - 1 # Len(s)
          /\ (j - 1) + 1 = j
      BY <1>1, <1>5
    <3>2. NextIn(s, j - 1, end) \in smaller
      BY <1>2, <1>5, <3>1
    <3> QED
      BY <3>1, <3>2 DEF NextIn
  <2>2. k < Len(s) => s[k + 1] \notin smaller
    BY <1>1, <1>2, <1>5 DEF NextIn
  <2> QED
    BY <1>5, <2>1, <2>2 DEF StopsAt
<1> DEFINE curr == s[k]
           next == h[curr].next
<1>7. next = NextIn(s, k, end) /\ curr \in DOMAIN h /\ curr \in Nat
      /\ curr # node /\ curr \in ToSet(s)
  BY <1>1, <1>5 DEF IsChain
<1>8. Walk(h, head) = s
  BY WalkIs
<1> DEFINE g1 == SetNext(h, node, next)
           g2 == SetNext(g1, curr, node)
           g3 == SetPrev(g2, node, curr)
           g  == SetPrev(g3, next, node)
<1>9. Insert(head, node, h, goesFirst, smaller) =
         IF next = WILD THEN Wild(head, h) ELSE List(head, g)
  BY <1>1, <1>8 DEF Insert, k, stops
<1>10. CASE next = WILD
  <2>1. k = Len(s) /\ end = WILD
    <3>1. k # Len(s) => next \in Nat
      BY <1>1, <1>5, <1>7 DEF NextIn
    <3> QED
      BY <1>7, <1>10, <3>1 DEF NextIn, WILD
  <2>2. Insert(head, node, h, goesFirst, smaller).wild
    <3>1. Insert(head, node, h, goesFirst, smaller) = Wild(head, h)
      BY <1>9, <1>10
    <3> QED
      BY <3>1, ListFields
  <2> QED
    BY <1>6, <2>1, <2>2
<1>11. CASE next # WILD
  <2>1. next \in DOMAIN h \cup {NULL} /\ next \in Int /\ next # node
    <3>1. CASE k = Len(s)
      BY <1>7, <1>11, <3>1 DEF NextIn, Ends, NULL, IsHeaders
    <3>2. CASE k # Len(s)
      <4>1. k + 1 \in 1 .. Len(s) /\ next = s[k + 1]
        BY <1>1, <1>5, <1>7, <3>2 DEF NextIn
      <4> QED
        BY <1>1, <4>1
    <3> QED
      BY <3>1, <3>2
  <2>2. node \in Int /\ curr \in Int
    BY <1>7 DEF IsHeaders
  <2> HIDE DEF curr, next
  <2>3. /\ IsHeaders(g1) /\ DOMAIN g1 = DOMAIN h
        /\ \A b \in DOMAIN h :
              /\ g1[b].size = h[b].size
              /\ g1[b].prev = h[b].prev
              /\ g1[b].next = IF node = b THEN next ELSE h[b].next
              /\ b # node => g1[b] = h[b]
    BY <2>1, SetNextIs
  <2> HIDE DEF g1
  <2>4. /\ IsHeaders(g2) /\ DOMAIN g2 = DOMAIN g1
        /\ \A b \in DOMAIN g1 :
              /\ g2[b].size = g1[b].size
              /\ g2[b].prev = g1[b].prev
              /\ g2[b].next = IF curr = b THEN node ELSE g1[b].next
              /\ b # curr => g2[b] = g1[b]
    <3>1. curr \in DOMAIN g1 /\ node \in Int /\ IsHeaders(g1)
      BY <1>7, <2>2, <2>3
    <3> QED
      BY <3>1, SetNextIs
  <2> HIDE DEF g2
  <2>5. /\ IsHeaders(g3) /\ DOMAIN g3 = DOMAIN g2
        /\ \A b \in DOMAIN g2 :
              /\ g3[b].size = g2[b].size
              /\ g3[b].next = g2[b].next
              /\ g3[b].prev = IF node = b THEN curr ELSE g2[b].prev
              /\ b # node => g3[b] = g2[b]
    <3>1. IsHeaders(g2) /\ node \in DOMAIN g2 \cup {NULL} /\ curr \in Int
      BY <1>7, <2>2, <2>3, <2>4
    <3>2. PrevSet(g2, node, curr, g3)
      BY <3>1, PrevIsSet
    <3> QED
      BY <3>2 DEF PrevSet
  <2> HIDE DEF g3
  <2>6. /\ IsHeaders(g) /\ DOMAIN g = DOMAIN g3
        /\ \A b \in DOMAIN g3 :
              /\ g[b].size = g3[b].size
              /\ g[b].next = g3[b].next
              /\ g[b].prev = IF next = b THEN node ELSE g3[b].prev
              /\ b # next => g[b] = g3[b]
    <3>1. next \in DOMAIN g3 \cup {NULL} /\ node \in Int /\ IsHeaders(g3)
      BY <2>1, <2>2, <2>3, <2>4, <2>5
    <3> QED
      BY <3>1, SetPrevIs
  <2> HIDE DEF g
  <2>7. DOMAIN g = DOMAIN h /\ DOMAIN g1 = DOMAIN h /\ DOMAIN g2 = DOMAIN h
        /\ DOMAIN g3 = DOMAIN h
    BY <2>3, <2>4, <2>5, <2>6
  <2>8. \A b \in DOMAIN h :
           /\ g[b].size = h[b].size
           /\ g[b].next = IF b = node THEN next
                          ELSE IF b = curr THEN node ELSE h[b].next
           /\ g[b].prev = IF b = node THEN curr
                          ELSE IF b = next THEN node ELSE h[b].prev
           /\ b \notin {node, curr, next} => g[b] = h[b]
    BY <1>7, <2>1, <2>3, <2>4, <2>5, <2>6, <2>7
  <2>9. Links(h, g, s, k, node, end)
    <3>1. PrevIn(s, k + 1) = curr /\ k > 0 /\ curr = s[k]
      BY <1>1, <1>5 DEF PrevIn, curr
    <3>2. CASE k = Len(s)
      <4>1. \A b \in DOMAIN h : b # next
        BY <2>1, <1>7, <3>2 DEF NextIn, IsHeaders, Ends, NULL, WILD
      <4>2. ~(k < Len(s))
        BY <1>1, <3>2
      <4> QED
        BY <1>7, <2>8, <3>1, <4>1, <4>2 DEF Links
    <3>3. CASE k # Len(s)
      <4>1. k < Len(s) /\ next = s[k + 1]
        BY <1>1, <1>5, <1>7, <3>3 DEF NextIn
      <4> QED
        BY <1>7, <2>8, <3>1, <4>1 DEF Links
    <3> QED
      BY <3>2, <3>3
  <2>10. IsChain(g, head, Inserted(s, k, node), end)
    <3>1. k \in 0 .. Len(s) /\ k # 0
      BY <1>1, <1>5
    <3>2. IsChain(g, IF k = 0 THEN node ELSE head, Inserted(s, k, node), end)
      BY <2>7, <2>9, <3>1, ChainInsert
    <3> QED
      BY <3>1, <3>2
  <2>11. Kept(h, g, ToSet(s) \cup {node})
    <3>1. next = NULL \/ next \in ToSet(s)
      <4>1. CASE k = Len(s)
        BY <1>7, <1>11, <4>1 DEF NextIn, Ends
      <4>2. CASE k # Len(s)
        <5>1. k + 1 \in 1 .. Len(s) /\ next = s[k + 1]
          BY <1>1, <1>5, <1>7, <4>2 DEF NextIn
        <5> QED
          BY <1>1, <5>1
      <4> QED
        BY <4>1, <4>2
    <3>2. \A b \in DOMAIN h : b # NULL
      BY DEF IsHeaders, NULL
    <3>3. IsHeaders(g)
      BY <2>6
    <3> QED
      BY <1>7, <2>7, <2>8, <3>1, <3>2, <3>3 DEF Kept
  <2>12. InsertedAt(Insert(head, node, h, goesFirst, smaller),
                    h, head, s, k, node, end)
    <3>1. Insert(head, node, h, goesFirst, smaller) = List(head, g)
      BY <1>9, <1>11
    <3>2. s # <<>>
      OBVIOUS
    <3> QED
      BY <2>10, <2>11, <3>1, <3>2, ListFields DEF InsertedAt
  <2> QED
    BY <1>6, <2>12
<1> QED
  BY <1>10, <1>11

\* What a list operation does that takes the node at place k out.
TakenOut(r, h, head, s, k, end) ==
    /\ ~r.wild
    /\ IsChain(r.hdr, r.head, CutOut(s, k, 1), end)
    /\ Kept(h, r.hdr, ToSet(s))

\* The links deleteNode() and popNode() set around the node they take out of
\* a list, whatever they do to the node itself.
Bypassed(h, g, s, k, next) ==
    \A b \in DOMAIN h : b # s[k] =>
       /\ g[b].next = IF k > 1 /\ b = s[k - 1] THEN next ELSE h[b].next
       /\ g[b].prev = IF b = next THEN PrevIn(s, k) ELSE h[b].prev

LEMMA TakeOut ==
    ASSUME NEW h, IsHeaders(h), NEW head, NEW end \in Ends, NEW s,
           IsChain(h, head, s, end), NEW k \in 1 .. Len(s),
           NEW next, next = h[s[k]].next, next # WILD,
           NEW g, Kept(h, g, ToSet(s)), Bypassed(h, g, s, k, next)
    PROVE  IsChain(g, IF k = 1 THEN next ELSE head, CutOut(s, k, 1), end)
<1>1. /\ Len(s) \in Nat
      /\ \A j \in 1 .. Len(s) : s[j] \in DOMAIN h /\ s[j] \in Nat
  BY ChainNodes
<1>2. \A j, l \in 1 .. Len(s) : s[j] = s[l] => j = l
  BY DEF IsChain
<1>3. next = NextIn(s, k, end)
  BY DEF IsChain
<1>4. Unlinks(h, g, s, k, 1, end)
  <2> SUFFICES ASSUME NEW j \in 1 .. Len(s), j < k \/ j >= k + 1
               PROVE  /\ s[j] \in DOMAIN g
                      /\ g[s[j]].next = IF j = k - 1 THEN NextIn(s, k + 1 - 1, end)
                                        ELSE h[s[j]].next
                      /\ g[s[j]].prev = IF j = k + 1 THEN PrevIn(s, k)
                                        ELSE h[s[j]].prev
    BY DEF Unlinks
  <2>1. s[j] \in DOMAIN h /\ s[j] # s[k] /\ s[j] \in DOMAIN g
    BY <1>1, <1>2 DEF Kept
  <2>2. /\ g[s[j]].next = IF k > 1 /\ s[j] = s[k - 1] THEN next
                          ELSE h[s[j]].next
        /\ g[s[j]].prev = IF s[j] = next THEN PrevIn(s, k) ELSE h[s[j]].prev
    BY <2>1 DEF Bypassed
  <2>3. (k > 1 /\ s[j] = s[k - 1]) <=> j = k - 1
    BY <1>1, <1>2
  <2>4. s[j] = next <=> j = k + 1
    <3>1. CASE k = Len(s)
      BY <1>1, <1>3, <3>1 DEF NextIn, Ends, NULL, WILD
    <3>2. CASE k # Len(s)
      BY <1>1, <1>2, <1>3, <3>2 DEF NextIn
    <3> QED
      BY <3>1, <3>2
  <2>5. NextIn(s, k + 1 - 1, end) = next
    BY <1>1, <1>3
  <2> QED
    BY <2>1, <2>2, <2>3, <2>4, <2>5
<1>5. IsChain(g, IF k = 1 THEN (IF 1 = Len(s) THEN NULL ELSE s[1 + 1])
                 ELSE head, CutOut(s, k, 1), end)
  <2>1. k + 1 - 1 <= Len(s) /\ 1 \in Nat \ {0}
    BY <1>1
  <2> QED
    BY <1>4, <2>1, ChainCut
<1>6. k = 1 => next = IF 1 = Len(s) THEN NULL ELSE s[1 + 1]
  BY <1>1, <1>3 DEF NextIn, Ends
<1> QED
  BY <1>5, <1>6

\* deleteNode() finds no node: it has come to the end, wild or not.
LEMMA DeleteNone ==
    ASSUME NEW h, IsHeaders(h), NEW head, NEW end \in Ends, NEW s,
           IsChain(h, head, s, end), NEW del, del \notin ToSet(s)
    PROVE  LET r == DeleteNode(head, del, h)
           IN  \/ /\ end = WILD /\ s # <<>> /\ r.wild
               \/ /\ ~r.wild /\ r.size = 0 /\ r.head = head /\ r.hdr = h
<1>1. Walk(h, head) = s
  BY WalkIs
<1>2. CASE s = <<>>
  <2>1. DeleteNode(head, del, h) = List(head, h)
    BY <1>2 DEF DeleteNode, IsChain
  <2> QED
    BY <2>1, ListFields
<1>3. CASE s # <<>>
  <2>1. /\ Len(s) \in Nat /\ DOMAIN s = 1 .. Len(s)
        /\ \A j \in 1 .. Len(s) : s[j] \in DOMAIN h /\ s[j] \in Nat
    BY ChainNodes
  <2>2. PICK D : D = DOMAIN h
    OBVIOUS
  <2>3. s \in Seq(D)
    BY <2>2 DEF IsChain
  <2>4. Len(s) > 0
    BY <1>3, <2>3
  <2>5. Place(s, {del}) = 0
    <3>1. \A j \in 1 .. Len(s) : s[j] \notin {del}
      BY <2>1 DEF ToSet
    <3>2. \/ Place(s, {del}) = 0
          \/ /\ Place(s, {del}) \in 1 .. Len(s)
             /\ s[Place(s, {del})] \in {del}
      BY <2>3, PlaceIs
    <3> QED
      BY <3>1, <3>2
  <2>6. h[Last(s)].next = end
    <3>1. Len(s) \in 1 .. Len(s) /\ Last(s) = s[Len(s)]
      BY <2>1, <2>4 DEF Last
    <3>2. h[s[Len(s)]].next = NextIn(s, Len(s), end)
      BY <3>1 DEF IsChain
    <3> QED
      BY <3>1, <3>2 DEF NextIn
  <2>7. head # NULL
    BY <1>3, <2>1, <2>4 DEF IsChain, NULL
  <2>8. DeleteNode(head, del, h) = IF end = WILD THEN Wild(head, h)
                                   ELSE List(head, h)
    BY <1>1, <2>5, <2>6, <2>7 DEF DeleteNode
  <2>9. CASE end = WILD
    <3>1. DeleteNode(head, del, h) = Wild(head, h)
      BY <2>8, <2>9
    <3> QED
      BY <1>3, <2>9, <3>1, ListFields
  <2>10. CASE end # WILD
    <3>1. DeleteNode(head, del, h) = List(head, h)
      BY <2>8, <2>10
    <3> QED
      BY <3>1, ListFields
  <2> QED
    BY <2>9, <2>10
<1> QED
  BY <1>2, <1>3

\* deleteNode() takes the node out that it finds.
LEMMA DeleteFound ==
    ASSUME NEW h, IsHeaders(h), NEW head, NEW end \in Ends, NEW s,
           IsChain(h, head, s, end), NEW k \in 1 .. Len(s)
    PROVE  LET r == DeleteNode(head, s[k], h)
           IN  \/ /\ k = Len(s) /\ end = WILD /\ r.wild
               \/ /\ TakenOut(r, h, head, s, k, end)
                  /\ r.size = h[s[k]].size
<1>1. /\ Len(s) \in Nat
      /\ \A j \in 1 .. Len(s) : s[j] \in DOMAIN h /\ s[j] \in Nat
      /\ ToSet(s) = {s[j] : j \in 1 .. Len(s)}
  BY ChainNodes DEF ToSet
<1>2. \A j, l \in 1 .. Len(s) : s[j] = s[l] => j = l
  BY DEF IsChain
<1>3. Walk(h, head) = s
  BY WalkIs
<1> DEFINE del  == s[k]
           next == h[del].next
<1>4. /\ next = NextIn(s, k, end)
      /\ del \in DOMAIN h /\ del \in ToSet(s)
      /\ head # NULL
  <2>1. s # <<>> /\ 1 \in 1 .. Len(s)
    BY <1>1
  <2>2. head \in Nat
    BY <1>1, <2>1 DEF IsChain
  <2>3. head # NULL
    BY <2>2 DEF NULL
  <2>4. next = NextIn(s, k, end)
    BY DEF IsChain
  <2> QED
    BY <1>1, <2>3, <2>4
<1>5. Place(s, {del}) = k
  <2>1. PICK D : D = DOMAIN h
    OBVIOUS
  <2>2. s \in Seq(D)
    BY <2>1 DEF IsChain
  <2>3. \/ /\ Place(s, {del}) = 0
           /\ \A j \in 1 .. Len(s) : s[j] \notin {del}
        \/ /\ Place(s, {del}) \in 1 .. Len(s)
           /\ s[Place(s, {del})] \in {del}
    BY <2>2, PlaceIs
  <2>4. Place(s, {del}) \in 1 .. Len(s) /\ s[Place(s, {del})] = s[k]
    BY <2>3
  <2> QED
    BY <1>2, <2>4
<1>6. CASE next = WILD
  <2>1. k = Len(s) /\ end = WILD
    BY <1>1, <1>4, <1>6 DEF NextIn, WILD
  <2>2. DeleteNode(head, del, h) = Wild(head, h)
    BY <1>3, <1>4, <1>5, <1>6, <1>1 DEF DeleteNode
  <2> QED
    BY <2>1, <2>2, ListFields
<1>7. CASE next # WILD
  <2>1. next \in DOMAIN h \cup {NULL} /\ next # del
        /\ next \in ToSet(s) \cup {NULL}
    <3>1. CASE k = Len(s)
      BY <1>1, <1>4, <1>7, <3>1 DEF NextIn, Ends, NULL
    <3>2. CASE k # Len(s)
      <4>1. k + 1 \in 1 .. Len(s) /\ next = s[k + 1]
        BY <1>1, <1>4, <3>2 DEF NextIn
      <4> QED
        BY <1>1, <1>2, <4>1
    <3> QED
      BY <3>1, <3>2
  <2>2. next \in Int /\ NULL \in Int /\ NULL \notin DOMAIN h
    BY <2>1 DEF IsHeaders, NULL
  <2> HIDE DEF del, next
  <2>3. CASE k = 1
    <3> DEFINE g == SetPrev(h, next, NULL)
    <3>1. /\ IsHeaders(g) /\ DOMAIN g = DOMAIN h
          /\ \A b \in DOMAIN h :
                /\ g[b].size = h[b].size
                /\ g[b].next = h[b].next
                /\ g[b].prev = IF next = b THEN NULL ELSE h[b].prev
                /\ b # next => g[b] = h[b]
      BY <2>1, <2>2, SetPrevIs
    <3>2. DeleteNode(head, del, h) = [List(next, g) EXCEPT !.size = h[del].size]
      BY <1>3, <1>4, <1>5, <1>7, <2>3 DEF DeleteNode, next
    <3> HIDE DEF g
    <3>3. Kept(h, g, ToSet(s))
      BY <2>1, <2>2, <3>1 DEF Kept
    <3>4. PrevIn(s, k) = NULL
      BY <2>3 DEF PrevIn
    <3>5. IsChain(g, IF k = 1 THEN next ELSE head, CutOut(s, k, 1), end)
      <4>1. next = h[s[k]].next
        BY DEF next, del
      <4>2. Bypassed(h, g, s, k, next)
        BY <2>3, <3>1, <3>4 DEF Bypassed, del
      <4> QED
        BY <1>7, <3>3, <4>1, <4>2, TakeOut
    <3>6. IsChain(g, next, CutOut(s, k, 1), end)
      BY <2>3, <3>5
    <3>7. PICK r : r = DeleteNode(head, del, h)
      OBVIOUS
    <3>8. ~r.wild /\ r.head = next /\ r.hdr = g /\ r.size = h[del].size
      BY <3>2, <3>7 DEF List
    <3>9. TakenOut(r, h, head, s, k, end) /\ r.size = h[del].size
      BY <3>3, <3>6, <3>8 DEF TakenOut
    <3> QED
      BY <3>7, <3>9 DEF del
  <2>4. CASE k # 1
    <3> DEFINE prev == s[k - 1]
               g1 == SetNext(h, prev, next)
               g2 == SetPrev(g1, next, prev)
               g3 == SetNext(g2, del, NULL)
               g  == SetPrev(g3, del, NULL)
    <3>1. k - 1 \in 1 .. Len(s) /\ prev \in DOMAIN h /\ prev # del
          /\ prev \in Int /\ prev \in ToSet(s)
      BY <1>1, <1>2, <2>4 DEF del
    <3>2. DeleteNode(head, del, h) = [List(head, g) EXCEPT !.size = h[del].size]
      <4>1. k # 0 /\ next = h[del].next
        BY <1>1 DEF next
      <4> QED
        BY <1>3, <1>4, <1>5, <1>7, <2>4, <4>1 DEF DeleteNode
    <3> HIDE DEF prev
    <3>3. /\ IsHeaders(g1) /\ DOMAIN g1 = DOMAIN h
          /\ \A b \in DOMAIN h :
                /\ g1[b].size = h[b].size
                /\ g1[b].prev = h[b].prev
                /\ g1[b].next = IF prev = b THEN next ELSE h[b].next
                /\ b # prev => g1[b] = h[b]
      <4>1. prev \in DOMAIN h /\ next \in Int
        BY <2>2, <3>1
      <4> QED
        BY <4>1, SetNextIs
    <3> HIDE DEF g1
    <3>4. /\ IsHeaders(g2) /\ DOMAIN g2 = DOMAIN g1
          /\ \A b \in DOMAIN g1 :
                /\ g2[b].size = g1[b].size
                /\ g2[b].next = g1[b].next
                /\ g2[b].prev = IF next = b THEN prev ELSE g1[b].prev
                /\ b # next => g2[b] = g1[b]
      <4>1. next \in DOMAIN g1 \cup {NULL} /\ prev \in Int /\ IsHeaders(g1)
        BY <2>1, <3>1, <3>3
      <4> QED
        BY <4>1, SetPrevIs
    <3> HIDE DEF g2
    <3>5. /\ IsHeaders(g3) /\ DOMAIN g3 = DOMAIN g2
          /\ \A b \in DOMAIN g2 :
                /\ g3[b].size = g2[b].size
                /\ g3[b].prev = g2[b].prev
                /\ g3[b].next = IF del = b THEN NULL ELSE g2[b].next
                /\ b # del => g3[b] = g2[b]
      <4>1. del \in DOMAIN g2 /\ NULL \in Int /\ IsHeaders(g2)
        BY <1>4, <2>2, <3>3, <3>4
      <4> QED
        BY <4>1, SetNextIs
    <3> HIDE DEF g3
    <3>6. /\ IsHeaders(g) /\ DOMAIN g = DOMAIN g3
          /\ \A b \in DOMAIN g3 :
                /\ g[b].size = g3[b].size
                /\ g[b].next = g3[b].next
                /\ g[b].prev = IF del = b THEN NULL ELSE g3[b].prev
                /\ b # del => g[b] = g3[b]
      <4>1. del \in DOMAIN g3 \cup {NULL} /\ NULL \in Int /\ IsHeaders(g3)
        BY <1>4, <2>2, <3>3, <3>4, <3>5
      <4> QED
        BY <4>1, SetPrevIs
    <3> HIDE DEF g
    <3>7. DOMAIN g = DOMAIN h /\ DOMAIN g1 = DOMAIN h /\ DOMAIN g2 = DOMAIN h
          /\ DOMAIN g3 = DOMAIN h
      BY <3>3, <3>4, <3>5, <3>6
    <3>8. \A b \in DOMAIN h :
             /\ g[b].size = h[b].size
             /\ b # del => /\ g[b].next = IF b = prev THEN next ELSE h[b].next
                           /\ g[b].prev = IF b = next THEN prev ELSE h[b].prev
             /\ b \notin {prev, del, next} => g[b] = h[b]
      BY <2>1, <3>1, <3>3, <3>4, <3>5, <3>6, <3>7
    <3>9. Kept(h, g, ToSet(s))
      BY <1>4, <2>1, <2>2, <3>1, <3>6, <3>7, <3>8 DEF Kept
    <3>10. IsChain(g, IF k = 1 THEN next ELSE head, CutOut(s, k, 1), end)
      <4>1. next = h[s[k]].next
        BY DEF next, del
      <4>2. prev = PrevIn(s, k) /\ prev = s[k - 1] /\ del = s[k] /\ k > 1
        BY <2>4 DEF PrevIn, prev, del
      <4>3. Bypassed(h, g, s, k, next)
        BY <3>8, <4>2 DEF Bypassed
      <4> QED
        BY <1>7, <3>9, <4>1, <4>3, TakeOut
    <3>11. IsChain(g, head, CutOut(s, k, 1), end)
      BY <2>4, <3>10
    <3>12. PICK r : r = DeleteNode(head, del, h)
      OBVIOUS
    <3>13. ~r.wild /\ r.head = head /\ r.hdr = g /\ r.size = h[del].size
      BY <3>2, <3>12 DEF List
    <3>14. TakenOut(r, h, head, s, k, end) /\ r.size = h[del].size
      BY <3>9, <3>11, <3>13 DEF TakenOut
    <3> QED
      BY <3>12, <3>14 DEF del
  <2> QED
    BY <2>3, <2>4
<1> QED
  BY <1>6, <1>7

\* popNode() takes the first node out of a list that ends.
LEMMA PopFirst ==
    ASSUME NEW h, IsHeaders(h), NEW head, NEW s,
           IsChain(h, head, s, NULL), s # <<>>
    PROVE  LET r == PopNode(head, h)
           IN  /\ TakenOut(r, h, head, s, 1, NULL)
               /\ r.hdr[s[1]].next = NULL /\ r.hdr[s[1]].prev = NULL
<1>1. /\ Len(s) \in Nat
      /\ \A j \in 1 .. Len(s) : s[j] \in DOMAIN h /\ s[j] \in Nat
      /\ ToSet(s) = {s[j] : j \in 1 .. Len(s)}
  BY ChainNodes DEF ToSet
<1>2. 1 \in 1 .. Len(s)
  <2>1. PICK D : D = DOMAIN h
    OBVIOUS
  <2>2. s \in Seq(D)
    BY <2>1 DEF IsChain
  <2> QED
    BY <2>2
<1>3. \A j, l \in 1 .. Len(s) : s[j] = s[l] => j = l
  BY DEF IsChain
<1> DEFINE next == h[head].next
<1>4. /\ head = s[1] /\ head \in DOMAIN h /\ head \in Nat
      /\ next = NextIn(s, 1, NULL) /\ h[head].prev = NULL
      /\ head \in ToSet(s)
  <2>1. head = s[1]
    BY DEF IsChain
  <2> QED
    BY <1>1, <1>2, <2>1 DEF IsChain, PrevIn
<1>5. NULL \in Int /\ NULL \notin DOMAIN h /\ NULL # WILD /\ NULL \in Ends
  BY DEF IsHeaders, NULL, WILD, Ends
<1> HIDE DEF next
<1>6. ASSUME NEW g, IsHeaders(g), DOMAIN g = DOMAIN h,
             NEW r, ~r.wild, r.head = next, r.hdr = g,
             \A b \in DOMAIN h :
                /\ g[b].size = h[b].size
                /\ b \notin {head, next} => g[b] = h[b]
                /\ b # head => g[b].next = h[b].next
                /\ g[b].prev = IF b = next THEN NULL ELSE h[b].prev,
             next # WILD, next \in ToSet(s) \cup {NULL}
      PROVE  TakenOut(r, h, head, s, 1, NULL)
  <2>1. Kept(h, g, ToSet(s))
    BY <1>4, <1>5, <1>6 DEF Kept
  <2>2. Bypassed(h, g, s, 1, next)
    BY <1>4, <1>6 DEF Bypassed, PrevIn
  <2>3. next = h[s[1]].next
    BY <1>4 DEF next
  <2>4. IsChain(g, IF 1 = 1 THEN next ELSE head, CutOut(s, 1, 1), NULL)
    BY <1>2, <1>5, <1>6, <2>1, <2>2, <2>3, TakeOut
  <2>5. IsChain(g, next, CutOut(s, 1, 1), NULL)
    BY <2>4
  <2> QED
    BY <1>6, <2>1, <2>5 DEF TakenOut
<1>7. CASE Len(s) = 1
  <2>1. next = NULL
    BY <1>4, <1>7 DEF NextIn
  <2>2. PopNode(head, h) = List(NULL, h)
    BY <1>4, <2>1 DEF PopNode, next
  <2>3. PICK r : r = PopNode(head, h)
    OBVIOUS
  <2>4. ~r.wild /\ r.head = next /\ r.hdr = h
    BY <2>1, <2>2, <2>3, ListFields
  <2>5. \A b \in DOMAIN h : b # next
    BY <1>5, <2>1
  <2>6. TakenOut(r, h, head, s, 1, NULL)
    BY <1>5, <1>6, <2>1, <2>4, <2>5
  <2>7. r.hdr[s[1]].next = NULL /\ r.hdr[s[1]].prev = NULL
    BY <1>4, <2>1, <2>4 DEF next
  <2> QED
    BY <2>3, <2>6, <2>7
<1>8. CASE Len(s) # 1
  <2>1. next = s[2] /\ 2 \in 1 .. Len(s) /\ next \in DOMAIN h
        /\ next \in Nat /\ next # head /\ next \in ToSet(s)
    <3>1. 1 # Len(s) /\ 2 \in 1 .. Len(s)
      <4>1. PICK n : n = Len(s)
        OBVIOUS
      <4>2. n \in Nat /\ 1 \in 1 .. n /\ n # 1
        BY <1>1, <1>2, <1>8, <4>1
      <4>3. 1 # n /\ 2 \in 1 .. n
        BY <4>2
      <4> QED
        BY <4>1, <4>3
    <3>2. next = s[1 + 1]
      BY <1>4, <3>1 DEF NextIn
    <3>3. next = s[2]
      BY <3>2
    <3> QED
      BY <1>1, <1>2, <1>3, <1>4, <3>1, <3>3
  <2> DEFINE g1 == SetPrev(h, next, NULL)
             g2 == SetPrev(g1, head, NULL)
             g  == SetNext(g2, head, NULL)
  <2>2. PopNode(head, h) = List(next, g)
    <3>1. next \notin {NULL, WILD}
      BY <2>1 DEF NULL, WILD
    <3>2. PopNode(head, h) =
             IF next = NULL /\ h[head].prev = NULL THEN List(NULL, h)
             ELSE IF next \in {NULL, WILD} THEN Wild(head, h)
             ELSE List(next, g)
      BY DEF PopNode, next
    <3> HIDE DEF g
    <3> QED
      BY <3>1, <3>2
  <2>3. /\ IsHeaders(g1) /\ DOMAIN g1 = DOMAIN h
        /\ \A b \in DOMAIN h :
              /\ g1[b].size = h[b].size
              /\ g1[b].next = h[b].next
              /\ g1[b].prev = IF next = b THEN NULL ELSE h[b].prev
              /\ b # next => g1[b] = h[b]
    <3>1. next \in DOMAIN h \cup {NULL} /\ NULL \in Int
      BY <1>5, <2>1
    <3> QED
      BY <3>1, SetPrevIs
  <2> HIDE DEF g1
  <2>4. /\ IsHeaders(g2) /\ DOMAIN g2 = DOMAIN g1
        /\ \A b \in DOMAIN g1 :
              /\ g2[b].size = g1[b].size
              /\ g2[b].next = g1[b].next
              /\ g2[b].prev = IF head = b THEN NULL ELSE g1[b].prev
              /\ b # head => g2[b] = g1[b]
    <3>1. head \in DOMAIN g1 \cup {NULL} /\ NULL \in Int /\ IsHeaders(g1)
      BY <1>4, <1>5, <2>3
    <3> QED
      BY <3>1, SetPrevIs
  <2> HIDE DEF g2
  <2>5. /\ IsHeaders(g) /\ DOMAIN g = DOMAIN g2
        /\ \A b \in DOMAIN g2 :
              /\ g[b].size = g2[b].size
              /\ g[b].prev = g2[b].prev
              /\ g[b].next = IF head = b THEN NULL ELSE g2[b].next
              /\ b # head => g[b] = g2[b]
    <3>1. head \in DOMAIN g2 /\ NULL \in Int /\ IsHeaders(g2)
      BY <1>4, <1>5, <2>3, <2>4
    <3> QED
      BY <3>1, SetNextIs
  <2> HIDE DEF g
  <2>6. DOMAIN g = DOMAIN h /\ DOMAIN g1 = DOMAIN h /\ DOMAIN g2 = DOMAIN h
    BY <2>3, <2>4, <2>5
  <2>7. \A b \in DOMAIN h :
           /\ g[b].size = h[b].size
           /\ b \notin {head, next} => g[b] = h[b]
           /\ b # head => g[b].next = h[b].next
           /\ g[b].prev = IF b = next THEN NULL ELSE h[b].prev
    BY <1>4, <2>1, <2>3, <2>4, <2>5, <2>6
  <2>8. g[head].next = NULL /\ g[head].prev = NULL
    BY <1>4, <2>1, <2>3, <2>4, <2>5, <2>6
  <2>9. PICK r : r = PopNode(head, h)
    OBVIOUS
  <2>10. ~r.wild /\ r.head = next /\ r.hdr = g
    BY <2>2, <2>9, ListFields
  <2>11. next # WILD
    BY <2>1 DEF WILD
  <2>12. TakenOut(r, h, head, s, 1, NULL)
    BY <1>6, <2>1, <2>5, <2>6, <2>7, <2>10, <2>11
  <2> QED
    BY <1>4, <2>8, <2>9, <2>10, <2>12
<1> QED
  BY <1>7, <1>8

\* merge() takes a pair of neighbours out of a list that ends: with the bins
\* b as they are and the header of each of the others kept.
LEMMA UnlinkPair ==
    ASSUME NEW h, IsHeaders(h), NEW head, NEW s,
           IsChain(h, head, s, NULL), NEW k \in 1 .. Len(s) - 1,
           NEW g, NEW first,
           IF k = 1 THEN /\ first = h[s[k + 1]].next
                         /\ g = SetPrev(h, h[s[k + 1]].next, NULL)
           ELSE /\ first = head
                /\ g = SetPrev(SetNext(h, s[k - 1], h[s[k + 1]].next),
                               h[s[k + 1]].next, s[k - 1])
    PROVE  IsChain(g, first, CutOut(s, k, 2), NULL) /\ Kept(h, g, ToSet(s))
<1>1. /\ Len(s) \in Nat
      /\ \A j \in 1 .. Len(s) : s[j] \in DOMAIN h /\ s[j] \in Nat
      /\ ToSet(s) = {s[j] : j \in 1 .. Len(s)}
  BY ChainNodes DEF ToSet
<1>2. k \in 1 .. Len(s) /\ k + 1 \in 1 .. Len(s) /\ k + 2 - 1 = k + 1
  BY <1>1
<1>3. \A j, l \in 1 .. Len(s) : s[j] = s[l] => j = l
  BY DEF IsChain
<1>4. PICK next : next = h[s[k + 1]].next
  OBVIOUS
<1>5. next = NextIn(s, k + 1, NULL)
  BY <1>2, <1>4 DEF IsChain
<1>6. NULL \in Int /\ NULL \notin DOMAIN h /\ NULL \in Ends
  BY DEF IsHeaders, NULL, Ends
<1>7. /\ next \in ToSet(s) \cup {NULL} /\ next \in DOMAIN h \cup {NULL}
      /\ next \in Int
      /\ \A j \in 1 .. Len(s) : s[j] = next <=> j = k + 2
  <2>1. CASE k + 1 = Len(s)
    BY <1>1, <1>5, <1>6, <2>1 DEF NextIn, NULL
  <2>2. CASE k + 1 # Len(s)
    <3>1. k + 2 \in 1 .. Len(s) /\ next = s[k + 2]
      <4>1. (k + 1) + 1 = k + 2 /\ k + 2 \in 1 .. Len(s)
        BY <1>1, <1>2, <2>2
      <4> QED
        BY <1>5, <2>2, <4>1 DEF NextIn
    <3> QED
      BY <1>1, <1>3, <3>1
  <2> QED
    BY <2>1, <2>2
<1>8. CASE k = 1
  <2>1. g = SetPrev(h, next, NULL) /\ first = next
    BY <1>4, <1>8
  <2>2. /\ IsHeaders(g) /\ DOMAIN g = DOMAIN h
        /\ \A b \in DOMAIN h :
              /\ g[b].size = h[b].size
              /\ g[b].next = h[b].next
              /\ g[b].prev = IF next = b THEN NULL ELSE h[b].prev
              /\ b # next => g[b] = h[b]
    <3>1. next \in DOMAIN h \cup {NULL} /\ NULL \in Int
      BY <1>6, <1>7
    <3>2. PrevSet(h, next, NULL, SetPrev(h, next, NULL))
      BY <3>1, PrevIsSet
    <3> QED
      BY <2>1, <3>2 DEF PrevSet
  <2>3. Kept(h, g, ToSet(s))
    BY <1>6, <1>7, <2>2 DEF Kept
  <2>4. Unlinks(h, g, s, k, 2, NULL)
    <3> SUFFICES ASSUME NEW j \in 1 .. Len(s), j < k \/ j >= k + 2
                 PROVE  /\ s[j] \in DOMAIN g
                        /\ g[s[j]].next = IF j = k - 1
                                          THEN NextIn(s, k + 2 - 1, NULL)
                                          ELSE h[s[j]].next
                        /\ g[s[j]].prev = IF j = k + 2 THEN PrevIn(s, k)
                                          ELSE h[s[j]].prev
      BY DEF Unlinks
    <3>1. j # k - 1 /\ s[j] \in DOMAIN h
      BY <1>1, <1>8
    <3>2. PrevIn(s, k) = NULL
      BY <1>8 DEF PrevIn
    <3> QED
      BY <1>7, <2>2, <3>1, <3>2
  <2>5. IsChain(g, IF k = 1 THEN (IF 2 = Len(s) THEN NULL ELSE s[2 + 1])
                   ELSE head, CutOut(s, k, 2), NULL)
    <3>1. k + 2 - 1 <= Len(s) /\ 2 \in Nat \ {0}
      BY <1>1, <1>2
    <3> QED
      BY <1>2, <1>6, <2>4, <3>1, ChainCut
  <2>6. first = IF 2 = Len(s) THEN NULL ELSE s[2 + 1]
    <3>1. k + 1 = 2
      BY <1>8
    <3> QED
      BY <1>5, <2>1, <3>1 DEF NextIn
  <2> QED
    BY <1>8, <2>3, <2>5, <2>6
<1>9. CASE k # 1
  <2>1. PICK prev : prev = s[k - 1]
    OBVIOUS
  <2>2. k - 1 \in 1 .. Len(s) /\ prev \in DOMAIN h /\ prev \in Int
        /\ prev \in ToSet(s)
    BY <1>1, <1>9, <2>1
  <2>3. PICK g1 : g1 = SetNext(h, prev, next)
    OBVIOUS
  <2>4. g = SetPrev(g1, next, prev) /\ first = head
    BY <1>4, <1>9, <2>1, <2>3
  <2>5. /\ IsHeaders(g1) /\ DOMAIN g1 = DOMAIN h
        /\ \A b \in DOMAIN h :
              /\ g1[b].size = h[b].size
              /\ g1[b].prev = h[b].prev
              /\ g1[b].next = IF prev = b THEN next ELSE h[b].next
              /\ b # prev => g1[b] = h[b]
    <3> DEFINE f == SetNext(h, prev, next)
    <3>1. prev \in DOMAIN h /\ next \in Int
      BY <1>7, <2>2
    <3>2. /\ IsHeaders(f) /\ DOMAIN f = DOMAIN h
          /\ \A b \in DOMAIN h :
                /\ f[b].size = h[b].size
                /\ f[b].prev = h[b].prev
                /\ f[b].next = IF prev = b THEN next ELSE h[b].next
                /\ b # prev => f[b] = h[b]
      BY <3>1, ZenonT(60), SetNextIs
    <3>3. g1 = f
      BY <2>3
    <3> HIDE DEF f
    <3> QED
      BY <3>2, <3>3
  <2>6. /\ IsHeaders(g) /\ DOMAIN g = DOMAIN g1
        /\ \A b \in DOMAIN g1 :
              /\ g[b].size = g1[b].size
              /\ g[b].next = g1[b].next
              /\ g[b].prev = IF next = b THEN prev ELSE g1[b].prev
              /\ b # next => g[b] = g1[b]
    <3> DEFINE f == SetPrev(g1, next, prev)
    <3>1. next \in DOMAIN g1 \cup {NULL} /\ prev \in Int /\ IsHeaders(g1)
      BY <1>7, <2>2, <2>5
    <3>2. /\ IsHeaders(f) /\ DOMAIN f = DOMAIN g1
          /\ \A b \in DOMAIN g1 :
                /\ f[b].size = g1[b].size
                /\ f[b].next = g1[b].next
                /\ f[b].prev = IF next = b THEN prev ELSE g1[b].prev
                /\ b # next => f[b] = g1[b]
      BY <3>1, SMTT(40), SetPrevIs
    <3>3. g = f
      BY <2>4
    <3> HIDE DEF f
    <3> QED
      BY <3>2, <3>3
  <2>7. DOMAIN g = DOMAIN h /\ DOMAIN g1 = DOMAIN h
    BY <2>5, <2>6
  <2>8. \A b \in DOMAIN h :
           /\ g[b].size = h[b].size
           /\ g[b].next = IF prev = b THEN next ELSE h[b].next
           /\ g[b].prev = IF next = b THEN prev ELSE h[b].prev
           /\ b \notin {prev, next} => g[b] = h[b]
    BY <2>5, <2>6, <2>7
  <2>9. Kept(h, g, ToSet(s))
    BY <1>6, <1>7, <2>2, <2>6, <2>7, <2>8 DEF Kept
  <2>10. Unlinks(h, g, s, k, 2, NULL)
    <3> SUFFICES ASSUME NEW j \in 1 .. Len(s), j < k \/ j >= k + 2
                 PROVE  /\ s[j] \in DOMAIN g
                        /\ g[s[j]].next = IF j = k - 1
                                          THEN NextIn(s, k + 2 - 1, NULL)
                                          ELSE h[s[j]].next
                        /\ g[s[j]].prev = IF j = k + 2 THEN PrevIn(s, k)
                                          ELSE h[s[j]].prev
      BY DEF Unlinks
    <3>1. s[j] \in DOMAIN h /\ (prev = s[j] <=> j = k - 1)
      BY <1>1, <1>3, <2>1, <2>2
    <3>2. PrevIn(s, k) = prev
      BY <1>9, <2>1 DEF PrevIn
    <3>3. NextIn(s, k + 2 - 1, NULL) = next
      BY <1>2, <1>5
    <3> QED
      BY <1>7, <2>7, <2>8, <3>1, <3>2, <3>3
  <2>11. IsChain(g, IF k = 1 THEN (IF 2 = Len(s) THEN NULL ELSE s[2 + 1])
                    ELSE head, CutOut(s, k, 2), NULL)
    <3>1. k + 2 - 1 <= Len(s) /\ 2 \in Nat \ {0}
      BY <1>1, <1>2
    <3> QED
      BY <1>2, <1>6, <2>10, <3>1, ChainCut
  <2> QED
    BY <1>9, <2>4, <2>9, <2>11
<1> QED
  BY <1>8, <1>9

-----------------------------------------------------------------------------
(* Sorted lists                                                             *)

\* The order of the bins and of allocated_heap, and of mmap_alloc_list.
Offset    == [a \in Nat |-> a]
SizeIn(h) == [a \in DOMAIN h |-> h[a].size]

SortedList(h, head, key, end) ==
    LET s == Walk(h, head) IN IsChain(h, head, s, end) /\ Ordered(s, key)

LEMMA SortedListIs ==
    ASSUME NEW h, IsHeaders(h), NEW head, NEW key, NEW end \in Ends, NEW s,
           IsChain(h, head, s, end), Ordered(s, key)
    PROVE  /\ SortedList(h, head, key, end)
           /\ Walk(h, head) = s
           /\ InList(h, head) = ToSet(s)
<1>1. Walk(h, head) = s
  BY WalkIs
<1> QED
  BY <1>1 DEF SortedList, InList

\* There is nothing behind NULL.
LEMMA EmptyList ==
    ASSUME NEW h, IsHeaders(h), NEW key, NEW end \in Ends
    PROVE  /\ SortedList(h, NULL, key, end)
           /\ IsChain(h, NULL, <<>>, end)
           /\ InList(h, NULL) = {}
<1>1. <<>> \in Seq(DOMAIN h) /\ Len(<<>>) = 0
  OBVIOUS
<1>2. IsChain(h, NULL, <<>>, end)
  BY <1>1 DEF IsChain
<1>3. Ordered(<<>>, key)
  BY <1>1 DEF Ordered
<1>4. ToSet(<<>>) = {}
  BY <1>1 DEF ToSet
<1> QED
  BY <1>2, <1>3, <1>4, SortedListIs

\* A list with a head has nodes, and the head is one of least key.
LEMMA HeadIsLeast ==
    ASSUME NEW h, IsHeaders(h), NEW head, NEW key, NEW end, NEW s,
           IsChain(h, head, s, end), Ordered(s, key),
           \A a \in DOMAIN h : key[a] \in Int
    PROVE  /\ s = <<>> <=> head = NULL
           /\ s = <<>> <=> ToSet(s) = {}
           /\ s # <<>> => /\ head = s[1] /\ head \in ToSet(s) /\ 1 \in 1 .. Len(s)
                          /\ \A a \in ToSet(s) : key[head] <= key[a]
           /\ ToSet(s) \subseteq DOMAIN h
<1>1. /\ Len(s) \in Nat /\ DOMAIN s = 1 .. Len(s)
      /\ \A j \in 1 .. Len(s) : s[j] \in DOMAIN h /\ s[j] \in Nat
      /\ ToSet(s) = {s[j] : j \in 1 .. Len(s)}
  BY ChainNodes DEF ToSet
<1>2. CASE s = <<>>
  BY <1>1, <1>2 DEF IsChain
<1>3. CASE s # <<>>
  <2>1. 1 \in 1 .. Len(s)
    <3>1. PICK D : D = DOMAIN h
      OBVIOUS
    <3>2. s \in Seq(D)
      BY <3>1 DEF IsChain
    <3> QED
      BY <1>3, <3>2
  <2>2. head = s[1] /\ head \in ToSet(s) /\ head # NULL
    BY <1>1, <1>3, <2>1 DEF IsChain, NULL
  <2>3. \A j \in 1 .. Len(s) : key[head] <= key[s[j]]
    <3> SUFFICES ASSUME NEW j \in 1 .. Len(s) PROVE key[s[1]] <= key[s[j]]
      BY <2>2
    <3>1. key[s[1]] \in Int /\ (j = 1 \/ 1 < j)
      BY <1>1, <2>1
    <3> QED
      BY <1>1, <2>1, <3>1 DEF Ordered
  <2> QED
    BY <1>1, <1>3, <2>1, <2>2, <2>3
<1> QED
  BY <1>2, <1>3

\* A list stays sorted when a node is put between those of smaller and those
\* of greater key, and when nodes are taken out.
LEMMA InsertedOrdered ==
    ASSUME NEW D, NEW s \in Seq(D), NEW key, \A a \in D : key[a] \in Int,
           Ordered(s, key), NEW k \in 0 .. Len(s), NEW node \in D,
           \A j \in 1 .. Len(s) : IF j <= k THEN key[s[j]] <= key[node]
                                  ELSE key[node] <= key[s[j]]
    PROVE  Ordered(Inserted(s, k, node), key)
<1>1. PICK s2 : s2 = Inserted(s, k, node)
  OBVIOUS
<1>2. /\ Len(s2) = Len(s) + 1 /\ Len(s) \in Nat
      /\ \A j \in 1 .. Len(s) + 1 :
            s2[j] = IF j <= k THEN s[j]
                    ELSE IF j = k + 1 THEN node ELSE s[j - 1]
  BY <1>1, InsertedIs
<1> SUFFICES ASSUME NEW i \in 1 .. Len(s) + 1, NEW j \in 1 .. Len(s) + 1, i < j
             PROVE  key[s2[i]] <= key[s2[j]]
  BY <1>1, <1>2 DEF Ordered
<1>3. CASE j <= k
  BY <1>2, <1>3 DEF Ordered
<1>4. CASE j = k + 1
  <2>1. i \in 1 .. Len(s) /\ i <= k /\ s2[i] = s[i] /\ s2[j] = node
    BY <1>2, <1>4
  <2> QED
    BY <2>1
<1>5. CASE j > k + 1
  <2>1. j - 1 \in 1 .. Len(s) /\ ~(j - 1 <= k) /\ s2[j] = s[j - 1]
    BY <1>2, <1>5
  <2>2. CASE i = k + 1
    <3>1. s2[i] = node
      BY <1>2, <2>2
    <3> QED
      BY <2>1, <3>1
  <2>3. CASE i <= k
    <3>1. i \in 1 .. Len(s) /\ s2[i] = s[i] /\ i < j - 1
      BY <1>2, <1>5, <2>3
    <3> QED
      BY <2>1, <3>1 DEF Ordered
  <2>4. CASE i > k + 1
    <3>1. i - 1 \in 1 .. Len(s) /\ s2[i] = s[i - 1] /\ i - 1 < j - 1
      BY <1>2, <2>4
    <3> QED
      BY <2>1, <3>1 DEF Ordered
  <2> QED
    BY <2>2, <2>3, <2>4
<1> QED
  BY <1>2, <1>3, <1>4, <1>5

LEMMA CutOutOrdered ==
    ASSUME NEW D, NEW s \in Seq(D), NEW key, Ordered(s, key),
           NEW k \in 1 .. Len(s), NEW d \in Nat, k + d - 1 <= Len(s)
    PROVE  Ordered(CutOut(s, k, d), key)
<1>1. PICK s2 : s2 = CutOut(s, k, d)
  OBVIOUS
<1>2. /\ Len(s2) = Len(s) - d /\ Len(s) \in Nat
      /\ \A j \in 1 .. Len(s) - d :
            s2[j] = IF j < k THEN s[j] ELSE s[j + d]
  <2>1. /\ Len(CutOut(s, k, d)) = Len(s) - d
        /\ \A j \in 1 .. Len(s) - d :
              CutOut(s, k, d)[j] = IF j < k THEN s[j] ELSE s[j + d]
    BY CutOutIs
  <2> QED
    BY <1>1, <2>1
<1> SUFFICES ASSUME NEW i \in 1 .. Len(s) - d, NEW j \in 1 .. Len(s) - d, i < j
             PROVE  key[s2[i]] <= key[s2[j]]
  BY <1>1, <1>2 DEF Ordered
<1>3. PICK m, n : /\ m = IF i < k THEN i ELSE i + d
                  /\ n = IF j < k THEN j ELSE j + d
  OBVIOUS
<1>4. s2[i] = s[m] /\ s2[j] = s[n]
  BY <1>2, <1>3
<1>5. m \in 1 .. Len(s) /\ n \in 1 .. Len(s) /\ m < n
  BY <1>2, <1>3
<1> QED
  BY <1>4, <1>5 DEF Ordered

\* What insertSorted() does to a sorted list.
Grown(r, h, s, s2, node, end, key) ==
    /\ ~r.wild
    /\ IsChain(r.hdr, r.head, s2, IF s = <<>> THEN NULL ELSE end)
    /\ Ordered(s2, key)
    /\ ToSet(s2) = ToSet(s) \cup {node}
    /\ Kept(h, r.hdr, ToSet(s) \cup {node})

LEMMA InsertOrdered ==
    ASSUME NEW h, IsHeaders(h), NEW head, NEW end \in Ends, NEW s,
           IsChain(h, head, s, end), NEW key, Ordered(s, key),
           \A a \in DOMAIN h : key[a] \in Int,
           NEW node \in DOMAIN h, node \notin ToSet(s),
           h[node].prev = NULL, h[node].next = NULL,
           NEW goesFirst, head # NULL => (goesFirst <=> key[node] < key[head]),
           NEW smaller, smaller = {a \in DOMAIN h : key[a] < key[node]}
    PROVE  LET r == Insert(head, node, h, goesFirst, smaller)
           IN  \/ end = WILD /\ r.wild
               \/ \E s2 : Grown(r, h, s, s2, node, end, key)
<1>1. PICK r : r = Insert(head, node, h, goesFirst, smaller)
  OBVIOUS
<1>2. PICK D : D = DOMAIN h
  OBVIOUS
<1>3. /\ s \in Seq(D) /\ Len(s) \in Nat
      /\ \A j \in 1 .. Len(s) : s[j] \in D
      /\ \A a \in D : key[a] \in Int
  BY <1>2, ChainNodes DEF IsChain
<1>4. /\ s = <<>> <=> head = NULL
      /\ s # <<>> => head = s[1] /\ 1 \in 1 .. Len(s)
  BY HeadIsLeast
<1>5. ASSUME NEW k \in 0 .. Len(s), InsertedAt(r, h, head, s, k, node, end),
             \A j \in 1 .. Len(s) : IF j <= k THEN key[s[j]] <= key[node]
                                    ELSE key[node] <= key[s[j]]
      PROVE  \E s2 : Grown(r, h, s, s2, node, end, key)
  <2>1. Ordered(Inserted(s, k, node), key)
    BY <1>2, <1>3, <1>5, InsertedOrdered
  <2>2. ToSet(Inserted(s, k, node)) = ToSet(s) \cup {node}
    <3>1. s \in Seq(D) /\ node \in D /\ k \in 0 .. Len(s)
      BY <1>2, <1>3
    <3> QED
      BY <3>1, InsertedIs
  <2>3. Grown(r, h, s, Inserted(s, k, node), node, end, key)
    BY <1>5, <2>1, <2>2 DEF Grown, InsertedAt
  <2> QED
    BY <2>3
<1>6. CASE s = <<>>
  <2>1. InsertedAt(r, h, head, s, 0, node, end)
    BY <1>1, <1>6, InsertOnly
  <2>2. 0 \in 0 .. Len(s) /\ \A j \in 1 .. Len(s) : FALSE
    BY <1>6
  <2>3. \E s2 : Grown(r, h, s, s2, node, end, key)
    BY <1>5, <2>1, <2>2
  <2> QED
    BY <1>1, <2>3
<1>7. CASE s # <<>> /\ goesFirst
  <2>1. InsertedAt(r, h, head, s, 0, node, end)
    BY <1>1, <1>7, InsertFirst
  <2>2. 0 \in 0 .. Len(s)
    BY <1>3
  <2>3. \A j \in 1 .. Len(s) : key[node] <= key[s[j]] /\ ~(j <= 0)
    <3> SUFFICES ASSUME NEW j \in 1 .. Len(s)
                 PROVE  key[node] <= key[s[j]] /\ ~(j <= 0)
      OBVIOUS
    <3>1. key[node] < key[s[1]]
      BY <1>4, <1>7
    <3>2. j = 1 \/ key[s[1]] <= key[s[j]]
      BY <1>3, <1>4, <1>7 DEF Ordered
    <3>3. key[node] \in Int /\ key[s[1]] \in Int /\ key[s[j]] \in Int
      BY <1>2, <1>3, <1>4, <1>7
    <3> QED
      BY <3>1, <3>2, <3>3
  <2>4. \E s2 : Grown(r, h, s, s2, node, end, key)
    BY <1>5, <2>1, <2>2, <2>3
  <2> QED
    BY <1>1, <2>4
<1>8. CASE s # <<>> /\ ~goesFirst
  <2>1. smaller \subseteq DOMAIN h
    OBVIOUS
  <2>2. PICK k : /\ StopsAt(s, k, smaller)
                 /\ \/ k = Len(s) /\ end = WILD /\ r.wild
                    \/ InsertedAt(r, h, head, s, k, node, end)
    BY <1>1, <1>8, <2>1, InsertBehind
  <2>3. k \in 1 .. Len(s) /\ k \in 0 .. Len(s)
    BY <1>3, <2>2 DEF StopsAt
  <2>4. \A j \in 1 .. Len(s) : IF j <= k THEN key[s[j]] <= key[node]
                               ELSE key[node] <= key[s[j]]
    <3> SUFFICES ASSUME NEW j \in 1 .. Len(s)
                 PROVE  IF j <= k THEN key[s[j]] <= key[node]
                        ELSE key[node] <= key[s[j]]
      OBVIOUS
    <3>1. key[node] \in Int /\ key[s[1]] \in Int /\ key[s[j]] \in Int
      BY <1>2, <1>3, <1>4, <1>8
    <3>2. CASE j = 1
      BY <1>4, <1>8, <2>3, <3>1, <3>2
    <3>3. CASE j # 1 /\ j <= k
      <4>1. j \in 2 .. k
        BY <1>3, <2>3, <3>3
      <4>2. s[j] \in smaller
        BY <2>2, <4>1 DEF StopsAt
      <4> QED
        BY <3>1, <3>3, <4>2
    <3>4. CASE j > k
      <4>1. k < Len(s) /\ k + 1 \in 1 .. Len(s)
        BY <1>3, <2>3, <3>4
      <4>2. s[k + 1] \notin smaller /\ s[k + 1] \in D
        BY <1>3, <2>2, <4>1 DEF StopsAt
      <4>3. ~(key[s[k + 1]] < key[node]) /\ key[s[k + 1]] \in Int
        BY <1>2, <1>3, <4>2
      <4>4. j = k + 1 \/ key[s[k + 1]] <= key[s[j]]
        BY <1>3, <2>3, <3>4, <4>1 DEF Ordered
      <4>5. ~(j <= k)
        BY <1>3, <2>3, <3>4
      <4> QED
        BY <3>1, <4>3, <4>4, <4>5
    <3> QED
      BY <1>3, <2>3, <3>2, <3>3, <3>4
  <2>5. CASE end = WILD /\ r.wild
    BY <1>1, <2>5
  <2>6. CASE InsertedAt(r, h, head, s, k, node, end)
    <3>1. \E s2 : Grown(r, h, s, s2, node, end, key)
      BY <1>5, <2>3, <2>4, <2>6
    <3> QED
      BY <1>1, <3>1
  <2> QED
    BY <2>2, <2>5, <2>6
<1> QED
  BY <1>6, <1>7, <1>8

\* insertSorted() and mmap_insertSorted() are two cases of it.
LEMMA InsertSortedIs ==
    ASSUME NEW h, IsHeaders(h), NEW head, NEW end \in Ends, NEW s,
           IsChain(h, head, s, end), Ordered(s, Offset),
           NEW node \in DOMAIN h, node \notin ToSet(s),
           h[node].prev = NULL, h[node].next = NULL
    PROVE  LET r == InsertSorted(head, node, h)
           IN  \/ end = WILD /\ r.wild
               \/ \E s2 : Grown(r, h, s, s2, node, end, Offset)
<1>1. DOMAIN h \subseteq Nat /\ \A a \in DOMAIN h : Offset[a] = a /\ Offset[a] \in Int
  BY DEF IsHeaders, Offset
<1>2. s = <<>> <=> head = NULL
  BY <1>1, HeadIsLeast
<1>3. s # <<>> => head \in DOMAIN h
  BY <1>1, HeadIsLeast
<1> DEFINE smaller == {a \in DOMAIN h : a < node}
           goesFirst == node < head
<1>4. InsertSorted(head, node, h) = Insert(head, node, h, goesFirst, smaller)
  BY DEF InsertSorted
<1>5. smaller = {a \in DOMAIN h : Offset[a] < Offset[node]}
  BY <1>1
<1>6. head # NULL => (goesFirst <=> Offset[node] < Offset[head])
  BY <1>1, <1>2, <1>3
<1> HIDE DEF smaller, goesFirst
<1> QED
  BY <1>1, <1>4, <1>5, <1>6, InsertOrdered

LEMMA MmapInsertSortedIs ==
    ASSUME NEW h, IsHeaders(h), NEW head, NEW end \in Ends, NEW s,
           IsChain(h, head, s, end), Ordered(s, SizeIn(h)),
           NEW node \in DOMAIN h, node \notin ToSet(s),
           h[node].prev = NULL, h[node].next = NULL
    PROVE  LET r == MmapInsertSorted(head, node, h)
           IN  \/ end = WILD /\ r.wild
               \/ \E s2 : Grown(r, h, s, s2, node, end, SizeIn(h))
<1>1. PICK key : /\ key = SizeIn(h)
                 /\ \A a \in DOMAIN h : key[a] = h[a].size /\ key[a] \in Int
  BY DEF IsHeaders, SizeIn
<1>2. s = <<>> <=> head = NULL
  BY <1>1, HeadIsLeast
<1>3. s # <<>> => head \in DOMAIN h
  BY <1>1, HeadIsLeast
<1> DEFINE smaller == {a \in DOMAIN h : h[a].size < h[node].size}
           goesFirst == h[node].size < h[head].size
<1>4. MmapInsertSorted(head, node, h) = Insert(head, node, h, goesFirst, smaller)
  BY DEF MmapInsertSorted
<1>5. smaller = {a \in DOMAIN h : key[a] < key[node]}
  BY <1>1
<1>6. head # NULL => (goesFirst <=> key[node] < key[head])
  BY <1>1, <1>2, <1>3
<1>7. Ordered(s, key)
  BY <1>1
<1> HIDE DEF smaller, goesFirst
<1>8. PICK r : r = Insert(head, node, h, goesFirst, smaller)
  OBVIOUS
<1>9. \/ end = WILD /\ r.wild
      \/ \E s2 : Grown(r, h, s, s2, node, end, key)
  BY <1>1, <1>5, <1>6, <1>7, <1>8, InsertOrdered
<1> QED
  BY <1>1, <1>4, <1>8, <1>9

-----------------------------------------------------------------------------
(* Bins                                                                     *)

\* A list lies where its nodes are.
LEMMA ListNodes ==
    ASSUME NEW h, IsHeaders(h), NEW head, NEW key, NEW end \in Ends,
           SortedList(h, head, key, end)
    PROVE  LET s == Walk(h, head)
           IN  /\ IsChain(h, head, s, end) /\ Ordered(s, key)
               /\ InList(h, head) = ToSet(s)
               /\ InList(h, head) \subseteq DOMAIN h
               /\ InList(h, head) = {s[j] : j \in 1 .. Len(s)}
               /\ Len(s) \in Nat
               /\ head = NULL <=> InList(h, head) = {}
               /\ head # NULL => head \in InList(h, head)
<1>1. PICK s : s = Walk(h, head)
  OBVIOUS
<1>2. /\ IsChain(h, head, s, end) /\ Ordered(s, key)
      /\ InList(h, head) = ToSet(s)
  BY <1>1 DEF SortedList, InList
<1>3. /\ Len(s) \in Nat
      /\ \A j \in 1 .. Len(s) : s[j] \in DOMAIN h /\ s[j] \in Nat
      /\ ToSet(s) = {s[j] : j \in 1 .. Len(s)}
  BY <1>2, ChainNodes DEF ToSet
<1>4. (head = NULL <=> ToSet(s) = {}) /\ (head # NULL => head \in ToSet(s))
  <2>1. CASE s = <<>>
    <3>1. head = NULL /\ Len(s) = 0
      BY <1>2, <2>1 DEF IsChain
    <3> QED
      BY <1>3, <3>1
  <2>2. CASE s # <<>>
    <3>1. 1 \in 1 .. Len(s)
      <4>1. PICK D : D = DOMAIN h
        OBVIOUS
      <4>2. s \in Seq(D)
        BY <1>2, <4>1 DEF IsChain
      <4> QED
        BY <2>2, <4>2
    <3>2. head = s[1]
      BY <1>2, <2>2 DEF IsChain
    <3>3. head \in ToSet(s) /\ head \in Nat
      BY <1>3, <3>1, <3>2
    <3> QED
      BY <3>3 DEF NULL
  <2> QED
    BY <2>1, <2>2
<1>5. InList(h, head) \subseteq DOMAIN h
  BY <1>2, <1>3
<1>6. InList(h, head) = {s[j] : j \in 1 .. Len(s)}
  BY <1>2, <1>3
<1> QED
  BY <1>1, <1>2, <1>3, <1>4, <1>5, <1>6

\* A list whose headers are kept stays as it is.
LEMMA ListKept ==
    ASSUME NEW h, IsHeaders(h), NEW head, NEW key, NEW end \in Ends,
           SortedList(h, head, key, end), NEW g, IsHeaders(g), NEW key2,
           \A a \in InList(h, head) : /\ a \in DOMAIN g /\ g[a] = h[a]
                                      /\ key2[a] = key[a]
    PROVE  /\ SortedList(g, head, key2, end)
           /\ InList(g, head) = InList(h, head)
           /\ Walk(g, head) = Walk(h, head)
<1>1. PICK s : s = Walk(h, head)
  OBVIOUS
<1>2. /\ IsChain(h, head, s, end) /\ Ordered(s, key)
      /\ InList(h, head) = ToSet(s)
      /\ ToSet(s) = {s[j] : j \in 1 .. Len(s)}
  BY <1>1, ListNodes
<1>3. IsChain(g, head, s, end)
  BY <1>2, ChainKept
<1>4. Ordered(s, key2)
  BY <1>2 DEF Ordered
<1> QED
  BY <1>1, <1>2, <1>3, <1>4, SortedListIs

FreeList(h, head) == SortedList(h, head, Offset, NULL)

\* The heads b of the bins, with headers h.
BinsLinked(b, h) ==
    /\ IsHeaders(h)
    /\ DOMAIN b = Bins
    /\ \A i \in Bins : FreeList(h, b[i])
    /\ \A i, j \in Bins : i # j => InList(h, b[i]) \cap InList(h, b[j]) = {}

\* From b and h to b2 and g, only the list of bin i changes: its nodes are A.
BinNow(b, h, b2, g, i, A) ==
    \A k \in Bins : InList(g, b2[k]) = IF k = i THEN A ELSE InList(h, b[k])

LEMMA NullIsEnd == NULL \in Ends
BY DEF Ends

LEMMA EndsDiffer == NULL # WILD
BY DEF NULL, WILD

LEMMA OneBin ==
    ASSUME NEW b, NEW h, BinsLinked(b, h), NEW i \in Bins,
           NEW g, IsHeaders(g), NEW first, FreeList(g, first),
           NEW A, InList(g, first) = A,
           \A k \in Bins \ {i} : A \cap InList(h, b[k]) = {},
           \A k \in Bins \ {i} : \A a \in InList(h, b[k]) :
              a \in DOMAIN g /\ g[a] = h[a],
           NEW b2, b2 = [b EXCEPT ![i] = first]
    PROVE  BinsLinked(b2, g) /\ BinNow(b, h, b2, g, i, A)
<1>1. DOMAIN b2 = Bins /\ b2[i] = first /\ \A k \in Bins \ {i} : b2[k] = b[k]
  BY DEF BinsLinked
<1>2. \A k \in Bins \ {i} :
         FreeList(g, b2[k]) /\ InList(g, b2[k]) = InList(h, b[k])
  <2> SUFFICES ASSUME NEW k \in Bins \ {i}
               PROVE  FreeList(g, b[k]) /\ InList(g, b[k]) = InList(h, b[k])
    BY <1>1
  <2>1. SortedList(h, b[k], Offset, NULL) /\ IsHeaders(h)
    BY DEF BinsLinked, FreeList
  <2>2. \A a \in InList(h, b[k]) :
           a \in DOMAIN g /\ g[a] = h[a] /\ Offset[a] = Offset[a]
    OBVIOUS
  <2>3. SortedList(g, b[k], Offset, NULL) /\ InList(g, b[k]) = InList(h, b[k])
    BY <2>1, <2>2, NullIsEnd, ListKept
  <2> QED
    BY <2>3 DEF FreeList
<1>3. BinNow(b, h, b2, g, i, A)
  BY <1>1, <1>2 DEF BinNow
<1>4. \A k \in Bins : FreeList(g, b2[k])
  BY <1>1, <1>2
<1>5. \A k, l \in Bins : k # l => InList(g, b2[k]) \cap InList(g, b2[l]) = {}
  <2> SUFFICES ASSUME NEW k \in Bins, NEW l \in Bins, k # l
               PROVE  InList(g, b2[k]) \cap InList(g, b2[l]) = {}
    OBVIOUS
  <2>1. InList(h, b[k]) \cap InList(h, b[l]) = {}
    BY DEF BinsLinked
  <2> QED
    BY <1>3, <2>1 DEF BinNow
<1> QED
  BY <1>1, <1>3, <1>4, <1>5 DEF BinsLinked

\* What InBin() makes of the bins b and the headers h.
Added(b, h, m, i, a, size) ==
    /\ BinsLinked(m.bin, m.hdr)
    /\ BinNow(b, h, m.bin, m.hdr, i, InList(h, b[i]) \cup {a})
    /\ DOMAIN m.hdr = DOMAIN h \cup {a}
    /\ m.hdr[a].size = size
    /\ \A c \in DOMAIN h \ {a} :
          /\ m.hdr[c].size = h[c].size
          /\ c \notin InList(h, b[i]) => m.hdr[c] = h[c]

LEMMA InBinIs ==
    ASSUME NEW m, BinsLinked(m.bin, m.hdr), NEW i \in Bins, NEW a \in Nat,
           NEW size \in Int, \A k \in Bins : a \notin InList(m.hdr, m.bin[k])
    PROVE  Added(m.bin, m.hdr, InBin(m, i, a, size), i, a, size)
<1>1. PICK b, h : b = m.bin /\ h = m.hdr
  OBVIOUS
<1>2. BinsLinked(b, h) /\ IsHeaders(h)
      /\ \A k \in Bins : a \notin InList(h, b[k])
  BY <1>1 DEF BinsLinked
<1> DEFINE n == NewNode(h, a, size)
<1>3. /\ IsHeaders(n) /\ DOMAIN n = DOMAIN h \cup {a}
      /\ \A c \in DOMAIN h : c # a => n[c] = h[c]
      /\ n[a].size = size /\ n[a].prev = NULL /\ n[a].next = NULL
  <2>1. IsHeaders(n) /\ DOMAIN n = DOMAIN h \cup {a}
    BY <1>2, NewNodeIs
  <2>2. \A c \in DOMAIN h : c # a => n[c] = h[c]
    BY <1>2, NewNodeIs
  <2>3. n[a].size = size /\ n[a].prev = NULL /\ n[a].next = NULL
    BY DEF NewNode
  <2> QED
    BY <2>1, <2>2, <2>3
<1> HIDE DEF n
<1>4. \A k \in Bins : SortedList(h, b[k], Offset, NULL)
                      /\ InList(h, b[k]) \subseteq DOMAIN h
  BY <1>2, NullIsEnd, ListNodes DEF BinsLinked, FreeList
<1>5. PICK s : s = Walk(h, b[i])
  OBVIOUS
<1>6. /\ SortedList(n, b[i], Offset, NULL)
      /\ InList(n, b[i]) = InList(h, b[i]) /\ Walk(n, b[i]) = s
  <2>1. \A c \in InList(h, b[i]) : /\ c \in DOMAIN n /\ n[c] = h[c]
                                   /\ Offset[c] = Offset[c]
    BY <1>2, <1>3, <1>4
  <2> QED
    BY <1>2, <1>3, <1>4, <1>5, <2>1, NullIsEnd, ListKept
<1>7. /\ IsChain(n, b[i], s, NULL) /\ Ordered(s, Offset)
      /\ ToSet(s) = InList(h, b[i])
  BY <1>3, <1>6, NullIsEnd, ListNodes
<1>8. PICK r : r = InsertSorted(b[i], a, n)
  OBVIOUS
<1>9. a \in DOMAIN n /\ a \notin ToSet(s)
  BY <1>2, <1>3, <1>7
<1>10. NULL \in Ends /\ NULL # WILD
  BY DEF Ends, NULL, WILD
<1>11. PICK s2 : Grown(r, n, s, s2, a, NULL, Offset)
  BY <1>3, <1>7, <1>8, <1>9, <1>10, InsertSortedIs
<1> DEFINE A == InList(h, b[i]) \cup {a}
<1>12. /\ IsChain(r.hdr, r.head, s2, NULL) /\ Ordered(s2, Offset)
       /\ ToSet(s2) = A /\ Kept(n, r.hdr, A)
  BY <1>7, <1>11 DEF Grown
<1>13. IsHeaders(r.hdr) /\ DOMAIN r.hdr = DOMAIN h \cup {a}
  BY <1>3, <1>12 DEF Kept
<1>14. FreeList(r.hdr, r.head) /\ InList(r.hdr, r.head) = A
  BY <1>10, <1>12, <1>13, SortedListIs DEF FreeList
<1>15. \A c \in DOMAIN h \ {a} :
          /\ r.hdr[c].size = h[c].size
          /\ c \notin InList(h, b[i]) => r.hdr[c] = h[c]
  BY <1>3, <1>12 DEF Kept
<1>16. r.hdr[a].size = size
  BY <1>3, <1>9, <1>12 DEF Kept
<1>17. \A k \in Bins \ {i} :
          /\ A \cap InList(h, b[k]) = {}
          /\ \A c \in InList(h, b[k]) : c \in DOMAIN r.hdr /\ r.hdr[c] = h[c]
  <2> SUFFICES ASSUME NEW k \in Bins \ {i}
               PROVE  /\ A \cap InList(h, b[k]) = {}
                      /\ \A c \in InList(h, b[k]) :
                            c \in DOMAIN r.hdr /\ r.hdr[c] = h[c]
    OBVIOUS
  <2>1. InList(h, b[i]) \cap InList(h, b[k]) = {}
    BY <1>2 DEF BinsLinked
  <2> QED
    BY <1>2, <1>4, <1>13, <1>15, <2>1
<1> DEFINE b2 == [b EXCEPT ![i] = r.head]
<1> HIDE DEF A
<1>18. BinsLinked(b2, r.hdr) /\ BinNow(b, h, b2, r.hdr, i, A)
  BY <1>2, <1>13, <1>14, <1>17, OneBin
<1>19. InBin(m, i, a, size) = [bin |-> b2, hdr |-> r.hdr]
  BY <1>1, <1>8 DEF InBin, n
<1> HIDE DEF b2
<1>20. PICK m2 : m2 = InBin(m, i, a, size)
  OBVIOUS
<1>21. m2.bin = b2 /\ m2.hdr = r.hdr
  BY <1>19, <1>20
<1>22. Added(b, h, m2, i, a, size)
  BY <1>13, <1>15, <1>16, <1>18, <1>21 DEF Added, A
<1> QED
  BY <1>1, <1>20, <1>22

-----------------------------------------------------------------------------
(* The heap part of HwMallocLists implements HwMalloc                       *)

NodesOf(h, head)  == {[addr |-> n, size |-> h[n].size] : n \in InList(h, head)}
BinChunks(b, h)   == [i \in Bins |-> NodesOf(h, b[i])]
HeldChunks(gs, h) == {[addr |-> g.ptr - HDR, size |-> h[g.ptr - HDR].size] :
                         g \in gs}

H == INSTANCE HwMallocProofs WITH
    bin             <- BinChunks(bin, hdr),
    allocated_heap  <- HeldChunks(held, hdr),
    mmap_alloc_list <- {},
    mapped          <- {},
    held_mmap       <- {},
    fault           <- "none"

\* The sizes of the bins are those of HwMalloc.
LEMMA BinSizes ==
    /\ NBins \in Nat \ {0} /\ Bins = 0 .. NBins - 1 /\ HDR \in Nat
    /\ \A i \in Bins : Bytes[i] \in Nat /\ Bytes[i] > 0
    /\ \A i, j \in Bins : i < j => 2 * Bytes[i] <= Bytes[j]
    /\ \A i, j \in Bins : Bytes[i] = Bytes[j] => i = j
<1>1. NBins \in Nat \ {0} /\ Bins = 0 .. NBins - 1 /\ HDR \in Nat
      /\ H!Bins = Bins
  BY SizesAssumption DEF Sets!SizesAssumption, Bins, Sets!Bins, H!Bins
<1>2. H!SizesAssumption
  BY SizesAssumption DEF Sets!SizesAssumption, H!SizesAssumption, Sets!Bins,
                         H!Bins
<1>3. H!RequestAssumption
  BY RequestAssumption DEF Sets!RequestAssumption, H!RequestAssumption,
                           Sets!HEAP_INITIAL, H!HEAP_INITIAL
<1>4. \A i \in H!Bins : Bytes[i] \in Nat /\ Bytes[i] > 0
  BY <1>2, <1>3, H!BytesGrow
<1>5. \A i, j \in H!Bins : i < j => 2 * Bytes[i] <= Bytes[j]
  BY <1>2, <1>3, H!BytesGrow
<1>6. \A i, j \in H!Bins : Bytes[i] = Bytes[j] => i = j
  BY <1>2, <1>3, H!BytesGrow
<1> QED
  BY <1>1, <1>4, <1>5, <1>6

-----------------------------------------------------------------------------
(* Cutting a chunk                                                          *)

\* The states a loop of Split() goes through.
IsCut(f, m, root, s, n) ==
    f = [j \in 0 .. n |-> IF j = 0 THEN m
                          ELSE LET k == s + 1 - j
                               IN  InBin(f[j - 1], k, root + Bytes[k], Bytes[k])]

LEMMA CutExists ==
    ASSUME NEW m, NEW root, NEW s, NEW n \in Nat
    PROVE  \E f : IsCut(f, m, root, s, n)
<1> DEFINE T == {l \in Nat : \E f : IsCut(f, m, root, s, l)}
           Next1(g, j) == LET k == s + 1 - j
                          IN  InBin(g, k, root + Bytes[k], Bytes[k])
<1>1. 0 \in T
  <2> DEFINE f == [j \in 0 .. 0 |-> m]
  <2>1. IsCut(f, m, root, s, 0)
    <3>1. f = [j \in 0 .. 0 |-> IF j = 0 THEN m ELSE Next1(f[j - 1], j)]
      <4> HIDE DEF Next1
      <4> QED
        OBVIOUS
    <3> HIDE DEF f
    <3> QED
      BY <3>1 DEF IsCut
  <2> QED
    BY <2>1
<1>2. ASSUME NEW l \in Nat, l \in T PROVE l + 1 \in T
  <2>1. PICK f : IsCut(f, m, root, s, l)
    BY <1>2
  <2>2. f = [j \in 0 .. l |-> IF j = 0 THEN m ELSE Next1(f[j - 1], j)]
    BY <2>1 DEF IsCut
  <2> DEFINE g == [j \in 0 .. l + 1 |->
                      IF j <= l THEN f[j] ELSE Next1(f[l], l + 1)]
  <2> HIDE DEF Next1
  <2>3. g = [j \in 0 .. l + 1 |-> IF j = 0 THEN m ELSE Next1(g[j - 1], j)]
    <3> SUFFICES ASSUME NEW j \in 0 .. l + 1
                 PROVE  g[j] = IF j = 0 THEN m ELSE Next1(g[j - 1], j)
      OBVIOUS
    <3>1. CASE j = 0
      BY <2>2, <3>1
    <3>2. CASE j # 0 /\ j <= l
      <4>1. g[j] = f[j] /\ g[j - 1] = f[j - 1] /\ j \in 0 .. l
        BY <3>2
      <4>2. f[j] = Next1(f[j - 1], j)
        BY <2>2, <3>2, <4>1
      <4> QED
        BY <3>2, <4>1, <4>2
    <3>3. CASE j = l + 1
      <4>1. g[j - 1] = f[l] /\ g[j] = Next1(f[l], l + 1) /\ j # 0
        BY <3>3
      <4> QED
        BY <3>3, <4>1
    <3> QED
      BY <3>1, <3>2, <3>3
  <2> HIDE DEF g
  <2>4. IsCut(g, m, root, s, l + 1)
    BY <2>3 DEF IsCut, Next1
  <2> QED
    BY <2>4
<1> HIDE DEF T
<1>3. n \in T
  BY <1>1, <1>2, NaturalInduction
<1> QED
  BY <1>3 DEF T

LEMMA SplitAt ==
    ASSUME NEW m, NEW root, NEW s \in Int, NEW i \in Int, s - i + 1 \in Nat
    PROVE  \E f : /\ Split(m, root, s, i) = f[s - i + 1]
                  /\ f[0] = m
                  /\ \A j \in 1 .. s - i + 1 :
                        f[j] = InBin(f[j - 1], s + 1 - j,
                                     root + Bytes[s + 1 - j], Bytes[s + 1 - j])
<1> DEFINE n == s - i + 1
           f == CHOOSE g : IsCut(g, m, root, s, n)
<1>1. IsCut(f, m, root, s, n)
  BY CutExists
<1>2. Split(m, root, s, i) = f[n]
  BY DEF Split, IsCut
<1> HIDE DEF f
<1>3. f[0] = m
  BY <1>1 DEF IsCut
<1>4. \A j \in 1 .. n : f[j] = InBin(f[j - 1], s + 1 - j,
                                     root + Bytes[s + 1 - j], Bytes[s + 1 - j])
  <2> SUFFICES ASSUME NEW j \in 1 .. n
               PROVE  f[j] = InBin(f[j - 1], s + 1 - j,
                                   root + Bytes[s + 1 - j], Bytes[s + 1 - j])
    OBVIOUS
  <2>1. j \in 0 .. n /\ j # 0
    OBVIOUS
  <2> HIDE DEF n
  <2> QED
    BY <1>1, <2>1 DEF IsCut
<1> QED
  BY <1>2, <1>3, <1>4

Parts(root, i, s) == {root + Bytes[k] : k \in i .. s}

\* From the bins b and the headers h, bins i to s have got a part each of what
\* begins at root.
WasCut(b, h, m, root, i, s) ==
    /\ BinsLinked(m.bin, m.hdr)
    /\ \A k \in Bins : InList(m.hdr, m.bin[k]) =
                          IF k \in i .. s THEN InList(h, b[k]) \cup {root + Bytes[k]}
                          ELSE InList(h, b[k])
    /\ DOMAIN m.hdr = DOMAIN h \cup Parts(root, i, s)
    /\ \A k \in i .. s : m.hdr[root + Bytes[k]].size = Bytes[k]
    /\ \A c \in DOMAIN h \ Parts(root, i, s) :
          /\ m.hdr[c].size = h[c].size
          /\ (\A k \in Bins : c \notin InList(h, b[k])) => m.hdr[c] = h[c]

\* The loop goes on to the next smaller bin.
LEMMA CutOnce ==
    ASSUME NEW b, NEW h, NEW root \in Nat, NEW j \in Bins, NEW s \in Bins,
           j <= s, BinsLinked(b, h),
           \A k \in Bins : root + Bytes[j] \notin InList(h, b[k]),
           NEW m, WasCut(b, h, m, root, j + 1, s)
    PROVE  WasCut(b, h, InBin(m, j, root + Bytes[j], Bytes[j]), root, j, s)
<1> DEFINE a == root + Bytes[j]
<1>1. PICK m2 : m2 = InBin(m, j, a, Bytes[j])
  OBVIOUS
<1>2. /\ j .. s = (j + 1 .. s) \cup {j} /\ j \notin j + 1 .. s
      /\ j .. s \subseteq Bins
  BY BinSizes
<1>3. /\ a \in Nat /\ Bytes[j] \in Int
      /\ \A k \in j + 1 .. s : root + Bytes[k] # a
  BY <1>2, BinSizes
<1>4. Parts(root, j, s) = Parts(root, j + 1, s) \cup {a}
      /\ a \notin Parts(root, j + 1, s)
  BY <1>2, <1>3 DEF Parts
<1>5. BinsLinked(m.bin, m.hdr)
  BY DEF WasCut
<1>6. \A k \in Bins : a \notin InList(m.hdr, m.bin[k])
  BY <1>3 DEF WasCut
<1> HIDE DEF a
<1>7. Added(m.bin, m.hdr, m2, j, a, Bytes[j])
  BY <1>1, <1>3, <1>5, <1>6, InBinIs
<1>8. \A k \in Bins : InList(m2.hdr, m2.bin[k]) =
                         IF k \in j .. s THEN InList(h, b[k]) \cup {root + Bytes[k]}
                         ELSE InList(h, b[k])
  <2> SUFFICES ASSUME NEW k \in Bins
               PROVE  InList(m2.hdr, m2.bin[k]) =
                         IF k \in j .. s THEN InList(h, b[k]) \cup {root + Bytes[k]}
                         ELSE InList(h, b[k])
    OBVIOUS
  <2>1. InList(m.hdr, m.bin[k]) =
           IF k \in j + 1 .. s THEN InList(h, b[k]) \cup {root + Bytes[k]}
           ELSE InList(h, b[k])
    BY DEF WasCut
  <2>2. InList(m2.hdr, m2.bin[k]) = IF k = j THEN InList(m.hdr, m.bin[j]) \cup {a}
                                    ELSE InList(m.hdr, m.bin[k])
    BY <1>7 DEF Added, BinNow
  <2> QED
    BY <1>2, <2>1, <2>2 DEF a
<1>9. DOMAIN m2.hdr = DOMAIN h \cup Parts(root, j, s)
  BY <1>4, <1>7 DEF Added, WasCut
<1>10. \A k \in j .. s : m2.hdr[root + Bytes[k]].size = Bytes[k]
  <2> SUFFICES ASSUME NEW k \in j .. s
               PROVE  m2.hdr[root + Bytes[k]].size = Bytes[k]
    OBVIOUS
  <2>1. CASE k = j
    BY <1>7, <2>1 DEF Added, a
  <2>2. CASE k \in j + 1 .. s
    <3>1. root + Bytes[k] \in DOMAIN m.hdr \ {a}
      BY <1>3, <2>2 DEF WasCut, Parts
    <3>2. m.hdr[root + Bytes[k]].size = Bytes[k]
      BY <2>2 DEF WasCut
    <3> QED
      BY <1>7, <3>1, <3>2 DEF Added
  <2> QED
    BY <1>2, <2>1, <2>2
<1>11. \A c \in DOMAIN h \ Parts(root, j, s) :
          /\ m2.hdr[c].size = h[c].size
          /\ (\A k \in Bins : c \notin InList(h, b[k])) => m2.hdr[c] = h[c]
  <2> SUFFICES ASSUME NEW c \in DOMAIN h \ Parts(root, j, s)
               PROVE  /\ m2.hdr[c].size = h[c].size
                      /\ (\A k \in Bins : c \notin InList(h, b[k]))
                            => m2.hdr[c] = h[c]
    OBVIOUS
  <2>1. c \in DOMAIN h \ Parts(root, j + 1, s) /\ c # a /\ c \in DOMAIN m.hdr
    BY <1>4 DEF WasCut
  <2>2. /\ m.hdr[c].size = h[c].size
        /\ (\A k \in Bins : c \notin InList(h, b[k])) => m.hdr[c] = h[c]
    BY <2>1 DEF WasCut
  <2>3. /\ m2.hdr[c].size = m.hdr[c].size
        /\ c \notin InList(m.hdr, m.bin[j]) => m2.hdr[c] = m.hdr[c]
    BY <1>7, <2>1 DEF Added
  <2>4. InList(m.hdr, m.bin[j]) = InList(h, b[j])
    BY <1>2 DEF WasCut
  <2> QED
    BY <2>2, <2>3, <2>4
<1>12. BinsLinked(m2.bin, m2.hdr)
  BY <1>7 DEF Added
<1>13. WasCut(b, h, m2, root, j, s)
  BY <1>8, <1>9, <1>10, <1>11, <1>12 DEF WasCut
<1> QED
  BY <1>1, <1>13 DEF a

LEMMA SplitIs ==
    ASSUME NEW m, BinsLinked(m.bin, m.hdr), NEW root \in Nat,
           NEW i \in Bins, NEW s \in Bins, i <= s,
           \A j \in i .. s : \A k \in Bins :
              root + Bytes[j] \notin InList(m.hdr, m.bin[k])
    PROVE  WasCut(m.bin, m.hdr, Split(m, root, s, i), root, i, s)
<1> DEFINE n == s - i + 1
<1>1. n \in Nat /\ s \in Int /\ i \in Int /\ i .. s \subseteq Bins
  BY BinSizes
<1>2. PICK f : /\ Split(m, root, s, i) = f[n]
               /\ f[0] = m
               /\ \A j \in 1 .. n :
                     f[j] = InBin(f[j - 1], s + 1 - j,
                                  root + Bytes[s + 1 - j], Bytes[s + 1 - j])
  BY <1>1, SplitAt
<1> HIDE DEF n
<1> DEFINE T == {j \in Nat : j <= n =>
                    WasCut(m.bin, m.hdr, f[j], root, s + 1 - j, s)}
<1>3. 0 \in T
  <2>1. s + 1 .. s = {} /\ Parts(root, s + 1, s) = {}
    BY <1>1 DEF Parts
  <2>2. WasCut(m.bin, m.hdr, m, root, s + 1, s)
    BY <2>1 DEF WasCut
  <2>3. s + 1 - 0 = s + 1
    BY <1>1
  <2> QED
    BY <1>2, <2>2, <2>3
<1>4. ASSUME NEW j \in Nat, j \in T PROVE j + 1 \in T
  <2> SUFFICES ASSUME j + 1 <= n
               PROVE  WasCut(m.bin, m.hdr, f[j + 1], root, s + 1 - (j + 1), s)
    OBVIOUS
  <2> DEFINE k == s - j
  <2>1. /\ k \in i .. s /\ k <= s /\ s + 1 - j = k + 1 /\ s + 1 - (j + 1) = k
        /\ j + 1 \in 1 .. n /\ (j + 1) - 1 = j /\ j <= n
    BY <1>1 DEF n
  <2>2. WasCut(m.bin, m.hdr, f[j], root, k + 1, s)
    BY <1>4, <2>1
  <2>3. f[j + 1] = InBin(f[j], k, root + Bytes[k], Bytes[k])
    BY <1>2, <2>1
  <2> HIDE DEF k
  <2>4. k \in Bins /\ \A l \in Bins : root + Bytes[k] \notin InList(m.hdr, m.bin[l])
    BY <1>1, <2>1
  <2>5. WasCut(m.bin, m.hdr, f[j + 1], root, k, s)
    BY <2>1, <2>2, <2>3, <2>4, CutOnce
  <2> QED
    BY <2>1, <2>5
<1> HIDE DEF T
<1>5. n \in T
  BY <1>1, <1>3, <1>4, NaturalInduction
<1>6. WasCut(m.bin, m.hdr, f[n], root, s + 1 - n, s)
  BY <1>1, <1>5 DEF T
<1>7. s + 1 - n = i
  BY <1>1 DEF n
<1> QED
  BY <1>2, <1>6, <1>7

-----------------------------------------------------------------------------
(* From a bin into use                                                      *)

\* The nodes left when one or two are taken out.
LEMMA CutOutSet ==
    ASSUME NEW h, IsHeaders(h), NEW head, NEW end, NEW s,
           IsChain(h, head, s, end), NEW k \in 1 .. Len(s)
    PROVE  /\ ToSet(CutOut(s, k, 1)) = ToSet(s) \ {s[k]}
           /\ k < Len(s) => ToSet(CutOut(s, k, 2)) = ToSet(s) \ {s[k], s[k + 1]}
<1>1. PICK D : D = DOMAIN h
  OBVIOUS
<1>2. /\ s \in Seq(D) /\ Len(s) \in Nat /\ ToSet(s) = {s[j] : j \in 1 .. Len(s)}
      /\ \A j, l \in 1 .. Len(s) : s[j] = s[l] => j = l
  BY <1>1, ChainNodes DEF IsChain, ToSet
<1>3. ToSet(CutOut(s, k, 1)) = ToSet(s) \ {s[k]}
  <2>1. ToSet(CutOut(s, k, 1)) =
           {s[j] : j \in {l \in 1 .. Len(s) : l < k \/ l >= k + 1}}
    <3>1. k + 1 - 1 <= Len(s) /\ 1 \in Nat
      BY <1>2
    <3> QED
      BY <1>2, <3>1, CutOutIs
  <2>2. {l \in 1 .. Len(s) : l < k \/ l >= k + 1} = 1 .. Len(s) \ {k}
    BY <1>2
  <2> QED
    BY <1>2, <2>1, <2>2
<1>4. ASSUME k < Len(s)
      PROVE  ToSet(CutOut(s, k, 2)) = ToSet(s) \ {s[k], s[k + 1]}
  <2>1. ToSet(CutOut(s, k, 2)) =
           {s[j] : j \in {l \in 1 .. Len(s) : l < k \/ l >= k + 2}}
    <3>1. k + 2 - 1 <= Len(s) /\ 2 \in Nat
      BY <1>2, <1>4
    <3> QED
      BY <1>2, <3>1, CutOutIs
  <2>2. {l \in 1 .. Len(s) : l < k \/ l >= k + 2} = 1 .. Len(s) \ {k, k + 1}
    BY <1>2
  <2>3. k + 1 \in 1 .. Len(s)
    BY <1>2, <1>4
  <2> QED
    BY <1>2, <2>1, <2>2, <2>3
<1> QED
  BY <1>3, <1>4

\* Bins whose headers are kept stay as they are.
LEMMA BinsKept ==
    ASSUME NEW b, NEW h, BinsLinked(b, h), NEW g, IsHeaders(g),
           \A k \in Bins : \A c \in InList(h, b[k]) : c \in DOMAIN g /\ g[c] = h[c]
    PROVE  /\ BinsLinked(b, g)
           /\ \A k \in Bins : InList(g, b[k]) = InList(h, b[k])
<1>1. \A k \in Bins : FreeList(g, b[k]) /\ InList(g, b[k]) = InList(h, b[k])
  <2> SUFFICES ASSUME NEW k \in Bins
               PROVE  FreeList(g, b[k]) /\ InList(g, b[k]) = InList(h, b[k])
    OBVIOUS
  <2>1. SortedList(h, b[k], Offset, NULL) /\ IsHeaders(h)
    BY DEF BinsLinked, FreeList
  <2>2. \A a \in InList(h, b[k]) :
           a \in DOMAIN g /\ g[a] = h[a] /\ Offset[a] = Offset[a]
    OBVIOUS
  <2>3. SortedList(g, b[k], Offset, NULL) /\ InList(g, b[k]) = InList(h, b[k])
    BY <2>1, <2>2, NullIsEnd, ListKept
  <2> QED
    BY <2>3 DEF FreeList
<1> QED
  BY <1>1 DEF BinsLinked

\* Bin i has lost nodes of its list s.
LEMMA BinWithout ==
    ASSUME NEW b, NEW h, BinsLinked(b, h), NEW i \in Bins,
           NEW s, s = Walk(h, b[i]), NEW k \in 1 .. Len(s), NEW d \in {1, 2},
           k + d - 1 <= Len(s), NEW g, NEW first,
           IsChain(g, first, CutOut(s, k, d), NULL), Kept(h, g, ToSet(s)),
           NEW A, A = IF d = 1 THEN {s[k]} ELSE {s[k], s[k + 1]},
           NEW b2, b2 = [b EXCEPT ![i] = first]
    PROVE  BinsLinked(b2, g) /\ BinNow(b, h, b2, g, i, InList(h, b[i]) \ A)
<1>1. IsHeaders(h) /\ IsHeaders(g) /\ SortedList(h, b[i], Offset, NULL)
  BY DEF BinsLinked, FreeList, Kept
<1>2. /\ IsChain(h, b[i], s, NULL) /\ Ordered(s, Offset)
      /\ InList(h, b[i]) = ToSet(s) /\ Len(s) \in Nat
  BY <1>1, NullIsEnd, ListNodes
<1>3. PICK D : D = DOMAIN h
  OBVIOUS
<1>4. s \in Seq(D)
  BY <1>2, <1>3 DEF IsChain
<1>5. Ordered(CutOut(s, k, d), Offset)
  BY <1>2, <1>4, CutOutOrdered
<1>6. ToSet(CutOut(s, k, d)) = InList(h, b[i]) \ A
  <2>1. CASE d = 1
    BY <1>1, <1>2, <2>1, CutOutSet
  <2>2. CASE d = 2
    <3>1. k < Len(s)
      BY <1>2, <2>2
    <3> QED
      BY <1>1, <1>2, <2>2, <3>1, CutOutSet
  <2> QED
    BY <2>1, <2>2
<1>7. FreeList(g, first) /\ InList(g, first) = InList(h, b[i]) \ A
  BY <1>1, <1>5, <1>6, NullIsEnd, SortedListIs DEF FreeList
<1>8. \A j \in Bins \ {i} :
         /\ (InList(h, b[i]) \ A) \cap InList(h, b[j]) = {}
         /\ \A c \in InList(h, b[j]) : c \in DOMAIN g /\ g[c] = h[c]
  <2> SUFFICES ASSUME NEW j \in Bins \ {i}
               PROVE  /\ (InList(h, b[i]) \ A) \cap InList(h, b[j]) = {}
                      /\ \A c \in InList(h, b[j]) : c \in DOMAIN g /\ g[c] = h[c]
    OBVIOUS
  <2>1. InList(h, b[i]) \cap InList(h, b[j]) = {}
    BY DEF BinsLinked
  <2>2. InList(h, b[j]) \subseteq DOMAIN h
    BY <1>1, NullIsEnd, ListNodes DEF BinsLinked, FreeList
  <2> QED
    BY <1>2, <2>1, <2>2 DEF Kept
<1> QED
  BY <1>1, <1>7, <1>8, OneBin

\* The header at a, which is in no list, goes into the list of heap chunks in
\* use, whose nodes are u.
InUse(b, h, r, a, u, end) ==
    /\ ~r.wild
    /\ \E u2 : /\ IsChain(r.hdr, r.head, u2, IF u = <<>> THEN NULL ELSE end)
               /\ Ordered(u2, Offset)
               /\ ToSet(u2) = ToSet(u) \cup {a}
    /\ BinsLinked(b, r.hdr)
    /\ \A k \in Bins : InList(r.hdr, b[k]) = InList(h, b[k])
    /\ DOMAIN r.hdr = DOMAIN h
    /\ \A c \in DOMAIN h : /\ r.hdr[c].size = h[c].size
                           /\ c \notin ToSet(u) \cup {a} => r.hdr[c] = h[c]

LEMMA IntoUse ==
    ASSUME NEW b, NEW h, BinsLinked(b, h), NEW a \in DOMAIN h,
           h[a].prev = NULL, h[a].next = NULL,
           \A k \in Bins : a \notin InList(h, b[k]),
           NEW head, NEW end \in Ends, NEW u, IsChain(h, head, u, end),
           Ordered(u, Offset), a \notin ToSet(u),
           \A k \in Bins : ToSet(u) \cap InList(h, b[k]) = {}
    PROVE  LET r == InsertSorted(head, a, h)
           IN  (end = WILD /\ r.wild) \/ InUse(b, h, r, a, u, end)
<1>1. PICK r : r = InsertSorted(head, a, h)
  OBVIOUS
<1>2. IsHeaders(h)
  BY DEF BinsLinked
<1>3. (end = WILD /\ r.wild) \/ \E s2 : Grown(r, h, u, s2, a, end, Offset)
  BY <1>1, <1>2, InsertSortedIs
<1>4. ASSUME NEW u2, Grown(r, h, u, u2, a, end, Offset)
      PROVE  InUse(b, h, r, a, u, end)
  <2>1. IsHeaders(r.hdr) /\ DOMAIN r.hdr = DOMAIN h
        /\ \A c \in DOMAIN h : /\ r.hdr[c].size = h[c].size
                               /\ c \notin ToSet(u) \cup {a} => r.hdr[c] = h[c]
    BY <1>4 DEF Grown, Kept
  <2>2. \A k \in Bins : \A c \in InList(h, b[k]) :
           c \in DOMAIN r.hdr /\ r.hdr[c] = h[c]
    <3> SUFFICES ASSUME NEW k \in Bins, NEW c \in InList(h, b[k])
                 PROVE  c \in DOMAIN r.hdr /\ r.hdr[c] = h[c]
      OBVIOUS
    <3>1. InList(h, b[k]) \subseteq DOMAIN h
      BY <1>2, NullIsEnd, ListNodes DEF BinsLinked, FreeList
    <3>2. c \notin ToSet(u) \cup {a}
      OBVIOUS
    <3> QED
      BY <2>1, <3>1, <3>2
  <2>3. BinsLinked(b, r.hdr)
    BY <2>1, <2>2, BinsKept
  <2>4. \A k \in Bins : InList(r.hdr, b[k]) = InList(h, b[k])
    BY <2>1, <2>2, BinsKept
  <2> QED
    BY <1>4, <2>1, <2>3, <2>4 DEF InUse, Grown
<1> QED
  BY <1>1, <1>3, <1>4

\* normal_allocate() moves the first node of a bin into use.
LEMMA PopIntoUse ==
    ASSUME NEW b, NEW h, BinsLinked(b, h), NEW i \in Bins, b[i] # NULL,
           NEW head, NEW end \in Ends, NEW u, IsChain(h, head, u, end),
           Ordered(u, Offset),
           \A k \in Bins : ToSet(u) \cap InList(h, b[k]) = {},
           NEW popped, popped = PopNode(b[i], h),
           NEW used, used = InsertSorted(head, b[i], popped.hdr),
           NEW b2, b2 = [b EXCEPT ![i] = popped.head]
    PROVE  /\ ~popped.wild
           /\ b[i] \in InList(h, b[i])
           /\ \A c \in InList(h, b[i]) : b[i] <= c
           /\ BinsLinked(b2, popped.hdr)
           /\ BinNow(b, h, b2, popped.hdr, i, InList(h, b[i]) \ {b[i]})
           /\ Kept(h, popped.hdr, InList(h, b[i]))
           /\ \/ end = WILD /\ used.wild
              \/ InUse(b2, popped.hdr, used, b[i], u, end)
<1>1. IsHeaders(h) /\ SortedList(h, b[i], Offset, NULL)
  BY DEF BinsLinked, FreeList
<1>2. PICK s : s = Walk(h, b[i])
  OBVIOUS
<1>3. /\ IsChain(h, b[i], s, NULL) /\ Ordered(s, Offset)
      /\ InList(h, b[i]) = ToSet(s) /\ InList(h, b[i]) \subseteq DOMAIN h
  BY <1>1, <1>2, NullIsEnd, ListNodes
<1>4. \A c \in DOMAIN h : Offset[c] = c /\ Offset[c] \in Int
  BY <1>1 DEF IsHeaders, Offset
<1>5. /\ s # <<>> /\ b[i] = s[1] /\ b[i] \in ToSet(s) /\ 1 \in 1 .. Len(s)
      /\ \A c \in ToSet(s) : Offset[b[i]] <= Offset[c]
  BY <1>1, <1>3, <1>4, HeadIsLeast
<1>6. TakenOut(popped, h, b[i], s, 1, NULL)
      /\ popped.hdr[b[i]].next = NULL /\ popped.hdr[b[i]].prev = NULL
  BY <1>1, <1>3, <1>5, PopFirst
<1>7. /\ ~popped.wild /\ IsChain(popped.hdr, popped.head, CutOut(s, 1, 1), NULL)
      /\ Kept(h, popped.hdr, ToSet(s))
  BY <1>6 DEF TakenOut
<1>8. /\ BinsLinked(b2, popped.hdr)
      /\ BinNow(b, h, b2, popped.hdr, i, InList(h, b[i]) \ {b[i]})
  <2>1. /\ 1 + 1 - 1 <= Len(s) /\ 1 \in {1, 2}
        /\ {b[i]} = IF 1 = 1 THEN {s[1]} ELSE {s[1], s[1 + 1]}
    BY <1>5
  <2> QED
    BY <1>2, <1>5, <1>7, <2>1, BinWithout
<1>9. /\ IsHeaders(popped.hdr) /\ b[i] \in DOMAIN popped.hdr
      /\ b[i] \notin ToSet(u)
  BY <1>3, <1>5, <1>7 DEF Kept
<1>10. \A k \in Bins : /\ b[i] \notin InList(popped.hdr, b2[k])
                       /\ ToSet(u) \cap InList(popped.hdr, b2[k]) = {}
  <2> SUFFICES ASSUME NEW k \in Bins
               PROVE  /\ b[i] \notin InList(popped.hdr, b2[k])
                      /\ ToSet(u) \cap InList(popped.hdr, b2[k]) = {}
    OBVIOUS
  <2>1. InList(popped.hdr, b2[k]) = IF k = i THEN InList(h, b[i]) \ {b[i]}
                                    ELSE InList(h, b[k])
    BY <1>8 DEF BinNow
  <2>2. k # i => InList(h, b[i]) \cap InList(h, b[k]) = {}
    BY DEF BinsLinked
  <2> QED
    BY <1>3, <1>5, <2>1, <2>2
<1>11. IsChain(popped.hdr, head, u, end)
  <2>1. ToSet(u) \subseteq DOMAIN h
    BY <1>1, <1>4, HeadIsLeast
  <2>2. \A c \in ToSet(u) : c \in DOMAIN popped.hdr /\ popped.hdr[c] = h[c]
    BY <1>3, <1>7, <2>1 DEF Kept
  <2> QED
    BY <1>1, <2>2, ChainKept
<1>12. (end = WILD /\ used.wild) \/ InUse(b2, popped.hdr, used, b[i], u, end)
  BY <1>6, <1>8, <1>9, <1>10, <1>11, IntoUse
<1>13. \A c \in InList(h, b[i]) : b[i] <= c
  BY <1>3, <1>4, <1>5
<1> QED
  BY <1>3, <1>5, <1>7, <1>8, <1>12, <1>13

\* split_to_allocate() takes the first node out of its bin.
LEMMA TakeHead ==
    ASSUME NEW b, NEW h, BinsLinked(b, h), NEW i \in Bins, b[i] # NULL,
           NEW r, r = DeleteNode(b[i], b[i], h),
           NEW b2, b2 = [b EXCEPT ![i] = r.head]
    PROVE  /\ ~r.wild
           /\ b[i] \in InList(h, b[i])
           /\ \A c \in InList(h, b[i]) : b[i] <= c
           /\ BinsLinked(b2, r.hdr)
           /\ BinNow(b, h, b2, r.hdr, i, InList(h, b[i]) \ {b[i]})
           /\ Kept(h, r.hdr, InList(h, b[i]))
<1>1. IsHeaders(h) /\ SortedList(h, b[i], Offset, NULL)
  BY DEF BinsLinked, FreeList
<1>2. PICK s : s = Walk(h, b[i])
  OBVIOUS
<1>3. /\ IsChain(h, b[i], s, NULL) /\ Ordered(s, Offset)
      /\ InList(h, b[i]) = ToSet(s) /\ InList(h, b[i]) \subseteq DOMAIN h
  BY <1>1, <1>2, NullIsEnd, ListNodes
<1>4. \A c \in DOMAIN h : Offset[c] = c /\ Offset[c] \in Int
  BY <1>1 DEF IsHeaders, Offset
<1>5. /\ s # <<>> /\ b[i] = s[1] /\ b[i] \in ToSet(s) /\ 1 \in 1 .. Len(s)
      /\ \A c \in ToSet(s) : Offset[b[i]] <= Offset[c]
  BY <1>1, <1>3, <1>4, HeadIsLeast
<1>6. TakenOut(r, h, b[i], s, 1, NULL)
  <2>1. NULL # WILD
    BY DEF NULL, WILD
  <2> QED
    BY <1>1, <1>3, <1>5, <2>1, NullIsEnd, DeleteFound
<1>7. /\ ~r.wild /\ IsChain(r.hdr, r.head, CutOut(s, 1, 1), NULL)
      /\ Kept(h, r.hdr, ToSet(s))
  BY <1>6 DEF TakenOut
<1>8. /\ BinsLinked(b2, r.hdr)
      /\ BinNow(b, h, b2, r.hdr, i, InList(h, b[i]) \ {b[i]})
  <2>1. /\ 1 + 1 - 1 <= Len(s) /\ 1 \in {1, 2}
        /\ {b[i]} = IF 1 = 1 THEN {s[1]} ELSE {s[1], s[1 + 1]}
    BY <1>5
  <2> QED
    BY <1>2, <1>5, <1>7, <2>1, BinWithout
<1>9. \A c \in InList(h, b[i]) : b[i] <= c
  BY <1>3, <1>4, <1>5
<1> QED
  BY <1>3, <1>5, <1>7, <1>8, <1>9

-----------------------------------------------------------------------------
(* The inductive invariant                                                  *)

HeldAt  == {g.ptr - HDR : g \in held}
AreasAt == {p - HDR : p \in held_mmap}

\* Once the caller has written into a block, a list may end at it.
LinkedUpToWrite(h, head, key) ==
    \E end \in Ends : SortedList(h, head, key, end) /\ (written = {} => end = NULL)

Types ==
    /\ caller \in Callers
    /\ written \subseteq Nat /\ IsFiniteSet(written)
    /\ caller.writes = 0 => written = {}
    /\ HeldAt \cup AreasAt \subseteq DOMAIN hdr
    /\ held_mmap \subseteq Nat /\ AreasAt \subseteq MmapAddrs
    /\ \A a \in AreasAt : \E m \in mapped : m.addr = a
    /\ \A m \in mapped : m.len # 0

FreeLinked == BinsLinked(bin, hdr)

\* The blocks that are lost lie behind one that was written into.
UsedLinked ==
    /\ LinkedUpToWrite(hdr, allocated_heap, Offset)
    /\ InList(hdr, allocated_heap) \subseteq HeldAt
    /\ \A a \in HeldAt \ InList(hdr, allocated_heap) : \E w \in written : w < a

MmapLinked ==
    /\ LinkedUpToWrite(hdr, mmap_alloc_list, SizeIn(hdr))
    /\ InList(hdr, mmap_alloc_list) \subseteq AreasAt

Inv == Types /\ H!HeldInv /\ FreeLinked /\ UsedLinked /\ MmapLinked

\* The areas and their headers stay as they are.
AreasStay ==
    /\ UNCHANGED <<mapped, held_mmap, ownVars, fault>>
    /\ \A c \in AreasAt : c \in DOMAIN hdr' /\ hdr'[c] = hdr[c]

\* The set of the nodes of the areas.
AreaNodes == NodesOf(hdr, mmap_alloc_list)

HEAP == Sets!HEAP_INITIAL
FreeAt == UNION {InList(hdr, bin[i]) : i \in Bins}

LEMMA Constants ==
    /\ H!SizesAssumption /\ H!RequestAssumption
    /\ H!Bins = Bins /\ H!HEAP_INITIAL = HEAP /\ HEAP = 2 * Bytes[NBins - 1]
    /\ HEAP \in Nat
    /\ \A i \in Bins : 2 * Bytes[i] <= HEAP
<1>1. H!Bins = Bins /\ H!HEAP_INITIAL = HEAP /\ HEAP = 2 * Bytes[NBins - 1]
  BY DEF Bins, Sets!Bins, H!Bins, HEAP, Sets!HEAP_INITIAL, H!HEAP_INITIAL
<1>2. H!SizesAssumption
  BY SizesAssumption DEF Sets!SizesAssumption, H!SizesAssumption, Sets!Bins,
                         H!Bins
<1>3. H!RequestAssumption
  BY RequestAssumption DEF Sets!RequestAssumption, H!RequestAssumption,
                           Sets!HEAP_INITIAL, H!HEAP_INITIAL
<1>4. NBins - 1 \in Bins /\ Bytes[NBins - 1] \in Nat
  BY BinSizes
<1>5. \A i \in Bins : 2 * Bytes[i] <= HEAP
  <2> SUFFICES ASSUME NEW i \in Bins PROVE 2 * Bytes[i] <= 2 * Bytes[NBins - 1]
    BY <1>1
  <2>1. i = NBins - 1 \/ i < NBins - 1
    BY BinSizes
  <2>2. Bytes[i] \in Nat /\ (i < NBins - 1 => 2 * Bytes[i] <= Bytes[NBins - 1])
    BY <1>4, BinSizes
  <2> QED
    BY <1>4, <2>1, <2>2
<1> QED
  BY <1>1, <1>2, <1>3, <1>4, <1>5

\* What HwMalloc's invariant says of the nodes.
FreeNodesSound ==
    \A i \in Bins : \A a \in InList(hdr, bin[i]) :
       /\ a \in Nat /\ a \in DOMAIN hdr
       /\ hdr[a].size = Bytes[i]
       /\ a + Bytes[i] <= HEAP
       /\ a < HEAP
       /\ a \notin HeldAt
HeldNodesSound ==
    \A a \in HeldAt :
       /\ a \in Nat /\ a \in DOMAIN hdr
       /\ \E j \in Bins : hdr[a].size = Bytes[j] /\ a + Bytes[j] <= HEAP
       /\ a < HEAP
NodesApart ==
    \A a, c \in FreeAt \cup HeldAt :
       a # c => a + hdr[a].size <= c \/ c + hdr[c].size <= a

LEMMA NodeFacts ==
    ASSUME Types, H!HeldInv, FreeLinked
    PROVE  /\ FreeNodesSound /\ HeldNodesSound /\ NodesApart
           /\ \A a \in AreasAt : a \in Nat /\ a \notin HeldAt /\ a \notin FreeAt
<1> DEFINE Bin(i) == BinChunks(bin, hdr)[i]
           Used   == HeldChunks(held, hdr)
           All    == (UNION {Bin(i) : i \in Bins}) \cup Used
           C(a)   == [addr |-> a, size |-> hdr[a].size]
<1>1. /\ \A i \in Bins : \A a \in InList(hdr, bin[i]) : C(a) \in Bin(i)
      /\ \A a \in HeldAt : C(a) \in Used
  BY DEF BinChunks, NodesOf, HeldChunks, HeldAt
<1>2. /\ BinChunks(bin, hdr) \in [Bins -> SUBSET [addr : Nat, size : Nat]]
      /\ Used \subseteq [addr : Nat, size : Nat]
  BY Constants DEF H!HeldInv, H!HeapInv, H!TypeOK, H!Chunk
<1>12. /\ \A c \in Used : c \in All
       /\ \A i \in Bins : \A c \in Bin(i) : c \in All
  <2>1. PICK f : f = BinChunks(bin, hdr)
    OBVIOUS
  <2>2. \A i \in Bins : \A c \in f[i] : c \in UNION {f[j] : j \in Bins}
    OBVIOUS
  <2> QED
    BY <2>1, <2>2
<1>13. H!Chunks = All
  BY DEF H!Chunks, H!FreeChunks, H!Bins, Bins, Sets!Bins
<1> HIDE DEF Used, Bin, All
<1>3. \A i \in Bins : /\ \A c \in Bin(i) : c.size = Bytes[i]
                      /\ Bin(i) \cap Used = {}
  BY Constants DEF H!HeldInv, H!HeapInv, H!BinsSound, Bin, Used
<1>4. \A c \in Used : \E i \in Bins : c.size = Bytes[i]
  BY Constants DEF H!HeldInv, H!HeapInv, H!AllocatedSizes, Used
<1>5. \A c \in All : c.addr + c.size <= HEAP
  BY <1>13, Constants DEF H!HeldInv, H!HeapInv, H!Disjoint, H!End
<1>6. \A c, d \in All :
         c # d => c.addr + c.size <= d.addr \/ d.addr + d.size <= c.addr
  BY <1>13, Constants DEF H!HeldInv, H!HeapInv, H!Disjoint, H!End
<1>7. IsHeaders(hdr) /\ \A i \in Bins : InList(hdr, bin[i]) \subseteq DOMAIN hdr
  BY NullIsEnd, ListNodes DEF FreeLinked, BinsLinked, FreeList
<1>8. FreeNodesSound
  <2> SUFFICES ASSUME NEW i \in Bins, NEW a \in InList(hdr, bin[i])
               PROVE  /\ a \in Nat /\ a \in DOMAIN hdr
                      /\ hdr[a].size = Bytes[i]
                      /\ a + Bytes[i] <= HEAP
                      /\ a < HEAP
                      /\ a \notin HeldAt
    BY DEF FreeNodesSound
  <2>1. a \in DOMAIN hdr /\ a \in Nat /\ C(a) \in Bin(i)
    BY <1>1, <1>7 DEF IsHeaders
  <2>2. C(a).size = Bytes[i] /\ C(a).addr + C(a).size <= HEAP
    BY <1>3, <1>5, <1>12, <2>1
  <2>3. hdr[a].size = Bytes[i] /\ a + Bytes[i] <= HEAP
    BY <2>2
  <2>4. Bytes[i] \in Nat /\ Bytes[i] > 0 /\ HEAP \in Nat
    BY BinSizes, Constants
  <2>5. a \notin HeldAt
    BY <1>1, <1>3, <2>1
  <2> QED
    BY <2>1, <2>3, <2>4, <2>5
<1>9. HeldNodesSound
  <2> SUFFICES ASSUME NEW a \in HeldAt
               PROVE  /\ a \in Nat /\ a \in DOMAIN hdr
                      /\ \E j \in Bins : hdr[a].size = Bytes[j]
                                         /\ a + Bytes[j] <= HEAP
                      /\ a < HEAP
    BY DEF HeldNodesSound
  <2>1. a \in DOMAIN hdr /\ a \in Nat /\ C(a) \in Used
    BY <1>1, <1>7 DEF IsHeaders, Types
  <2>2. PICK j \in Bins : C(a).size = Bytes[j]
    BY <1>4, <2>1
  <2>3. C(a).addr + C(a).size <= HEAP
    BY <1>5, <1>12, <2>1
  <2>4. hdr[a].size = Bytes[j] /\ a + Bytes[j] <= HEAP
    BY <2>2, <2>3
  <2>5. Bytes[j] \in Nat /\ Bytes[j] > 0 /\ HEAP \in Nat
    BY BinSizes, Constants
  <2> QED
    BY <2>1, <2>4, <2>5
<1>10. NodesApart
  <2> SUFFICES ASSUME NEW a \in FreeAt \cup HeldAt, NEW c \in FreeAt \cup HeldAt,
                      a # c
               PROVE  a + hdr[a].size <= c \/ c + hdr[c].size <= a
    BY DEF NodesApart
  <2>1. C(a) \in All /\ C(c) \in All
    BY <1>1, <1>12 DEF FreeAt
  <2>2. C(a) # C(c)
    OBVIOUS
  <2>3. \/ C(a).addr + C(a).size <= C(c).addr
        \/ C(c).addr + C(c).size <= C(a).addr
    BY <1>6, <2>1, <2>2
  <2> QED
    BY <2>3
<1>11. \A a \in AreasAt : a \in Nat /\ a \notin HeldAt /\ a \notin FreeAt
  <2> SUFFICES ASSUME NEW a \in AreasAt
               PROVE  a \in Nat /\ a \notin HeldAt /\ a \notin FreeAt
    OBVIOUS
  <2>1. a \in Nat /\ a \in MmapAddrs
    BY <1>7 DEF Types, IsHeaders
  <2>2. a >= HEAP /\ HEAP \in Nat
    BY <2>1, ApartAssumption, Constants DEF HEAP
  <2>3. ~(a < HEAP)
    BY <2>1, <2>2
  <2> QED
    BY <1>8, <1>9, <2>1, <2>3 DEF FreeAt, FreeNodesSound, HeldNodesSound
<1> QED
  BY <1>8, <1>9, <1>10, <1>11

-----------------------------------------------------------------------------
(* Steps that leave lists as they are                                       *)

\* The heap keeps HwMalloc's invariant.
LEMMA HeapStep == H!HeldInv /\ [H!Next]_H!vars => H!HeldInv'
BY Constants, H!HeldStep

LEMMA SameBinChunks ==
    ASSUME NEW b, NEW h, NEW b2, NEW g,
           \A k \in Bins : /\ InList(g, b2[k]) = InList(h, b[k])
                           /\ \A c \in InList(h, b[k]) : g[c].size = h[c].size
    PROVE  BinChunks(b2, g) = BinChunks(b, h)
<1>1. \A k \in Bins : NodesOf(g, b2[k]) = NodesOf(h, b[k])
  BY DEF NodesOf
<1> QED
  BY <1>1 DEF BinChunks

LEMMA SameHeldChunks ==
    ASSUME NEW gs, NEW h, NEW g,
           \A q \in gs : g[q.ptr - HDR].size = h[q.ptr - HDR].size
    PROVE  HeldChunks(gs, g) = HeldChunks(gs, h)
BY DEF HeldChunks

\* The bins, and what is in use.
LEMMA HeapKept ==
    ASSUME Inv, UNCHANGED heapVars, IsHeaders(hdr'),
           \A a \in FreeAt : a \in DOMAIN hdr' /\ hdr'[a] = hdr[a],
           \A a \in HeldAt : hdr'[a].size = hdr[a].size
    PROVE  FreeLinked' /\ H!HeldInv' /\ UNCHANGED H!vars
<1>1. BinsLinked(bin, hdr) /\ H!HeldInv /\ UNCHANGED <<first_time, bin, merge_index, held>>
  BY DEF Inv, FreeLinked, heapVars
<1>2. \A k \in Bins : \A c \in InList(hdr, bin[k]) :
         c \in DOMAIN hdr' /\ hdr'[c] = hdr[c]
  BY DEF FreeAt
<1>3. BinsLinked(bin, hdr')
      /\ \A k \in Bins : InList(hdr', bin[k]) = InList(hdr, bin[k])
  BY <1>1, <1>2, BinsKept
<1>4. BinChunks(bin, hdr') = BinChunks(bin, hdr)
  BY <1>2, <1>3, SameBinChunks
<1>5. HeldChunks(held, hdr') = HeldChunks(held, hdr)
  BY SameHeldChunks DEF HeldAt
<1>6. UNCHANGED H!vars
  BY <1>1, <1>4, <1>5 DEF H!vars
<1>7. H!HeldInv'
  BY <1>1, <1>6, HeapStep
<1> QED
  BY <1>1, <1>3, <1>6, <1>7 DEF FreeLinked

LEMMA UsedKept ==
    ASSUME Inv, UNCHANGED <<allocated_heap, held, written>>, IsHeaders(hdr'),
           \A a \in HeldAt : a \in DOMAIN hdr' /\ hdr'[a] = hdr[a]
    PROVE  UsedLinked'
<1>1. PICK end \in Ends : /\ SortedList(hdr, allocated_heap, Offset, end)
                          /\ written = {} => end = NULL
  BY DEF Inv, UsedLinked, LinkedUpToWrite
<1>2. IsHeaders(hdr) /\ InList(hdr, allocated_heap) \subseteq HeldAt
  BY DEF Inv, UsedLinked, FreeLinked, BinsLinked
<1>3. \A a \in InList(hdr, allocated_heap) :
         a \in DOMAIN hdr' /\ hdr'[a] = hdr[a] /\ Offset[a] = Offset[a]
  BY <1>2
<1>4. /\ SortedList(hdr', allocated_heap, Offset, end)
      /\ InList(hdr', allocated_heap) = InList(hdr, allocated_heap)
  BY <1>1, <1>2, <1>3, ListKept
<1>5. HeldAt' = HeldAt
  BY DEF HeldAt
<1>6. LinkedUpToWrite(hdr, allocated_heap, Offset)'
  BY <1>1, <1>4 DEF LinkedUpToWrite
<1>7. \A a \in HeldAt \ InList(hdr, allocated_heap) : \E w \in written : w < a
  BY DEF Inv, UsedLinked
<1> QED
  BY <1>2, <1>4, <1>5, <1>6, <1>7 DEF UsedLinked

LEMMA MmapKept ==
    ASSUME Inv, UNCHANGED <<mmap_alloc_list, held_mmap, written>>,
           IsHeaders(hdr'),
           \A a \in AreasAt : a \in DOMAIN hdr' /\ hdr'[a] = hdr[a]
    PROVE  MmapLinked'
<1>1. PICK end \in Ends : /\ SortedList(hdr, mmap_alloc_list, SizeIn(hdr), end)
                          /\ written = {} => end = NULL
  BY DEF Inv, MmapLinked, LinkedUpToWrite
<1>2. IsHeaders(hdr) /\ InList(hdr, mmap_alloc_list) \subseteq AreasAt
      /\ AreasAt \subseteq DOMAIN hdr
  BY DEF Inv, MmapLinked, FreeLinked, BinsLinked, Types
<1>3. \A a \in InList(hdr, mmap_alloc_list) :
         a \in DOMAIN hdr' /\ hdr'[a] = hdr[a] /\ SizeIn(hdr')[a] = SizeIn(hdr)[a]
  BY <1>2 DEF SizeIn
<1>4. /\ SortedList(hdr', mmap_alloc_list, SizeIn(hdr'), end)
      /\ InList(hdr', mmap_alloc_list) = InList(hdr, mmap_alloc_list)
  BY <1>1, <1>2, <1>3, ListKept
<1>5. AreasAt' = AreasAt
  BY DEF AreasAt
<1> QED
  BY <1>1, <1>2, <1>4, <1>5 DEF MmapLinked, LinkedUpToWrite

\* A step that ends the run changes nothing else.
LEMMA CrashKeeps == ASSUME Inv, NEW why, Crash(why) PROVE Inv'
<1> USE DEF Crash, heapVars, mmapVars, ownVars
<1>1. IsHeaders(hdr')
      /\ \A a \in FreeAt \cup HeldAt \cup AreasAt : a \in DOMAIN hdr'
  BY NodeFacts DEF Inv, Types, FreeLinked, BinsLinked, FreeAt, FreeNodesSound
<1>2. FreeLinked' /\ H!HeldInv'
  BY <1>1, HeapKept
<1>3. UsedLinked' /\ MmapLinked'
  BY <1>1, UsedKept, MmapKept
<1>4. Types'
  BY DEF Inv, Types, HeldAt, AreasAt
<1> QED
  BY <1>2, <1>3, <1>4 DEF Inv

LEMMA StutterKeeps == ASSUME Inv, UNCHANGED vars PROVE Inv'
<1> USE DEF vars, heapVars, mmapVars, ownVars
<1>1. IsHeaders(hdr')
      /\ \A a \in FreeAt \cup HeldAt \cup AreasAt : a \in DOMAIN hdr'
  BY NodeFacts DEF Inv, Types, FreeLinked, BinsLinked, FreeAt, FreeNodesSound
<1>2. FreeLinked' /\ H!HeldInv'
  BY <1>1, HeapKept
<1>3. UsedLinked' /\ MmapLinked'
  BY <1>1, UsedKept, MmapKept
<1>4. Types'
  BY DEF Inv, Types, HeldAt, AreasAt
<1> QED
  BY <1>2, <1>3, <1>4 DEF Inv

-----------------------------------------------------------------------------
(* Writes of the caller                                                     *)

\* A list ends at a node whose next is overwritten.
LEMMA Truncated ==
    ASSUME NEW h, IsHeaders(h), NEW head, NEW end \in Ends, NEW key,
           SortedList(h, head, key, end), NEW a \in InList(h, head),
           NEW e \in Ends, NEW g, g = SetNext(h, a, e)
    PROVE  /\ SortedList(g, head, key, e)
           /\ InList(g, head) \subseteq InList(h, head)
           /\ a \in InList(g, head)
           /\ \A c \in InList(h, head) \ InList(g, head) : c # a /\ key[a] <= key[c]
<1>1. PICK s : s = Walk(h, head)
  OBVIOUS
<1>2. /\ IsChain(h, head, s, end) /\ Ordered(s, key)
      /\ InList(h, head) = {s[j] : j \in 1 .. Len(s)}
      /\ Len(s) \in Nat
  BY <1>1, ListNodes
<1>3. PICK D : D = DOMAIN h
  OBVIOUS
<1>4. /\ s \in Seq(D) /\ \A j \in 1 .. Len(s) : s[j] \in D
      /\ \A j, l \in 1 .. Len(s) : s[j] = s[l] => j = l
      /\ head = IF s = <<>> THEN NULL ELSE s[1]
  BY <1>2, <1>3 DEF IsChain
<1>5. PICK k \in 1 .. Len(s) : a = s[k]
  BY <1>2
<1>6. e \in Int
  BY DEF Ends, NULL, WILD
<1> DEFINE f == SetNext(h, a, e)
<1>7. /\ IsHeaders(f) /\ DOMAIN f = DOMAIN h
      /\ \A b \in DOMAIN h :
            /\ f[b].size = h[b].size
            /\ f[b].prev = h[b].prev
            /\ f[b].next = IF a = b THEN e ELSE h[b].next
            /\ b # a => f[b] = h[b]
  <2>1. a \in DOMAIN h /\ e \in Int
    BY <1>3, <1>4, <1>5, <1>6
  <2> QED
    BY <2>1, SetNextIs
<1> HIDE DEF f
<1>8. g = f
  BY DEF f
<1> DEFINE t == [j \in 1 .. k |-> s[j]]
<1>9. k \in Nat /\ 1 .. k \subseteq 1 .. Len(s) /\ t \in [1 .. k -> D]
  BY <1>2, <1>4
<1>10. t \in Seq(D) /\ Len(t) = k /\ \A j \in 1 .. k : t[j] = s[j]
  <2>1. \A j \in 1 .. k : t[j] = s[j]
    OBVIOUS
  <2> HIDE DEF t
  <2> QED
    BY <1>9, <2>1, MakeSeq
<1> HIDE DEF t
<1>11. t # <<>> /\ s # <<>> /\ t[1] = s[1]
  <2>1. 1 \in 1 .. k /\ 1 \in 1 .. Len(s)
    BY <1>2, <1>9
  <2> QED
    BY <1>10, <2>1
<1>12. IsChain(f, head, t, e)
  <2>1. t \in Seq(DOMAIN f)
    BY <1>3, <1>7, <1>10
  <2>2. \A j, l \in 1 .. Len(t) : t[j] = t[l] => j = l
    BY <1>4, <1>9, <1>10
  <2>3. head = IF t = <<>> THEN NULL ELSE t[1]
    BY <1>4, <1>11
  <2>4. \A j \in 1 .. Len(t) : /\ f[t[j]].next = NextIn(t, j, e)
                               /\ f[t[j]].prev = PrevIn(t, j)
    <3> SUFFICES ASSUME NEW j \in 1 .. k
                 PROVE  /\ f[s[j]].next = NextIn(t, j, e)
                        /\ f[s[j]].prev = PrevIn(t, j)
      BY <1>10
    <3>1. j \in 1 .. Len(s) /\ s[j] \in DOMAIN h
      BY <1>3, <1>4, <1>9
    <3>2. h[s[j]].next = NextIn(s, j, end) /\ h[s[j]].prev = PrevIn(s, j)
      BY <1>2, <3>1 DEF IsChain
    <3>3. f[s[j]].prev = PrevIn(t, j)
      <4>1. PrevIn(t, j) = PrevIn(s, j)
        <5>1. j # 1 => j - 1 \in 1 .. k
          BY <1>9
        <5> QED
          BY <1>10, <5>1 DEF PrevIn
      <4> QED
        BY <1>7, <3>1, <3>2, <4>1
    <3>4. f[s[j]].next = NextIn(t, j, e)
      <4>1. CASE j = k
        BY <1>5, <1>7, <1>10, <3>1, <4>1 DEF NextIn
      <4>2. CASE j # k
        <5>1. j + 1 \in 1 .. k /\ j # Len(s)
          BY <1>2, <1>9, <4>2
        <5>2. s[j] # a
          BY <1>4, <1>5, <3>1, <4>2
        <5>3. f[s[j]].next = s[j + 1]
          BY <1>7, <3>1, <3>2, <5>1, <5>2 DEF NextIn
        <5>4. NextIn(t, j, e) = s[j + 1]
          BY <1>10, <4>2, <5>1 DEF NextIn
        <5> QED
          BY <5>3, <5>4
      <4> QED
        BY <4>1, <4>2
    <3> QED
      BY <3>3, <3>4
  <2> QED
    BY <2>1, <2>2, <2>3, <2>4 DEF IsChain
<1>13. Ordered(t, key)
  BY <1>2, <1>9, <1>10 DEF Ordered
<1>14. ToSet(t) = {s[j] : j \in 1 .. k}
  <2>1. DOMAIN t = 1 .. k
    BY <1>10
  <2> QED
    BY <1>10, <2>1 DEF ToSet
<1>15. SortedList(f, head, key, e) /\ InList(f, head) = ToSet(t)
  BY <1>7, <1>12, <1>13, SortedListIs
<1>16. a \in ToSet(t) /\ ToSet(t) \subseteq InList(h, head)
  BY <1>2, <1>5, <1>9, <1>14
<1>17. \A c \in InList(h, head) \ ToSet(t) : c # a /\ key[a] <= key[c]
  <2> SUFFICES ASSUME NEW c \in InList(h, head) \ ToSet(t)
               PROVE  c # a /\ key[a] <= key[c]
    OBVIOUS
  <2>1. PICK j \in 1 .. Len(s) : c = s[j]
    BY <1>2
  <2>2. k < j
    BY <1>9, <1>14, <2>1
  <2> QED
    BY <1>2, <1>5, <1>16, <2>1, <2>2 DEF Ordered
<1> QED
  BY <1>8, <1>15, <1>16, <1>17

\* A list that does not have the header is as it was.
LEMMA WriteElsewhere ==
    ASSUME NEW h, IsHeaders(h), NEW head, NEW end \in Ends, NEW key,
           SortedList(h, head, key, end), NEW a \in DOMAIN h,
           a \notin InList(h, head), NEW e \in Ends, NEW g, g = SetNext(h, a, e)
    PROVE  SortedList(g, head, key, end) /\ InList(g, head) = InList(h, head)
<1> DEFINE f == SetNext(h, a, e)
<1>1. /\ IsHeaders(f) /\ DOMAIN f = DOMAIN h
      /\ \A b \in DOMAIN h :
            /\ f[b].size = h[b].size
            /\ f[b].prev = h[b].prev
            /\ f[b].next = IF a = b THEN e ELSE h[b].next
            /\ b # a => f[b] = h[b]
  <2>1. e \in Int
    BY DEF Ends, NULL, WILD
  <2> QED
    BY <2>1, SetNextIs
<1> HIDE DEF f
<1>2. InList(h, head) \subseteq DOMAIN h
  BY ListNodes
<1>3. \A c \in InList(h, head) : /\ c \in DOMAIN f /\ f[c] = h[c]
                                 /\ key[c] = key[c]
  BY <1>1, <1>2
<1>4. SortedList(f, head, key, end) /\ InList(f, head) = InList(h, head)
  BY <1>1, <1>3, ListKept
<1> QED
  BY <1>4 DEF f

LEMMA WriteKeeps ==
    ASSUME Inv, NEW mem \in {g.ptr : g \in held} \cup held_mmap, WriteBlock(mem)
    PROVE  Inv'
<1>1. PICK e \in {NULL, WILD} : hdr' = SetNext(hdr, mem - HDR, e)
  BY DEF WriteBlock
<1>2. PICK a : a = mem - HDR
  OBVIOUS
<1>3. /\ hdr' = SetNext(hdr, a, e) /\ e \in Ends /\ e \in Int
      /\ written' = written \cup {a}
      /\ UNCHANGED <<heapVars, mmapVars, caller, fault>>
  BY <1>1, <1>2 DEF WriteBlock, Ends, NULL, WILD
<1>4. a \in HeldAt \cup AreasAt
  BY <1>2 DEF HeldAt, AreasAt
<1>5. IsHeaders(hdr) /\ HeldAt \cup AreasAt \subseteq DOMAIN hdr /\ a \in DOMAIN hdr
      /\ DOMAIN hdr \subseteq Nat /\ a \in Nat
  BY <1>4 DEF Inv, Types, FreeLinked, BinsLinked, IsHeaders
<1> DEFINE f == SetNext(hdr, a, e)
<1>6. /\ IsHeaders(f) /\ DOMAIN f = DOMAIN hdr
      /\ \A b \in DOMAIN hdr :
            /\ f[b].size = hdr[b].size
            /\ f[b].prev = hdr[b].prev
            /\ f[b].next = IF a = b THEN e ELSE hdr[b].next
            /\ b # a => f[b] = hdr[b]
  BY <1>3, <1>5, SetNextIs
<1> HIDE DEF f
<1>7. hdr' = f
  BY <1>3 DEF f
<1>8. FreeNodesSound /\ HeldNodesSound
      /\ \A c \in AreasAt : c \in Nat /\ c \notin HeldAt /\ c \notin FreeAt
  BY NodeFacts DEF Inv
<1>9. FreeLinked' /\ H!HeldInv'
  <2>1. \A c \in FreeAt : c \in DOMAIN hdr /\ c # a
    BY <1>4, <1>8 DEF FreeAt, FreeNodesSound
  <2>2. \A c \in FreeAt : c \in DOMAIN hdr' /\ hdr'[c] = hdr[c]
    BY <1>6, <1>7, <2>1
  <2>3. \A c \in HeldAt : hdr'[c].size = hdr[c].size
    BY <1>5, <1>6, <1>7
  <2>4. IsHeaders(hdr') /\ UNCHANGED heapVars
    BY <1>3, <1>6, <1>7
  <2> QED
    BY <2>2, <2>3, <2>4, HeapKept
<1>10. HeldAt' = HeldAt /\ AreasAt' = AreasAt
  BY <1>3 DEF HeldAt, AreasAt, heapVars, mmapVars
<1>11. written' # {}
  BY <1>3
<1>12. UsedLinked'
  <2>1. PICK end \in Ends : SortedList(hdr, allocated_heap, Offset, end)
    BY DEF Inv, UsedLinked, LinkedUpToWrite
  <2>2. /\ InList(hdr, allocated_heap) \subseteq HeldAt
        /\ \A c \in HeldAt \ InList(hdr, allocated_heap) :
              \E w \in written : w < c
    BY DEF Inv, UsedLinked
  <2>3. allocated_heap' = allocated_heap
    BY <1>3 DEF heapVars
  <2>4. CASE a \in InList(hdr, allocated_heap)
    <3>1. SortedList(f, allocated_heap, Offset, e)
      BY <1>3, <1>5, <2>1, <2>4, Truncated DEF f
    <3>2. InList(f, allocated_heap) \subseteq InList(hdr, allocated_heap)
      BY <1>3, <1>5, <2>1, <2>4, Truncated DEF f
    <3>3. \A c \in InList(hdr, allocated_heap) \ InList(f, allocated_heap) :
             c # a /\ Offset[a] <= Offset[c]
      BY <1>3, <1>5, <2>1, <2>4, Truncated DEF f
    <3>4. \A c \in HeldAt \ InList(f, allocated_heap) : \E w \in written' : w < c
      <4> SUFFICES ASSUME NEW c \in HeldAt \ InList(f, allocated_heap)
                   PROVE  \E w \in written' : w < c
        OBVIOUS
      <4>1. CASE c \in InList(hdr, allocated_heap)
        <5>1. c # a /\ Offset[a] <= Offset[c] /\ c \in Nat
          BY <1>5, <3>3, <4>1
        <5>2. a < c
          BY <1>5, <5>1 DEF Offset
        <5> QED
          BY <1>3, <5>2
      <4>2. CASE c \notin InList(hdr, allocated_heap)
        BY <1>3, <2>2, <4>2
      <4> QED
        BY <4>1, <4>2
    <3>5. LinkedUpToWrite(hdr, allocated_heap, Offset)'
      BY <1>3, <1>7, <1>11, <2>3, <3>1 DEF LinkedUpToWrite
    <3> QED
      BY <1>7, <1>10, <2>2, <2>3, <3>2, <3>4, <3>5 DEF UsedLinked
  <2>5. CASE a \notin InList(hdr, allocated_heap)
    <3>1. /\ SortedList(f, allocated_heap, Offset, end)
          /\ InList(f, allocated_heap) = InList(hdr, allocated_heap)
      BY <1>3, <1>5, <2>1, <2>5, WriteElsewhere DEF f
    <3>2. LinkedUpToWrite(hdr, allocated_heap, Offset)'
      BY <1>7, <1>11, <2>1, <2>3, <3>1 DEF LinkedUpToWrite
    <3>3. \A c \in HeldAt \ InList(hdr, allocated_heap) : \E w \in written' : w < c
      BY <1>3, <2>2
    <3> QED
      BY <1>7, <1>10, <2>2, <2>3, <3>1, <3>2, <3>3 DEF UsedLinked
  <2> QED
    BY <2>4, <2>5
<1>13. MmapLinked'
  <2>1. PICK end \in Ends : SortedList(hdr, mmap_alloc_list, SizeIn(hdr), end)
    BY DEF Inv, MmapLinked, LinkedUpToWrite
  <2>2. InList(hdr, mmap_alloc_list) \subseteq AreasAt
    BY DEF Inv, MmapLinked
  <2>3. mmap_alloc_list' = mmap_alloc_list
    BY <1>3 DEF mmapVars
  <2>4. SizeIn(f) = SizeIn(hdr)
    BY <1>6 DEF SizeIn
  <2>5. \E last \in Ends : SortedList(f, mmap_alloc_list, SizeIn(f), last)
    <3>1. CASE a \in InList(hdr, mmap_alloc_list)
      <4>1. SortedList(f, mmap_alloc_list, SizeIn(hdr), e)
        BY <1>3, <1>5, <2>1, <3>1, Truncated DEF f
      <4> QED
        BY <1>3, <2>4, <4>1
    <3>2. CASE a \notin InList(hdr, mmap_alloc_list)
      <4>1. SortedList(f, mmap_alloc_list, SizeIn(hdr), end)
        BY <1>3, <1>5, <2>1, <3>2, WriteElsewhere DEF f
      <4> QED
        BY <2>1, <2>4, <4>1
    <3> QED
      BY <3>1, <3>2
  <2>6. InList(f, mmap_alloc_list) \subseteq InList(hdr, mmap_alloc_list)
    <3>1. CASE a \in InList(hdr, mmap_alloc_list)
      BY <1>3, <1>5, <2>1, <3>1, Truncated DEF f
    <3>2. CASE a \notin InList(hdr, mmap_alloc_list)
      BY <1>3, <1>5, <2>1, <3>2, WriteElsewhere DEF f
    <3> QED
      BY <3>1, <3>2
  <2>7. LinkedUpToWrite(hdr, mmap_alloc_list, SizeIn(hdr))'
    BY <1>7, <1>11, <2>3, <2>5 DEF LinkedUpToWrite
  <2> QED
    BY <1>7, <1>10, <2>2, <2>3, <2>6, <2>7 DEF MmapLinked
<1>14. Types'
  <2>1. IsFiniteSet(written') /\ written' \subseteq Nat
    BY <1>3, <1>5, FS_AddElement DEF Inv, Types
  <2>2. caller.writes # 0
    <3>1. Cardinality(written \cup {a}) <= caller.writes
      BY <1>2 DEF WriteBlock
    <3>2. IsFiniteSet(written \cup {a}) /\ Cardinality(written \cup {a}) \in Nat
          /\ Cardinality(written \cup {a}) # 0
      <4>1. IsFiniteSet(written \cup {a}) /\ written \cup {a} # {}
        BY <1>3, <2>1
      <4> QED
        BY <4>1, FS_CardinalityType, FS_EmptySet
    <3> QED
      BY <3>1, <3>2
  <2>3. caller' = caller /\ mapped' = mapped /\ held_mmap' = held_mmap
    BY <1>3 DEF mmapVars
  <2>4. HeldAt \cup AreasAt \subseteq DOMAIN hdr'
    BY <1>5, <1>6, <1>7
  <2>5. caller' \in Callers
    BY <2>3 DEF Inv, Types
  <2>6. held_mmap' \subseteq Nat /\ AreasAt' \subseteq MmapAddrs
        /\ \A c \in AreasAt' : \E m \in mapped' : m.addr = c
    BY <1>10, <2>3 DEF Inv, Types
  <2>7. \A m \in mapped' : m.len # 0
    BY <2>3 DEF Inv, Types
  <2> QED
    BY <1>10, <2>1, <2>2, <2>3, <2>4, <2>5, <2>6, <2>7 DEF Types
<1> QED
  BY <1>9, <1>12, <1>13, <1>14 DEF Inv

-----------------------------------------------------------------------------
(* mmap areas                                                               *)

\* The mmap list without the area at a, or as it was if that is not found.
LEMMA InMmapListIs ==
    ASSUME Inv, NEW a, NEW r, r = InMmapList(a)
    PROVE  \/ r.wild /\ written # {}
           \/ ~r.wild /\ r.size = 0 /\ r.head = mmap_alloc_list /\ r.hdr = hdr
           \/ /\ ~r.wild
              /\ a \in InList(hdr, mmap_alloc_list) /\ r.size = hdr[a].size
              /\ LinkedUpToWrite(r.hdr, r.head, SizeIn(hdr))
              /\ InList(r.hdr, r.head) = InList(hdr, mmap_alloc_list) \ {a}
              /\ Kept(hdr, r.hdr, InList(hdr, mmap_alloc_list))
<1>1. IsHeaders(hdr)
  BY DEF Inv, FreeLinked, BinsLinked
<1>2. PICK end \in Ends : /\ SortedList(hdr, mmap_alloc_list, SizeIn(hdr), end)
                          /\ written = {} => end = NULL
  BY DEF Inv, MmapLinked, LinkedUpToWrite
<1>3. PICK s : s = Walk(hdr, mmap_alloc_list)
  OBVIOUS
<1>4. /\ IsChain(hdr, mmap_alloc_list, s, end) /\ Ordered(s, SizeIn(hdr))
      /\ InList(hdr, mmap_alloc_list) = ToSet(s)
      /\ InList(hdr, mmap_alloc_list) \subseteq DOMAIN hdr
      /\ ToSet(s) = {s[j] : j \in 1 .. Len(s)} /\ Len(s) \in Nat
  BY <1>1, <1>2, <1>3, ListNodes
<1>5. PICK del : del = IF a = 0 THEN NULL ELSE a
  OBVIOUS
<1>6. r = DeleteNode(mmap_alloc_list, del, hdr)
  BY <1>5 DEF InMmapList
<1>7. CASE del \notin ToSet(s)
  <2>1. \/ r.wild /\ written # {}
        \/ ~r.wild /\ r.size = 0 /\ r.head = mmap_alloc_list /\ r.hdr = hdr
    <3> DEFINE q == DeleteNode(mmap_alloc_list, del, hdr)
    <3>1. \/ /\ end = WILD /\ s # <<>> /\ q.wild
          \/ /\ ~q.wild /\ q.size = 0 /\ q.head = mmap_alloc_list /\ q.hdr = hdr
      <4>1. /\ IsChain(hdr, mmap_alloc_list, s, end) /\ end \in Ends
            /\ del \notin ToSet(s)
        BY <1>4, <1>7
      <4> QED
        BY <1>1, <4>1, DeleteNone
    <3> HIDE DEF q
    <3>2. r = q
      BY <1>6 DEF q
    <3> QED
      BY <1>2, <3>1, <3>2, EndsDiffer
  <2> QED
    BY <2>1
<1>8. CASE del \in ToSet(s)
  <2>1. PICK k \in 1 .. Len(s) : del = s[k]
    BY <1>4, <1>8
  <2>2. del = a
    <3>1. del \in Nat
      BY <1>1, <1>4, <1>8 DEF IsHeaders
    <3> QED
      BY <1>5, <3>1 DEF NULL
  <2>3. \/ /\ k = Len(s) /\ end = WILD /\ r.wild
        \/ /\ TakenOut(r, hdr, mmap_alloc_list, s, k, end)
           /\ r.size = hdr[s[k]].size
    BY <1>1, <1>4, <1>6, <2>1, DeleteFound
  <2>4. CASE TakenOut(r, hdr, mmap_alloc_list, s, k, end)
              /\ r.size = hdr[s[k]].size
    <3>1. /\ ~r.wild /\ IsChain(r.hdr, r.head, CutOut(s, k, 1), end)
          /\ Kept(hdr, r.hdr, ToSet(s))
      BY <2>4 DEF TakenOut
    <3>2. Ordered(CutOut(s, k, 1), SizeIn(hdr))
      <4>1. PICK D : D = DOMAIN hdr
        OBVIOUS
      <4>2. s \in Seq(D) /\ k + 1 - 1 <= Len(s) /\ 1 \in Nat
        BY <1>4, <4>1 DEF IsChain
      <4> QED
        BY <1>4, <4>2, CutOutOrdered
    <3>3. IsHeaders(r.hdr)
      BY <3>1 DEF Kept
    <3>4. /\ SortedList(r.hdr, r.head, SizeIn(hdr), end)
          /\ InList(r.hdr, r.head) = ToSet(CutOut(s, k, 1))
      BY <3>1, <3>2, <3>3, SortedListIs
    <3>5. ToSet(CutOut(s, k, 1)) = ToSet(s) \ {s[k]}
      BY <1>1, <1>4, CutOutSet
    <3>6. LinkedUpToWrite(r.hdr, r.head, SizeIn(hdr))
      BY <1>2, <3>4 DEF LinkedUpToWrite
    <3> QED
      BY <1>4, <1>8, <2>1, <2>2, <2>4, <3>1, <3>4, <3>5, <3>6
  <2> QED
    BY <1>2, <2>3, <2>4, EndsDiffer
<1> QED
  BY <1>7, <1>8

\* hw_malloc() has taken the area at a from mmap.
AreaAdded(bytes, a) ==
    /\ \A m \in mapped : m.addr # a
    /\ mapped' = mapped \cup {[addr |-> a, len |-> Sets!RequireByte(bytes)]}
    /\ AreaNodes' = AreaNodes \cup
          {[addr |-> a, size |-> Sets!StoredSize(Sets!RequireByte(bytes))]}
    /\ held_mmap' = held_mmap \cup {a + HDR}
    /\ UNCHANGED <<heapVars, ownVars, fault, H!vars>>

LEMMA MmapAllocateKeeps ==
    ASSUME Inv, NEW bytes \in Requests, MmapAllocate(bytes)
    PROVE  Inv' /\ (written = {} => \E a \in MmapAddrs : AreaAdded(bytes, a))
<1>1. PICK len, a :
        /\ len = Sets!RequireByte(bytes)
        /\ a \in MmapAddrs /\ \A m \in mapped : m.addr # a
        /\ LET list == MmapInsertSorted(mmap_alloc_list, a,
                                        NewNode(hdr, a, Sets!StoredSize(len)))
           IN  IF list.wild THEN Crash("wild pointer")
               ELSE /\ mmap_alloc_list' = list.head
                    /\ hdr' = list.hdr
                    /\ mapped' = mapped \cup {[addr |-> a, len |-> len]}
                    /\ held_mmap' = held_mmap \cup {a + HDR}
                    /\ UNCHANGED <<heapVars, ownVars, fault>>
  BY DEF MmapAllocate
<1> DEFINE size == Sets!StoredSize(len)
           n    == NewNode(hdr, a, size)
<1>2. /\ a \in Nat /\ a >= HEAP /\ HEAP \in Nat /\ size \in Int
      /\ IsHeaders(hdr) /\ HDR \in Nat /\ len \in Int
  <2>1. a \in Nat /\ FieldMod \in Nat \ {0} /\ SizeMod \in Nat \ {0}
    BY <1>1, RequestAssumption DEF Sets!RequestAssumption
  <2>2. bytes \in Nat
    BY RequestAssumption DEF Sets!RequestAssumption
  <2>3. HDR \in Nat
    BY BinSizes
  <2>4. len \in Int
    <3>1. len = (bytes + HDR) % SizeMod
      BY <1>1 DEF Sets!RequireByte
    <3>2. bytes + HDR \in Int
      BY <2>2, <2>3
    <3> QED
      BY <2>1, <3>1, <3>2
  <2>5. size \in Int
    BY <2>1, <2>4 DEF Sets!StoredSize
  <2>6. a >= HEAP /\ HEAP \in Nat
    BY <1>1, ApartAssumption, Constants DEF HEAP
  <2> QED
    BY <2>1, <2>3, <2>4, <2>5, <2>6 DEF Inv, FreeLinked, BinsLinked
<1> HIDE DEF size
<1>3. IsHeaders(n) /\ DOMAIN n = DOMAIN hdr \cup {a}
  BY <1>2, NewNodeIs
<1>4. \A c \in DOMAIN hdr : c # a => n[c] = hdr[c]
  BY <1>2, NewNodeIs
<1>5. n[a].prev = NULL /\ n[a].next = NULL
  BY DEF NewNode
<1>17. n[a].size = size
  BY DEF NewNode
<1> HIDE DEF n
<1>6. FreeNodesSound /\ HeldNodesSound
  BY NodeFacts DEF Inv
<1>7. a \notin AreasAt /\ a \notin HeldAt /\ a \notin FreeAt
  <2>1. ~(a < HEAP)
    BY <1>2
  <2> QED
    BY <1>1, <1>6, <2>1 DEF Inv, Types, FreeNodesSound, HeldNodesSound, FreeAt
<1>8. PICK end \in Ends : /\ SortedList(hdr, mmap_alloc_list, SizeIn(hdr), end)
                          /\ written = {} => end = NULL
  BY DEF Inv, MmapLinked, LinkedUpToWrite
<1>9. InList(hdr, mmap_alloc_list) \subseteq AreasAt
      /\ AreasAt \subseteq DOMAIN hdr /\ HeldAt \subseteq DOMAIN hdr
      /\ FreeAt \subseteq DOMAIN hdr
  BY <1>6 DEF Inv, MmapLinked, Types, FreeNodesSound, FreeAt
<1>10. SortedList(n, mmap_alloc_list, SizeIn(n), end)
       /\ InList(n, mmap_alloc_list) = InList(hdr, mmap_alloc_list)
  <2>1. \A c \in InList(hdr, mmap_alloc_list) :
           c \in DOMAIN n /\ n[c] = hdr[c] /\ SizeIn(n)[c] = SizeIn(hdr)[c]
    BY <1>3, <1>4, <1>7, <1>9 DEF SizeIn
  <2> QED
    BY <1>2, <1>3, <1>8, <2>1, ListKept
<1>11. PICK s : s = Walk(n, mmap_alloc_list)
  OBVIOUS
<1>12. /\ IsChain(n, mmap_alloc_list, s, end) /\ Ordered(s, SizeIn(n))
       /\ ToSet(s) = InList(hdr, mmap_alloc_list)
  BY <1>3, <1>10, <1>11, ListNodes
<1>13. PICK r : r = MmapInsertSorted(mmap_alloc_list, a, n)
  OBVIOUS
<1>16. len # 0
  <2>1. len > Bytes[NBins - 1]
    BY <1>1 DEF MmapAllocate, Sets!MMAP_THRESHOLD
  <2>2. Bytes[NBins - 1] \in Nat /\ len \in Int
    BY <1>2, BinSizes
  <2> QED
    BY <2>1, <2>2
<1>14. CASE r.wild
  <2>1. Crash("wild pointer")
    BY <1>1, <1>13, <1>14 DEF n, size
  <2>2. written # {}
    <3>1. a \in DOMAIN n /\ a \notin ToSet(s)
      BY <1>3, <1>7, <1>9, <1>12
    <3>2. \/ end = WILD /\ r.wild
          \/ \E s2 : Grown(r, n, s, s2, a, end, SizeIn(n))
      BY <1>3, <1>5, <1>12, <1>13, <3>1, MmapInsertSortedIs
    <3> QED
      BY <1>8, <1>14, <3>2, EndsDiffer DEF Grown
  <2> QED
    BY <2>1, <2>2, CrashKeeps
<1>15. CASE ~r.wild
  <2>1. a \in DOMAIN n /\ a \notin ToSet(s)
    BY <1>3, <1>7, <1>9, <1>12
  <2>2. PICK s2 : Grown(r, n, s, s2, a, end, SizeIn(n))
    BY <1>3, <1>5, <1>12, <1>13, <1>15, <2>1, MmapInsertSortedIs
  <2>3. /\ IsChain(r.hdr, r.head, s2, IF s = <<>> THEN NULL ELSE end)
        /\ Ordered(s2, SizeIn(n)) /\ ToSet(s2) = ToSet(s) \cup {a}
        /\ Kept(n, r.hdr, ToSet(s) \cup {a})
    BY <2>2 DEF Grown
  <2>4. IsHeaders(r.hdr) /\ DOMAIN r.hdr = DOMAIN hdr \cup {a}
        /\ \A c \in DOMAIN n : /\ r.hdr[c].size = n[c].size
                               /\ c \notin ToSet(s) \cup {a} => r.hdr[c] = n[c]
    BY <1>3, <2>3 DEF Kept
  <2>5. SizeIn(r.hdr) = SizeIn(n)
    BY <1>3, <2>4 DEF SizeIn
  <2>6. PICK last \in Ends : last = (IF s = <<>> THEN NULL ELSE end)
    BY NullIsEnd
  <2>7. /\ SortedList(r.hdr, r.head, SizeIn(r.hdr), last)
        /\ InList(r.hdr, r.head) = ToSet(s2)
    BY <2>3, <2>4, <2>5, <2>6, SortedListIs
  <2>8. /\ mmap_alloc_list' = r.head
        /\ hdr' = r.hdr
        /\ mapped' = mapped \cup {[addr |-> a, len |-> len]}
        /\ held_mmap' = held_mmap \cup {a + HDR}
        /\ UNCHANGED <<heapVars, ownVars, fault>>
    BY <1>1, <1>13, <1>15 DEF n, size
  <2>9. AreasAt' = AreasAt \cup {a}
    <3>1. (a + HDR) - HDR = a
      BY <1>2
    <3>2. AreasAt' = {p - HDR : p \in held_mmap \cup {a + HDR}}
      BY <2>8 DEF AreasAt
    <3>3. \A y : y \in AreasAt' <=> \E p \in held_mmap \cup {a + HDR} : y = p - HDR
      BY <3>2
    <3>4. \A y : y \in AreasAt <=> \E p \in held_mmap : y = p - HDR
      BY DEF AreasAt
    <3>5. \A y : y \in AreasAt' <=> y \in AreasAt \/ y = a
      <4> DEFINE q == a + HDR
      <4>1. q - HDR = a
        BY <3>1
      <4>2. \A y : y \in AreasAt' <=> \E p \in held_mmap \cup {q} : y = p - HDR
        BY <3>3
      <4> HIDE DEF q
      <4>3. \A y : y \in AreasAt \/ y = a => y \in AreasAt'
        BY <3>4, <4>1, <4>2
      <4>4. \A y : y \in AreasAt' => y \in AreasAt \/ y = a
        BY <3>4, <4>1, <4>2
      <4> QED
        BY <4>3, <4>4
    <3> QED
      BY <3>5
  <2>10. MmapLinked'
    <3>1. LinkedUpToWrite(hdr, mmap_alloc_list, SizeIn(hdr))'
      BY <1>8, <2>6, <2>7, <2>8 DEF LinkedUpToWrite, ownVars
    <3> QED
      BY <1>9, <1>12, <2>3, <2>7, <2>8, <2>9, <3>1 DEF MmapLinked
  <2>11. \A c \in FreeAt \cup HeldAt : c \in DOMAIN hdr' /\ hdr'[c] = hdr[c]
    <3> SUFFICES ASSUME NEW c \in FreeAt \cup HeldAt
                 PROVE  c \in DOMAIN hdr' /\ hdr'[c] = hdr[c]
      OBVIOUS
    <3>1. c \notin AreasAt
      BY NodeFacts DEF Inv
    <3>2. c \in DOMAIN hdr /\ c # a /\ c \notin ToSet(s)
      BY <1>7, <1>9, <1>12, <3>1
    <3>3. c \in DOMAIN n /\ n[c] = hdr[c]
      BY <1>3, <1>4, <3>2
    <3> QED
      BY <2>4, <2>8, <3>2, <3>3
  <2>12. FreeLinked' /\ H!HeldInv' /\ UNCHANGED H!vars
    BY <2>4, <2>8, <2>11, HeapKept
  <2>13. UsedLinked'
    BY <2>4, <2>8, <2>11, UsedKept DEF heapVars, ownVars
  <2>14. Types'
    <3>1. HeldAt' = HeldAt
      BY <2>8 DEF HeldAt, heapVars
    <3>2. HeldAt' \cup AreasAt' \subseteq DOMAIN hdr'
      BY <1>9, <2>4, <2>8, <2>9, <3>1
    <3>3. held_mmap' \subseteq Nat /\ AreasAt' \subseteq MmapAddrs
      <4>1. held_mmap \subseteq Nat /\ AreasAt \subseteq MmapAddrs
        BY DEF Inv, Types
      <4>2. a + HDR \in Nat
        BY <1>2
      <4> QED
        BY <1>1, <2>8, <2>9, <4>1, <4>2
    <3>4. \A c \in AreasAt' : \E m \in mapped' : m.addr = c
      <4> SUFFICES ASSUME NEW c \in AreasAt \cup {a}
                   PROVE  \E m \in mapped' : m.addr = c
        BY <2>9
      <4>1. CASE c = a
        <5>1. [addr |-> a, len |-> len] \in mapped'
          BY <2>8
        <5> QED
          BY <4>1, <5>1
      <4>2. CASE c \in AreasAt
        <5>1. PICK m \in mapped : m.addr = c
          BY <4>2 DEF Inv, Types
        <5>2. m \in mapped'
          BY <2>8
        <5> QED
          BY <5>1, <5>2
      <4> QED
        BY <4>1, <4>2
    <3>5. \A m \in mapped' : m.len # 0
      BY <1>16, <2>8 DEF Inv, Types
    <3> QED
      BY <2>8, <3>2, <3>3, <3>4, <3>5 DEF Inv, Types, ownVars
  <2>15. AreaNodes' = AreaNodes \cup {[addr |-> a, size |-> size]}
    <3>1. InList(r.hdr, r.head) = InList(hdr, mmap_alloc_list) \cup {a}
      BY <1>12, <2>3, <2>7
    <3>2. r.hdr[a].size = size
      BY <1>3, <1>17, <2>4
    <3>3. \A c \in InList(hdr, mmap_alloc_list) : r.hdr[c].size = hdr[c].size
      BY <1>3, <1>4, <1>7, <1>9, <2>4
    <3>4. AreaNodes' = NodesOf(r.hdr, r.head)
      BY <2>8 DEF AreaNodes
    <3>5. NodesOf(r.hdr, r.head) = NodesOf(hdr, mmap_alloc_list)
                                      \cup {[addr |-> a, size |-> size]}
      BY <3>1, <3>2, <3>3 DEF NodesOf
    <3> QED
      BY <3>4, <3>5 DEF AreaNodes
  <2>16. AreaAdded(bytes, a)
    BY <1>1, <2>8, <2>12, <2>15 DEF AreaAdded, size
  <2> QED
    BY <1>1, <2>10, <2>12, <2>13, <2>14, <2>16 DEF Inv
<1> QED
  BY <1>14, <1>15

\* hw_free() has deleted the node n of the mmap list and unmapped the area it
\* stands for.
AreaRemoved(mem, n) ==
    /\ n.addr = mem - HDR /\ n.addr \in MmapAddrs
    /\ AreaNodes' = AreaNodes \ {n}
    /\ mapped' = mapped \ {[addr |-> n.addr, len |-> n.size]}
    /\ held_mmap' = IF n.size = 0 THEN held_mmap ELSE held_mmap \ {mem}
    /\ UNCHANGED <<heapVars, ownVars, fault, H!vars>>

LEMMA FreeMmapKeeps ==
    ASSUME Inv, NEW mem \in Int, FreeMmap(mem)
    PROVE  Inv' /\ \E n \in AreaNodes : AreaRemoved(mem, n)
<1>1. PICK a : a = mem - HDR
  OBVIOUS
<1>2. PICK r : r = InMmapList(a)
  OBVIOUS
<1>3. /\ ~r.wild /\ r.size # 0
      /\ mmap_alloc_list' = r.head
      /\ hdr' = Without(r.hdr, a)
      /\ mapped' = mapped \ {[addr |-> a, len |-> r.size]}
      /\ held_mmap' = held_mmap \ {mem}
      /\ UNCHANGED <<heapVars, ownVars, fault>>
  BY <1>1, <1>2 DEF FreeMmap
<1>4. /\ a \in InList(hdr, mmap_alloc_list) /\ r.size = hdr[a].size
      /\ LinkedUpToWrite(r.hdr, r.head, SizeIn(hdr))
      /\ InList(r.hdr, r.head) = InList(hdr, mmap_alloc_list) \ {a}
      /\ Kept(hdr, r.hdr, InList(hdr, mmap_alloc_list))
  BY <1>2, <1>3, InMmapListIs
<1>5. /\ IsHeaders(r.hdr) /\ DOMAIN r.hdr = DOMAIN hdr
      /\ \A c \in DOMAIN hdr :
            /\ r.hdr[c].size = hdr[c].size
            /\ c \notin InList(hdr, mmap_alloc_list) => r.hdr[c] = hdr[c]
  BY <1>4 DEF Kept
<1>6. /\ IsHeaders(hdr') /\ DOMAIN hdr' = DOMAIN hdr \ {a}
      /\ \A c \in DOMAIN hdr \ {a} : hdr'[c] = r.hdr[c]
  <2> DEFINE f == Without(r.hdr, a)
  <2>1. /\ IsHeaders(f) /\ DOMAIN f = DOMAIN r.hdr \ {a}
        /\ \A c \in DOMAIN r.hdr \ {a} : f[c] = r.hdr[c]
    BY <1>5, WithoutIs
  <2>2. hdr' = f
    BY <1>3
  <2> HIDE DEF f
  <2> QED
    BY <1>5, <2>1, <2>2
<1>7. InList(hdr, mmap_alloc_list) \subseteq AreasAt
      /\ AreasAt \subseteq DOMAIN hdr /\ HeldAt \subseteq DOMAIN hdr
      /\ FreeAt \subseteq DOMAIN hdr /\ HDR \in Nat
      /\ held_mmap \subseteq Nat
  BY NodeFacts, BinSizes DEF Inv, MmapLinked, Types, FreeNodesSound, FreeAt
<1>8. AreasAt' = AreasAt \ {a}
  <2>1. \A p \in held_mmap : p - HDR = a <=> p = mem
    BY <1>1, <1>7
  <2> QED
    BY <1>3, <2>1 DEF AreasAt
<1>9. MmapLinked' /\ InList(hdr', r.head) = InList(r.hdr, r.head)
  <2>1. PICK end \in Ends : /\ SortedList(r.hdr, r.head, SizeIn(hdr), end)
                            /\ written = {} => end = NULL
    BY <1>4 DEF LinkedUpToWrite
  <2>2. \A c \in InList(r.hdr, r.head) :
           c \in DOMAIN hdr' /\ hdr'[c] = r.hdr[c]
           /\ SizeIn(hdr')[c] = SizeIn(hdr)[c]
    BY <1>4, <1>5, <1>6, <1>7 DEF SizeIn
  <2>3. /\ SortedList(hdr', r.head, SizeIn(hdr'), end)
        /\ InList(hdr', r.head) = InList(r.hdr, r.head)
    <3>1. PICK g, key, key2 : g = hdr' /\ key = SizeIn(hdr) /\ key2 = SizeIn(g)
      OBVIOUS
    <3>2. \A c \in InList(r.hdr, r.head) :
             c \in DOMAIN g /\ g[c] = r.hdr[c] /\ key2[c] = key[c]
      BY <2>2, <3>1
    <3>3. IsHeaders(g) /\ SortedList(r.hdr, r.head, key, end)
      BY <1>6, <2>1, <3>1
    <3>4. /\ SortedList(g, r.head, key2, end)
          /\ InList(g, r.head) = InList(r.hdr, r.head)
      BY <1>5, <3>2, <3>3, ListKept
    <3> QED
      BY <3>1, <3>4
  <2>4. LinkedUpToWrite(hdr, mmap_alloc_list, SizeIn(hdr))'
    BY <1>3, <2>1, <2>3 DEF LinkedUpToWrite, ownVars
  <2> QED
    BY <1>3, <1>4, <1>7, <1>8, <2>3, <2>4 DEF MmapLinked
<1>10. \A c \in FreeAt \cup HeldAt : c \in DOMAIN hdr' /\ hdr'[c] = hdr[c]
  <2> SUFFICES ASSUME NEW c \in FreeAt \cup HeldAt
               PROVE  c \in DOMAIN hdr' /\ hdr'[c] = hdr[c]
    OBVIOUS
  <2>1. c \notin AreasAt
    BY NodeFacts DEF Inv
  <2>2. c \in DOMAIN hdr /\ c # a /\ c \notin InList(hdr, mmap_alloc_list)
    BY <1>4, <1>7, <2>1
  <2> QED
    BY <1>5, <1>6, <2>2
<1>11. FreeLinked' /\ H!HeldInv' /\ UNCHANGED H!vars
  BY <1>3, <1>6, <1>10, HeapKept
<1>12. UsedLinked'
  BY <1>3, <1>6, <1>10, UsedKept DEF heapVars, ownVars
<1>13. Types'
  <2>1. HeldAt' = HeldAt
    BY <1>3 DEF HeldAt, heapVars
  <2>2. HeldAt' \cup AreasAt' \subseteq DOMAIN hdr'
    BY <1>6, <1>7, <1>8, <1>10, <2>1
  <2>3. held_mmap' \subseteq Nat /\ AreasAt' \subseteq MmapAddrs
    BY <1>3, <1>8 DEF Inv, Types
  <2>4. \A c \in AreasAt' : \E m \in mapped' : m.addr = c
    <3> SUFFICES ASSUME NEW c \in AreasAt, c # a
                 PROVE  \E m \in mapped' : m.addr = c
      BY <1>8
    <3>1. PICK m \in mapped : m.addr = c
      BY DEF Inv, Types
    <3>2. m # [addr |-> a, len |-> r.size]
      BY <3>1
    <3> QED
      BY <1>3, <3>1, <3>2
  <2> QED
    BY <1>3, <2>2, <2>3, <2>4 DEF Inv, Types, ownVars
<1>14. PICK n : n = [addr |-> a, size |-> r.size]
  OBVIOUS
<1>15. n \in AreaNodes
  BY <1>4, <1>14 DEF AreaNodes, NodesOf
<1>16. AreaNodes' = AreaNodes \ {n}
  <2>1. PICK g, y, A : g = hdr' /\ y = r.head /\ A = {a}
    OBVIOUS
  <2>2. InList(g, y) = InList(hdr, mmap_alloc_list) \ A
    BY <1>4, <1>9, <2>1
  <2>3. \A c \in InList(hdr, mmap_alloc_list) \ A : g[c].size = hdr[c].size
    BY <1>5, <1>6, <1>7, <2>1
  <2>4. NodesOf(g, y) = NodesOf(hdr, mmap_alloc_list)
                           \ {[addr |-> c, size |-> hdr[c].size] : c \in A}
    BY <2>2, <2>3 DEF NodesOf
  <2>5. {[addr |-> c, size |-> hdr[c].size] : c \in A} = {n}
    BY <1>4, <1>14, <2>1
  <2> QED
    BY <1>3, <2>1, <2>4, <2>5 DEF AreaNodes
<1>17. a \in MmapAddrs
  BY <1>4, <1>7 DEF Inv, Types
<1>18. AreaRemoved(mem, n)
  BY <1>1, <1>3, <1>11, <1>14, <1>16, <1>17 DEF AreaRemoved
<1> QED
  BY <1>9, <1>11, <1>12, <1>13, <1>15, <1>18 DEF Inv

LEMMA FreeFailsKeeps ==
    ASSUME Inv, NEW mem \in Int, FreeFails(mem)
    PROVE  Inv' /\ (UNCHANGED vars \/ \E n \in AreaNodes : AreaRemoved(mem, n))
<1>1. PICK a : a = mem - HDR
  OBVIOUS
<1>2. PICK r : r = InMmapList(a)
  OBVIOUS
<1>3. /\ ~r.wild /\ r.size = 0
      /\ mmap_alloc_list' = r.head
      /\ hdr' = r.hdr
      /\ UNCHANGED <<heapVars, mapped, held_mmap, ownVars, fault>>
  BY <1>1, <1>2 DEF FreeFails
<1>4. CASE r.head = mmap_alloc_list /\ r.hdr = hdr
  <2>1. UNCHANGED vars
    BY <1>3, <1>4 DEF vars, mmapVars
  <2> QED
    BY <2>1, StutterKeeps
<1>5. CASE /\ a \in InList(hdr, mmap_alloc_list) /\ r.size = hdr[a].size
           /\ LinkedUpToWrite(r.hdr, r.head, SizeIn(hdr))
           /\ InList(r.hdr, r.head) = InList(hdr, mmap_alloc_list) \ {a}
           /\ Kept(hdr, r.hdr, InList(hdr, mmap_alloc_list))
  <2>1. /\ IsHeaders(r.hdr) /\ DOMAIN r.hdr = DOMAIN hdr
        /\ \A c \in DOMAIN hdr :
              /\ r.hdr[c].size = hdr[c].size
              /\ c \notin InList(hdr, mmap_alloc_list) => r.hdr[c] = hdr[c]
    BY <1>5 DEF Kept
  <2>2. InList(hdr, mmap_alloc_list) \subseteq AreasAt
        /\ AreasAt \subseteq DOMAIN hdr /\ HeldAt \subseteq DOMAIN hdr
        /\ FreeAt \subseteq DOMAIN hdr
    BY NodeFacts DEF Inv, MmapLinked, Types, FreeNodesSound, FreeAt
  <2>3. AreasAt' = AreasAt /\ HeldAt' = HeldAt
    BY <1>3 DEF AreasAt, HeldAt, heapVars
  <2>4. SizeIn(r.hdr) = SizeIn(hdr)
    BY <2>1 DEF SizeIn
  <2>5. MmapLinked'
    <3>1. LinkedUpToWrite(hdr, mmap_alloc_list, SizeIn(hdr))'
      BY <1>3, <1>5, <2>4 DEF LinkedUpToWrite, ownVars
    <3> QED
      BY <1>3, <1>5, <2>2, <2>3, <3>1 DEF MmapLinked
  <2>6. \A c \in FreeAt \cup HeldAt : c \in DOMAIN hdr' /\ hdr'[c] = hdr[c]
    <3> SUFFICES ASSUME NEW c \in FreeAt \cup HeldAt
                 PROVE  c \in DOMAIN hdr' /\ hdr'[c] = hdr[c]
      OBVIOUS
    <3>1. c \notin AreasAt
      BY NodeFacts DEF Inv
    <3> QED
      BY <1>3, <2>1, <2>2, <3>1
  <2>7. FreeLinked' /\ H!HeldInv' /\ UNCHANGED H!vars
    BY <1>3, <2>1, <2>6, HeapKept
  <2>8. UsedLinked'
    BY <1>3, <2>1, <2>6, UsedKept DEF heapVars, ownVars
  <2>9. Types'
    BY <1>3, <2>1, <2>3 DEF Inv, Types, ownVars
  <2>10. PICK n : n = [addr |-> a, size |-> r.size]
    OBVIOUS
  <2>11. n \in AreaNodes
    BY <1>5, <2>10 DEF AreaNodes, NodesOf
  <2>12. AreaNodes' = AreaNodes \ {n}
    <3>1. InList(r.hdr, r.head) = InList(hdr, mmap_alloc_list) \ {a}
      BY <1>5
    <3>2. \A c \in InList(hdr, mmap_alloc_list) : r.hdr[c].size = hdr[c].size
      BY <2>1, <2>2
    <3>3. NodesOf(r.hdr, r.head) = NodesOf(hdr, mmap_alloc_list)
                             \ {[addr |-> c, size |-> hdr[c].size] : c \in {a}}
      BY <3>1, <3>2 DEF NodesOf
    <3>4. {[addr |-> c, size |-> hdr[c].size] : c \in {a}} = {n}
      BY <1>5, <2>10
    <3> QED
      BY <1>3, <3>3, <3>4 DEF AreaNodes
  <2>13. mapped' = mapped \ {[addr |-> a, len |-> r.size]}
    <3>1. \A m \in mapped : m.len # 0
      BY DEF Inv, Types
    <3>2. [addr |-> a, len |-> r.size] \notin mapped
      BY <1>3, <3>1
    <3> QED
      BY <1>3, <3>2
  <2>14. a \in MmapAddrs
    BY <1>5, <2>2 DEF Inv, Types
  <2>15. AreaRemoved(mem, n)
    BY <1>1, <1>3, <2>7, <2>10, <2>12, <2>13, <2>14 DEF AreaRemoved
  <2> QED
    BY <2>5, <2>7, <2>8, <2>9, <2>11, <2>15 DEF Inv
<1> QED
  BY <1>2, <1>3, <1>4, <1>5, InMmapListIs

-----------------------------------------------------------------------------
(* hw_malloc() on the heap                                                  *)

LEMMA NodesLess ==
    ASSUME NEW h, NEW x, NEW g, NEW y, NEW A,
           InList(g, y) = InList(h, x) \ A,
           \A c \in InList(h, x) : g[c].size = h[c].size
    PROVE  NodesOf(g, y) =
              NodesOf(h, x) \ {[addr |-> c, size |-> h[c].size] : c \in A}
BY DEF NodesOf

\* The mmap part of Types.
LEMMA TypesKept ==
    ASSUME Inv, UNCHANGED <<mapped, held_mmap, ownVars>>,
           HeldAt' \cup AreasAt \subseteq DOMAIN hdr'
    PROVE  Types'
<1>1. AreasAt' = AreasAt
  BY DEF AreasAt
<1> QED
  BY <1>1 DEF Inv, Types, ownVars

LEMMA HeldAtGrows ==
    ASSUME NEW a \in Nat, NEW bytes, Give(a, bytes)
    PROVE  HeldAt' = HeldAt \cup {a}
<1> DEFINE q == a + HDR
<1>1. HDR \in Nat
  BY BinSizes
<1>2. q - HDR = a
  BY <1>1
<1>3. held' = held \cup {[ptr |-> q, bytes |-> bytes]}
  BY DEF Give
<1>4. \A y : y \in HeldAt' <=> \E g \in held' : y = g.ptr - HDR
  BY DEF HeldAt
<1>5. \A y : y \in HeldAt <=> \E g \in held : y = g.ptr - HDR
  BY DEF HeldAt
<1> HIDE DEF q
<1>6. [ptr |-> q, bytes |-> bytes].ptr = q
  OBVIOUS
<1>7. \A y : y \in HeldAt \/ y = a => y \in HeldAt'
  BY <1>2, <1>3, <1>4, <1>5, <1>6
<1>8. \A y : y \in HeldAt' => y \in HeldAt \/ y = a
  BY <1>2, <1>3, <1>4, <1>5, <1>6
<1> QED
  BY <1>7, <1>8

LEMMA HeldChunksGrow ==
    ASSUME NEW a \in Nat, NEW bytes, Give(a, bytes), NEW size,
           hdr'[a].size = size, \A c \in HeldAt : hdr'[c].size = hdr[c].size
    PROVE  HeldChunks(held', hdr') =
              HeldChunks(held, hdr) \cup {[addr |-> a, size |-> size]}
<1>1. HeldAt' = HeldAt \cup {a}
  BY HeldAtGrows
<1>2. HeldChunks(held', hdr') = {[addr |-> c, size |-> hdr'[c].size] : c \in HeldAt'}
  BY DEF HeldChunks, HeldAt
<1>3. HeldChunks(held, hdr) = {[addr |-> c, size |-> hdr[c].size] : c \in HeldAt}
  BY DEF HeldChunks, HeldAt
<1> QED
  BY <1>1, <1>2, <1>3

\* The list of what is in use has got the block that is given to the caller.
LEMMA UsedGrows ==
    ASSUME Inv, NEW a \in Nat, NEW bytes, Give(a, bytes), UNCHANGED written,
           IsHeaders(hdr'), NEW end \in Ends, written = {} => end = NULL,
           NEW u, ToSet(u) = InList(hdr, allocated_heap), NEW u2,
           IsChain(hdr', allocated_heap', u2, IF u = <<>> THEN NULL ELSE end),
           Ordered(u2, Offset), ToSet(u2) = ToSet(u) \cup {a}
    PROVE  UsedLinked'
<1>1. HeldAt' = HeldAt \cup {a}
  BY HeldAtGrows
<1>2. PICK last \in Ends : last = (IF u = <<>> THEN NULL ELSE end)
  BY NullIsEnd
<1>3. /\ SortedList(hdr', allocated_heap', Offset, last)
      /\ InList(hdr', allocated_heap') = ToSet(u2)
  <2>1. PICK g, x : g = hdr' /\ x = allocated_heap'
    OBVIOUS
  <2>2. IsHeaders(g) /\ IsChain(g, x, u2, last) /\ Ordered(u2, Offset)
    BY <1>2, <2>1
  <2>3. SortedList(g, x, Offset, last) /\ InList(g, x) = ToSet(u2)
    BY <2>2, SortedListIs
  <2> QED
    BY <2>1, <2>3
<1>4. LinkedUpToWrite(hdr, allocated_heap, Offset)'
  BY <1>2, <1>3 DEF LinkedUpToWrite
<1>5. /\ InList(hdr, allocated_heap) \subseteq HeldAt
      /\ \A c \in HeldAt \ InList(hdr, allocated_heap) : \E w \in written : w < c
  BY DEF Inv, UsedLinked
<1>6. InList(hdr', allocated_heap') \subseteq HeldAt'
  BY <1>1, <1>3, <1>5
<1>7. \A c \in HeldAt' \ InList(hdr', allocated_heap') : \E w \in written' : w < c
  BY <1>1, <1>3, <1>5
<1> QED
  BY <1>4, <1>6, <1>7 DEF UsedLinked

\* The used list, as the lemmas on lists take it.
LEMMA UsedList ==
    ASSUME Inv
    PROVE  \E end \in Ends : \E u :
              /\ written = {} => end = NULL
              /\ IsChain(hdr, allocated_heap, u, end) /\ Ordered(u, Offset)
              /\ ToSet(u) = InList(hdr, allocated_heap)
              /\ u = Walk(hdr, allocated_heap)
              /\ ToSet(u) \subseteq HeldAt
<1>1. IsHeaders(hdr)
  BY DEF Inv, FreeLinked, BinsLinked
<1>2. PICK end \in Ends : /\ SortedList(hdr, allocated_heap, Offset, end)
                          /\ written = {} => end = NULL
  BY DEF Inv, UsedLinked, LinkedUpToWrite
<1>3. PICK u : u = Walk(hdr, allocated_heap)
  OBVIOUS
<1>4. /\ IsChain(hdr, allocated_heap, u, end) /\ Ordered(u, Offset)
      /\ ToSet(u) = InList(hdr, allocated_heap)
  BY <1>1, <1>2, <1>3, ListNodes
<1>5. ToSet(u) \subseteq HeldAt
  BY <1>4 DEF Inv, UsedLinked
<1> QED
  BY <1>2, <1>3, <1>4, <1>5

\* hw_malloc() gives the block at a, once the bins are b and the headers h and
\* the block has gone into allocated_heap.
LEMMA GivenKeeps ==
    ASSUME Inv, NEW bytes, NEW a \in Nat, Give(a, bytes),
           NEW b, NEW h, NEW used, NEW end \in Ends, NEW u,
           InUse(b, h, used, a, u, end),
           written = {} => end = NULL,
           ToSet(u) = InList(hdr, allocated_heap),
           bin' = b, allocated_heap' = used.head, hdr' = used.hdr,
           UNCHANGED <<mapped, held_mmap, ownVars>>,
           mmap_alloc_list' \in {mmap_alloc_list, NULL},
           a \in DOMAIN h, a \notin AreasAt, HeldAt \cup AreasAt \subseteq DOMAIN h,
           \A c \in HeldAt : h[c].size = hdr[c].size,
           \A c \in AreasAt : h[c] = hdr[c]
    PROVE  /\ Types' /\ FreeLinked' /\ UsedLinked' /\ MmapLinked'
           /\ \A k \in Bins : InList(hdr', bin'[k]) = InList(h, b[k])
           /\ \A c \in DOMAIN h : hdr'[c].size = h[c].size
           /\ HeldChunks(held', hdr') =
                 HeldChunks(held, hdr) \cup {[addr |-> a, size |-> h[a].size]}
           /\ \A c \in AreasAt : c \in DOMAIN hdr' /\ hdr'[c] = hdr[c]
<1>1. /\ BinsLinked(b, used.hdr)
      /\ \A k \in Bins : InList(used.hdr, b[k]) = InList(h, b[k])
      /\ DOMAIN used.hdr = DOMAIN h
  BY DEF InUse
<1>2. \A c \in DOMAIN h : /\ used.hdr[c].size = h[c].size
                          /\ c \notin ToSet(u) \cup {a} => used.hdr[c] = h[c]
  BY DEF InUse
<1>3. FreeLinked' /\ IsHeaders(hdr')
  BY <1>1 DEF FreeLinked, BinsLinked
<1>4. \A k \in Bins : InList(hdr', bin'[k]) = InList(h, b[k])
  BY <1>1
<1>5. \A c \in DOMAIN h : hdr'[c].size = h[c].size
  BY <1>2
<1>6. \A c \in AreasAt : c \in DOMAIN hdr' /\ hdr'[c] = hdr[c]
  <2> SUFFICES ASSUME NEW c \in AreasAt PROVE c \in DOMAIN hdr' /\ hdr'[c] = hdr[c]
    OBVIOUS
  <2>1. c \notin HeldAt /\ ToSet(u) \subseteq HeldAt
    BY NodeFacts DEF Inv, UsedLinked
  <2> QED
    BY <1>1, <1>2, <2>1
<1>7. UsedLinked'
  <2>1. PICK u2 : /\ IsChain(hdr', allocated_heap', u2,
                             IF u = <<>> THEN NULL ELSE end)
                  /\ Ordered(u2, Offset) /\ ToSet(u2) = ToSet(u) \cup {a}
    BY DEF InUse
  <2>2. UNCHANGED written
    BY DEF ownVars
  <2> QED
    BY <1>3, <2>1, <2>2, UsedGrows
<1>8. MmapLinked'
  <2>1. CASE UNCHANGED mmap_alloc_list
    BY <1>3, <1>6, <2>1, MmapKept DEF ownVars
  <2>2. CASE mmap_alloc_list' = NULL
    <3>1. PICK g : g = hdr'
      OBVIOUS
    <3>2. SortedList(g, NULL, SizeIn(g), NULL) /\ InList(g, NULL) = {}
      BY <1>3, <3>1, NullIsEnd, EmptyList
    <3> QED
      BY <2>2, <3>1, <3>2, NullIsEnd DEF MmapLinked, LinkedUpToWrite
  <2> QED
    BY <2>1, <2>2
<1>9. HeldAt' = HeldAt \cup {a}
  BY HeldAtGrows
<1>10. Types'
  BY <1>1, <1>9, TypesKept
<1>11. HeldChunks(held', hdr') =
          HeldChunks(held, hdr) \cup {[addr |-> a, size |-> h[a].size]}
  <2>1. hdr'[a].size = h[a].size /\ \A c \in HeldAt : hdr'[c].size = hdr[c].size
    BY <1>5
  <2> QED
    BY <2>1, HeldChunksGrow
<1> QED
  BY <1>3, <1>4, <1>5, <1>6, <1>7, <1>8, <1>10, <1>11

LEMMA AllocateFromBinKeeps ==
    ASSUME Inv, NEW bytes \in Requests, AllocateFromBin(bytes)
    PROVE  /\ Inv'
           /\ written = {} => /\ H!NormalAllocate(bytes) /\ AreasStay
                              /\ UNCHANGED mmap_alloc_list
<1>1. PICK i \in Bins : /\ HasBin(bytes, i) /\ bin[i] # NULL /\ first_time
                        /\ NormalAllocate([bin |-> bin, hdr |-> hdr], i, bytes)
  BY DEF AllocateFromBin
<1>2. PICK end \in Ends : \E u :
              /\ written = {} => end = NULL
              /\ IsChain(hdr, allocated_heap, u, end) /\ Ordered(u, Offset)
              /\ ToSet(u) = InList(hdr, allocated_heap)
              /\ ToSet(u) \subseteq HeldAt
  BY UsedList
<1>3. PICK u :
              /\ written = {} => end = NULL
              /\ IsChain(hdr, allocated_heap, u, end) /\ Ordered(u, Offset)
              /\ ToSet(u) = InList(hdr, allocated_heap)
              /\ ToSet(u) \subseteq HeldAt
  BY <1>2
<1>4. PICK a, popped, used, b2 :
        /\ a = bin[i] /\ popped = PopNode(a, hdr)
        /\ used = InsertSorted(allocated_heap, a, popped.hdr)
        /\ b2 = [bin EXCEPT ![i] = popped.head]
  OBVIOUS
<1>5. IF popped.wild \/ used.wild THEN Crash("wild pointer")
      ELSE /\ bin' = b2
           /\ allocated_heap' = used.head
           /\ hdr' = used.hdr
           /\ Give(a, bytes)
           /\ first_time' = TRUE
           /\ mmap_alloc_list' = IF first_time THEN mmap_alloc_list ELSE NULL
           /\ UNCHANGED <<merge_index, mapped, held_mmap, ownVars, fault>>
  BY <1>1, <1>4 DEF NormalAllocate
<1>6. BinsLinked(bin, hdr) /\ FreeNodesSound /\ HeldNodesSound
  BY NodeFacts DEF Inv, FreeLinked
<1>7. \A k \in Bins : ToSet(u) \cap InList(hdr, bin[k]) = {}
  BY <1>3, <1>6 DEF FreeNodesSound
<1>8. /\ ~popped.wild
      /\ a \in InList(hdr, bin[i])
      /\ \A c \in InList(hdr, bin[i]) : a <= c
      /\ BinsLinked(b2, popped.hdr)
      /\ BinNow(bin, hdr, b2, popped.hdr, i, InList(hdr, bin[i]) \ {a})
      /\ Kept(hdr, popped.hdr, InList(hdr, bin[i]))
      /\ \/ end = WILD /\ used.wild
         \/ InUse(b2, popped.hdr, used, a, u, end)
  BY <1>1, <1>3, <1>4, <1>6, <1>7, PopIntoUse
<1>9. CASE used.wild
  <2>1. Crash("wild pointer")
    BY <1>5, <1>9
  <2>2. written # {}
    BY <1>3, <1>8, <1>9, EndsDiffer DEF InUse
  <2> QED
    BY <2>1, <2>2, CrashKeeps
<1>10. CASE ~used.wild
  <2>1. InUse(b2, popped.hdr, used, a, u, end)
    BY <1>8, <1>10
  <2>2. /\ bin' = b2 /\ allocated_heap' = used.head /\ hdr' = used.hdr
        /\ Give(a, bytes) /\ first_time' = TRUE
        /\ mmap_alloc_list' = mmap_alloc_list
        /\ UNCHANGED <<merge_index, mapped, held_mmap, ownVars, fault>>
    BY <1>1, <1>5, <1>8, <1>10
  <2>3. /\ DOMAIN popped.hdr = DOMAIN hdr
        /\ \A c \in DOMAIN hdr :
              /\ popped.hdr[c].size = hdr[c].size
              /\ c \notin InList(hdr, bin[i]) => popped.hdr[c] = hdr[c]
    BY <1>8 DEF Kept
  <2>4. /\ HeldAt \cup AreasAt \subseteq DOMAIN hdr /\ a \in DOMAIN hdr /\ a \in Nat
        /\ \A c \in AreasAt : c \notin InList(hdr, bin[i])
        /\ a \notin AreasAt
    BY <1>6, <1>8, NodeFacts DEF Inv, Types, FreeNodesSound, FreeAt
  <2>5. /\ a \in DOMAIN popped.hdr /\ HeldAt \cup AreasAt \subseteq DOMAIN popped.hdr
        /\ \A c \in HeldAt : popped.hdr[c].size = hdr[c].size
        /\ \A c \in AreasAt : popped.hdr[c] = hdr[c]
        /\ popped.hdr[a].size = hdr[a].size
    BY <2>3, <2>4
  <2>6. /\ Types' /\ FreeLinked' /\ UsedLinked' /\ MmapLinked'
        /\ \A k \in Bins : InList(hdr', bin'[k]) = InList(popped.hdr, b2[k])
        /\ \A c \in DOMAIN popped.hdr : hdr'[c].size = popped.hdr[c].size
        /\ HeldChunks(held', hdr') =
              HeldChunks(held, hdr) \cup {[addr |-> a, size |-> popped.hdr[a].size]}
        /\ \A c \in AreasAt : c \in DOMAIN hdr' /\ hdr'[c] = hdr[c]
    <3>1. /\ UNCHANGED <<mapped, held_mmap, ownVars>>
          /\ mmap_alloc_list' \in {mmap_alloc_list, NULL}
          /\ bin' = b2 /\ allocated_heap' = used.head /\ hdr' = used.hdr
          /\ written = {} => end = NULL
          /\ ToSet(u) = InList(hdr, allocated_heap)
          /\ end \in Ends
      BY <1>3, <2>2
    <3>2. PICK h : h = popped.hdr
      OBVIOUS
    <3>3. /\ Give(a, bytes) /\ a \in Nat
          /\ InUse(b2, h, used, a, u, end)
          /\ a \in DOMAIN h /\ HeldAt \cup AreasAt \subseteq DOMAIN h
          /\ \A c \in HeldAt : h[c].size = hdr[c].size
          /\ a \notin AreasAt /\ \A c \in AreasAt : h[c] = hdr[c]
      BY <2>1, <2>2, <2>4, <2>5, <3>2
    <3>4. /\ Types' /\ FreeLinked' /\ UsedLinked' /\ MmapLinked'
          /\ \A k \in Bins : InList(hdr', bin'[k]) = InList(h, b2[k])
          /\ \A c \in DOMAIN h : hdr'[c].size = h[c].size
          /\ HeldChunks(held', hdr') =
                HeldChunks(held, hdr) \cup {[addr |-> a, size |-> h[a].size]}
          /\ \A c \in AreasAt : c \in DOMAIN hdr' /\ hdr'[c] = hdr[c]
      BY <3>1, <3>3, SMTT(60), GivenKeeps
    <3> QED
      BY <3>2, <3>4
  <2>7. H!HeldInv' /\ H!NormalAllocate(bytes)
    <3> DEFINE pop == [addr |-> a, size |-> hdr[a].size]
    <3>1. BinChunks(bin', hdr') = [BinChunks(bin, hdr) EXCEPT ![i] = @ \ {pop}]
      <4>1. \A k \in Bins : InList(hdr', bin'[k]) =
               IF k = i THEN InList(hdr, bin[i]) \ {a} ELSE InList(hdr, bin[k])
        BY <1>8, <2>6 DEF BinNow
      <4>2. \A k \in Bins : \A c \in InList(hdr, bin[k]) :
               hdr'[c].size = hdr[c].size
        BY <1>6, <2>3, <2>6 DEF FreeNodesSound
      <4>3. NodesOf(hdr', bin'[i]) =
               NodesOf(hdr, bin[i]) \ {[addr |-> c, size |-> hdr[c].size] : c \in {a}}
        <5>1. PICK g, y, x, A : g = hdr' /\ y = bin'[i] /\ x = bin[i] /\ A = {a}
          OBVIOUS
        <5>2. /\ InList(g, y) = InList(hdr, x) \ A
              /\ \A c \in InList(hdr, x) : g[c].size = hdr[c].size
          BY <4>1, <4>2, <5>1
        <5>3. NodesOf(g, y) = NodesOf(hdr, x)
                              \ {[addr |-> c, size |-> hdr[c].size] : c \in A}
          BY <5>2, NodesLess
        <5> QED
          BY <5>1, <5>3
      <4>4. NodesOf(hdr', bin'[i]) = NodesOf(hdr, bin[i]) \ {pop}
        BY <4>3
      <4>5. \A k \in Bins \ {i} : NodesOf(hdr', bin'[k]) = NodesOf(hdr, bin[k])
        BY <4>1, <4>2 DEF NodesOf
      <4> HIDE DEF pop
      <4> QED
        BY <4>4, <4>5 DEF BinChunks
    <3>2. HeldChunks(held', hdr') = HeldChunks(held, hdr) \cup {pop}
      BY <2>5, <2>6
    <3>3. pop \in BinChunks(bin, hdr)[i]
          /\ \A d \in BinChunks(bin, hdr)[i] : pop.addr <= d.addr
      BY <1>8 DEF BinChunks, NodesOf
    <3>4. H!IsProperBin(i, H!RequireByte(bytes)) /\ i \in H!Bins
          /\ merge_index = H!None
      BY <1>1, Constants DEF HasBin, Ready, Sets!IsProperBin, Sets!RequireByte,
         H!IsProperBin, H!RequireByte, Sets!None, H!None
    <3>5. H!Give(pop.addr, bytes)
      BY <2>2 DEF Give, H!Give
    <3> HIDE DEF pop
    <3>6. H!NormalAllocate(bytes)
      BY <1>1, <2>2, <3>1, <3>2, <3>3, <3>4, <3>5
      DEF H!NormalAllocate, H!Ready, H!mmapVars
    <3>7. H!Next
      BY <3>6 DEF H!Next, H!Malloc
    <3> QED
      BY <3>6, <3>7, HeapStep DEF Inv
  <2>8. AreasStay
    BY <2>2, <2>6 DEF AreasStay
  <2> QED
    BY <2>2, <2>6, <2>7, <2>8 DEF Inv
<1> QED
  BY <1>9, <1>10


\* split_to_index(): each bin from i on has got a part of the heap, and bin i
\* what is left at its start.
HeapIsCut(h, m, i) ==
    /\ BinsLinked(m.bin, m.hdr)
    /\ \A k \in Bins : InList(m.hdr, m.bin[k]) =
          (IF k >= i THEN {Bytes[k]} ELSE {}) \cup (IF k = i THEN {0} ELSE {})
    /\ DOMAIN h \subseteq DOMAIN m.hdr
    /\ \A k \in Bins : k >= i => /\ Bytes[k] \in DOMAIN m.hdr
                                 /\ m.hdr[Bytes[k]].size = Bytes[k]
    /\ 0 \in DOMAIN m.hdr /\ m.hdr[0].size = Bytes[i]
    /\ \A c \in DOMAIN h : c >= HEAP => m.hdr[c] = h[c]

LEMMA HeapCut ==
    ASSUME NEW h, IsHeaders(h), NEW i \in Bins, NEW m,
           m = InBin(Split([bin |-> [k \in Bins |-> NULL], hdr |-> h],
                           0, NBins - 1, i), i, 0, Bytes[i])
    PROVE  HeapIsCut(h, m, i)
<1> DEFINE s == NBins - 1
<1>1. /\ s \in Bins /\ i <= s /\ i \in Int
      /\ \A k \in Bins : k \in Int /\ (k \in i .. s <=> k >= i)
      /\ \A k \in i .. s : k \in Bins
      /\ \A k \in Bins : Bytes[k] \in Nat /\ Bytes[k] > 0 /\ 0 + Bytes[k] = Bytes[k]
      /\ Bytes[i] \in Int
  BY BinSizes
<1>2. PICK b : b = [k \in Bins |-> NULL]
  OBVIOUS
<1>3. PICK m0 : m0 = [bin |-> b, hdr |-> h]
  OBVIOUS
<1>4. /\ BinsLinked(b, h)
      /\ \A k \in Bins : InList(h, b[k]) = {}
  <2>1. FreeList(h, NULL) /\ InList(h, NULL) = {}
    BY EmptyList, NullIsEnd DEF FreeList
  <2> QED
    BY <1>2, <2>1 DEF BinsLinked
<1>5. m0.bin = b /\ m0.hdr = h
  BY <1>3
<1> HIDE DEF s
<1>6. PICK m1 : m1 = Split(m0, 0, s, i)
  OBVIOUS
<1>7. WasCut(b, h, m1, 0, i, s)
  <2>1. /\ BinsLinked(m0.bin, m0.hdr)
        /\ \A j \in i .. s : \A k \in Bins :
              0 + Bytes[j] \notin InList(m0.hdr, m0.bin[k])
        /\ 0 \in Nat
    BY <1>4, <1>5
  <2>2. WasCut(m0.bin, m0.hdr, Split(m0, 0, s, i), 0, i, s)
    BY <1>1, <2>1, SplitIs
  <2> QED
    BY <1>5, <1>6, <2>2
<1>8. /\ BinsLinked(m1.bin, m1.hdr)
      /\ \A k \in Bins : InList(m1.hdr, m1.bin[k]) =
                            IF k >= i THEN {Bytes[k]} ELSE {}
      /\ DOMAIN m1.hdr = DOMAIN h \cup Parts(0, i, s)
      /\ \A k \in Bins : k >= i => m1.hdr[Bytes[k]].size = Bytes[k]
      /\ \A c \in DOMAIN h \ Parts(0, i, s) : m1.hdr[c] = h[c]
  <2>1. \A k \in Bins : InList(m1.hdr, m1.bin[k]) =
                          IF k \in i .. s THEN InList(h, b[k]) \cup {0 + Bytes[k]}
                          ELSE InList(h, b[k])
    BY <1>7 DEF WasCut
  <2>2. \A k \in Bins : InList(m1.hdr, m1.bin[k]) =
                           IF k >= i THEN {Bytes[k]} ELSE {}
    BY <1>1, <1>4, <2>1
  <2>3. \A k \in i .. s : m1.hdr[0 + Bytes[k]].size = Bytes[k]
    BY <1>7 DEF WasCut
  <2>4. \A k \in Bins : k >= i => m1.hdr[Bytes[k]].size = Bytes[k]
    BY <1>1, <2>3
  <2>5. \A c \in DOMAIN h \ Parts(0, i, s) :
           (\A k \in Bins : c \notin InList(h, b[k])) => m1.hdr[c] = h[c]
    BY <1>7 DEF WasCut
  <2> QED
    BY <1>4, <1>7, <2>2, <2>4, <2>5 DEF WasCut
<1>9. /\ \A c : c \in Parts(0, i, s) <=> \E k \in Bins : k >= i /\ c = Bytes[k]
      /\ \A k \in Bins : k >= i => Bytes[k] \in Parts(0, i, s)
  BY <1>1 DEF Parts
<1>10. \A k \in Bins : 0 \notin InList(m1.hdr, m1.bin[k])
  <2> SUFFICES ASSUME NEW k \in Bins PROVE 0 \notin InList(m1.hdr, m1.bin[k])
    OBVIOUS
  <2>1. InList(m1.hdr, m1.bin[k]) = IF k >= i THEN {Bytes[k]} ELSE {}
    BY <1>8
  <2> QED
    BY <1>1, <2>1
<1>11. m = InBin(m1, i, 0, Bytes[i])
  BY <1>2, <1>3, <1>6 DEF s
<1>12. Added(m1.bin, m1.hdr, m, i, 0, Bytes[i])
  <2>1. 0 \in Nat
    OBVIOUS
  <2> QED
    BY <1>1, <1>8, <1>10, <1>11, <2>1, InBinIs
<1>13. /\ BinsLinked(m.bin, m.hdr)
       /\ \A k \in Bins : InList(m.hdr, m.bin[k]) =
                             IF k = i THEN InList(m1.hdr, m1.bin[i]) \cup {0}
                             ELSE InList(m1.hdr, m1.bin[k])
       /\ DOMAIN m.hdr = DOMAIN m1.hdr \cup {0}
       /\ m.hdr[0].size = Bytes[i]
  BY <1>12 DEF Added, BinNow
<1>14. \A c \in DOMAIN m1.hdr \ {0} :
          /\ m.hdr[c].size = m1.hdr[c].size
          /\ c \notin InList(m1.hdr, m1.bin[i]) => m.hdr[c] = m1.hdr[c]
  BY <1>12 DEF Added
<1>15. \A k \in Bins : InList(m.hdr, m.bin[k]) =
                          (IF k >= i THEN {Bytes[k]} ELSE {}) \cup
                          (IF k = i THEN {0} ELSE {})
  BY <1>1, <1>8, <1>13
<1>16. \A k \in Bins : k >= i => /\ Bytes[k] \in DOMAIN m.hdr
                                 /\ m.hdr[Bytes[k]].size = Bytes[k]
  <2> SUFFICES ASSUME NEW k \in Bins, k >= i
               PROVE  /\ Bytes[k] \in DOMAIN m.hdr
                      /\ m.hdr[Bytes[k]].size = Bytes[k]
    OBVIOUS
  <2>1. Bytes[k] \in DOMAIN m1.hdr \ {0} /\ m1.hdr[Bytes[k]].size = Bytes[k]
    <3>1. Bytes[k] \in Parts(0, i, s)
      BY <1>9
    <3>2. m1.hdr[Bytes[k]].size = Bytes[k]
      BY <1>8
    <3> QED
      BY <1>1, <1>8, <3>1, <3>2
  <2> QED
    BY <1>13, <1>14, <2>1
<1>17. \A c \in DOMAIN h : c >= HEAP => m.hdr[c] = h[c]
  <2> SUFFICES ASSUME NEW c \in DOMAIN h, c >= HEAP PROVE m.hdr[c] = h[c]
    OBVIOUS
  <2>1. c # 0 /\ \A k \in Bins : c # Bytes[k]
    <3>1. c \in Nat
      BY DEF IsHeaders
    <3> QED
      BY <1>1, <3>1, Constants
  <2>2. c \notin Parts(0, i, s)
    BY <1>9, <2>1
  <2>3. c \notin InList(m1.hdr, m1.bin[i])
    BY <1>8, <2>1
  <2> QED
    BY <1>8, <1>14, <2>1, <2>2, <2>3
<1> QED
  BY <1>8, <1>13, <1>15, <1>16, <1>17 DEF HeapIsCut

LEMMA FirstAllocateKeeps ==
    ASSUME Inv, NEW bytes \in Requests, FirstAllocate(bytes)
    PROVE  /\ Inv'
           /\ written = {} => /\ H!FirstAllocate(bytes) /\ AreasStay
                              /\ mmap_alloc_list' = NULL
<1> DEFINE Cut(k) == InBin(Split([bin |-> [l \in Bins |-> NULL], hdr |-> hdr],
                                 0, NBins - 1, k), k, 0, Bytes[k])
<1>1. PICK i \in Bins : HasBin(bytes, i) /\ ~first_time
                        /\ NormalAllocate(Cut(i), i, bytes)
  BY DEF FirstAllocate
<1>2. PICK m : m = Cut(i)
  OBVIOUS
<1>3. IsHeaders(hdr)
  BY DEF Inv, FreeLinked, BinsLinked
<1>4. /\ BinsLinked(m.bin, m.hdr)
      /\ \A k \in Bins : InList(m.hdr, m.bin[k]) =
            (IF k >= i THEN {Bytes[k]} ELSE {}) \cup
            (IF k = i THEN {0} ELSE {})
      /\ DOMAIN hdr \subseteq DOMAIN m.hdr
      /\ \A k \in Bins : k >= i => /\ Bytes[k] \in DOMAIN m.hdr
                                   /\ m.hdr[Bytes[k]].size = Bytes[k]
      /\ 0 \in DOMAIN m.hdr /\ m.hdr[0].size = Bytes[i]
      /\ \A c \in DOMAIN hdr : c >= HEAP => m.hdr[c] = hdr[c]
  <2>1. HeapIsCut(hdr, m, i)
    BY <1>2, <1>3, HeapCut
  <2> QED
    BY <2>1 DEF HeapIsCut
<1>5. NormalAllocate(m, i, bytes)
  BY <1>1, <1>2
<1> HIDE DEF Cut
<1>6. HeldAt = {}
  <2>1. HeldChunks(held, hdr) = {}
    BY <1>1 DEF Inv, H!HeldInv, H!HeapInv, H!HeapNotTaken
  <2> QED
    BY <2>1 DEF HeldChunks, HeldAt
<1>7. PICK end \in Ends : \E u :
              /\ written = {} => end = NULL
              /\ IsChain(hdr, allocated_heap, u, end) /\ Ordered(u, Offset)
              /\ ToSet(u) = InList(hdr, allocated_heap)
              /\ ToSet(u) \subseteq HeldAt
  BY UsedList
<1>8. PICK u :
              /\ written = {} => end = NULL
              /\ IsChain(hdr, allocated_heap, u, end) /\ Ordered(u, Offset)
              /\ ToSet(u) = InList(hdr, allocated_heap)
              /\ ToSet(u) \subseteq HeldAt
  BY <1>7
<1>9. IsChain(m.hdr, allocated_heap, u, end) /\ ToSet(u) = {}
  <2>1. \A c \in ToSet(u) : c \in DOMAIN m.hdr /\ m.hdr[c] = hdr[c]
    BY <1>6, <1>8
  <2> QED
    BY <1>3, <1>6, <1>8, <2>1, ChainKept
<1>10. PICK a, popped, used, b2 :
        /\ a = m.bin[i] /\ popped = PopNode(a, m.hdr)
        /\ used = InsertSorted(allocated_heap, a, popped.hdr)
        /\ b2 = [m.bin EXCEPT ![i] = popped.head]
  OBVIOUS
<1>11. IF popped.wild \/ used.wild THEN Crash("wild pointer")
       ELSE /\ bin' = b2
            /\ allocated_heap' = used.head
            /\ hdr' = used.hdr
            /\ Give(a, bytes)
            /\ first_time' = TRUE
            /\ mmap_alloc_list' = IF first_time THEN mmap_alloc_list ELSE NULL
            /\ UNCHANGED <<merge_index, mapped, held_mmap, ownVars, fault>>
  BY <1>5, <1>10 DEF NormalAllocate
<1>12. a # NULL
  <2>1. SortedList(m.hdr, m.bin[i], Offset, NULL) /\ IsHeaders(m.hdr)
    BY <1>4 DEF BinsLinked, FreeList
  <2>2. m.bin[i] = NULL <=> InList(m.hdr, m.bin[i]) = {}
    BY <2>1, NullIsEnd, ListNodes
  <2> QED
    BY <1>4, <1>10, <2>2
<1>13. /\ ~popped.wild
       /\ a \in InList(m.hdr, m.bin[i])
       /\ \A c \in InList(m.hdr, m.bin[i]) : a <= c
       /\ BinsLinked(b2, popped.hdr)
       /\ BinNow(m.bin, m.hdr, b2, popped.hdr, i, InList(m.hdr, m.bin[i]) \ {a})
       /\ Kept(m.hdr, popped.hdr, InList(m.hdr, m.bin[i]))
       /\ \/ end = WILD /\ used.wild
          \/ InUse(b2, popped.hdr, used, a, u, end)
  <2>1. \A k \in Bins : ToSet(u) \cap InList(m.hdr, m.bin[k]) = {}
    BY <1>9
  <2>2. PICK b, h : b = m.bin /\ h = m.hdr
    OBVIOUS
  <2>3. /\ BinsLinked(b, h) /\ b[i] # NULL
        /\ IsChain(h, allocated_heap, u, end) /\ Ordered(u, Offset)
        /\ \A k \in Bins : ToSet(u) \cap InList(h, b[k]) = {}
        /\ popped = PopNode(b[i], h)
        /\ used = InsertSorted(allocated_heap, b[i], popped.hdr)
        /\ b2 = [b EXCEPT ![i] = popped.head]
    BY <1>4, <1>8, <1>9, <1>10, <1>12, <2>1, <2>2
  <2>4. /\ ~popped.wild
        /\ b[i] \in InList(h, b[i])
        /\ \A c \in InList(h, b[i]) : b[i] <= c
        /\ BinsLinked(b2, popped.hdr)
        /\ BinNow(b, h, b2, popped.hdr, i, InList(h, b[i]) \ {b[i]})
        /\ Kept(h, popped.hdr, InList(h, b[i]))
        /\ \/ end = WILD /\ used.wild
           \/ InUse(b2, popped.hdr, used, b[i], u, end)
    BY <2>3, PopIntoUse
  <2> QED
    BY <1>10, <2>2, <2>4
<1>14. \A k \in Bins : k \in Int /\ Bytes[k] \in Nat /\ Bytes[k] > 0
  BY BinSizes
<1>15. a = 0
  BY <1>4, <1>13, <1>14
<1>16. CASE used.wild
  <2>1. Crash("wild pointer")
    BY <1>11, <1>16
  <2>2. written # {}
    BY <1>8, <1>13, <1>16, EndsDiffer DEF InUse
  <2> QED
    BY <2>1, <2>2, CrashKeeps
<1>17. CASE ~used.wild
  <2>1. InUse(b2, popped.hdr, used, 0, u, end)
    BY <1>13, <1>15, <1>17
  <2>2. /\ bin' = b2 /\ allocated_heap' = used.head /\ hdr' = used.hdr
        /\ Give(0, bytes) /\ first_time' = TRUE
        /\ mmap_alloc_list' = NULL
        /\ UNCHANGED <<merge_index, mapped, held_mmap, ownVars, fault>>
    BY <1>1, <1>11, <1>13, <1>15, <1>17
  <2>3. \A k \in Bins : InList(popped.hdr, b2[k]) =
                           IF k >= i THEN {Bytes[k]} ELSE {}
    <3>1. \A k \in Bins : InList(popped.hdr, b2[k]) =
             IF k = i THEN InList(m.hdr, m.bin[i]) \ {0} ELSE InList(m.hdr, m.bin[k])
      BY <1>13, <1>15 DEF BinNow
    <3> QED
      <4> SUFFICES ASSUME NEW k \in Bins
                   PROVE  InList(popped.hdr, b2[k]) =
                             IF k >= i THEN {Bytes[k]} ELSE {}
        OBVIOUS
      <4>1. InList(m.hdr, m.bin[k]) = (IF k >= i THEN {Bytes[k]} ELSE {}) \cup
                                      (IF k = i THEN {0} ELSE {})
        BY <1>4
      <4>2. k = i => k >= i
        BY <1>14
      <4>3. Bytes[k] # 0
        BY <1>14
      <4> QED
        BY <3>1, <4>1, <4>2, <4>3
  <2>4. /\ DOMAIN popped.hdr = DOMAIN m.hdr
        /\ \A c \in DOMAIN m.hdr :
              /\ popped.hdr[c].size = m.hdr[c].size
              /\ c \notin InList(m.hdr, m.bin[i]) => popped.hdr[c] = m.hdr[c]
    BY <1>13 DEF Kept
  <2>5. \A c \in AreasAt : /\ c \in DOMAIN hdr /\ c >= HEAP /\ c # 0
                           /\ c \notin InList(m.hdr, m.bin[i])
    <3> SUFFICES ASSUME NEW c \in AreasAt
                 PROVE  /\ c \in DOMAIN hdr /\ c >= HEAP /\ c # 0
                        /\ c \notin InList(m.hdr, m.bin[i])
      OBVIOUS
    <3>1. c \in DOMAIN hdr /\ c \in Nat /\ c \in MmapAddrs
      BY <1>3 DEF Inv, Types, IsHeaders
    <3>2. c >= HEAP
      BY <3>1, ApartAssumption DEF HEAP
    <3>3. /\ HEAP \in Nat /\ 2 * Bytes[i] <= HEAP
          /\ Bytes[i] \in Nat /\ Bytes[i] > 0 /\ i >= i
      BY <1>14, Constants
    <3>4. InList(m.hdr, m.bin[i]) = {Bytes[i]} \cup {0}
      BY <1>4, <3>3
    <3> QED
      BY <3>1, <3>2, <3>3, <3>4
  <2>6. /\ 0 \in DOMAIN popped.hdr /\ 0 \notin AreasAt
        /\ HeldAt \cup AreasAt \subseteq DOMAIN popped.hdr
        /\ \A c \in HeldAt : popped.hdr[c].size = hdr[c].size
        /\ \A c \in AreasAt : popped.hdr[c] = hdr[c]
        /\ popped.hdr[0].size = Bytes[i]
    BY <1>4, <1>6, <2>4, <2>5
  <2>7. /\ Types' /\ FreeLinked' /\ UsedLinked' /\ MmapLinked'
        /\ \A k \in Bins : InList(hdr', bin'[k]) = InList(popped.hdr, b2[k])
        /\ \A c \in DOMAIN popped.hdr : hdr'[c].size = popped.hdr[c].size
        /\ HeldChunks(held', hdr') =
              HeldChunks(held, hdr) \cup {[addr |-> 0, size |-> popped.hdr[0].size]}
        /\ \A c \in AreasAt : c \in DOMAIN hdr' /\ hdr'[c] = hdr[c]
    <3>1. /\ UNCHANGED <<mapped, held_mmap, ownVars>>
          /\ mmap_alloc_list' \in {mmap_alloc_list, NULL}
          /\ bin' = b2 /\ allocated_heap' = used.head /\ hdr' = used.hdr
          /\ written = {} => end = NULL
          /\ ToSet(u) = InList(hdr, allocated_heap)
          /\ end \in Ends /\ 0 \in Nat
      BY <1>8, <2>2
    <3>2. PICK h, c0 : h = popped.hdr /\ c0 = 0
      OBVIOUS
    <3>3. /\ InUse(b2, h, used, c0, u, end) /\ Give(c0, bytes)
          /\ c0 \in Nat /\ c0 \notin AreasAt
          /\ c0 \in DOMAIN h /\ HeldAt \cup AreasAt \subseteq DOMAIN h
          /\ \A c \in HeldAt : h[c].size = hdr[c].size
          /\ \A c \in AreasAt : h[c] = hdr[c]
      BY <2>1, <2>2, <2>6, <3>2
    <3>4. /\ Types' /\ FreeLinked' /\ UsedLinked' /\ MmapLinked'
          /\ \A k \in Bins : InList(hdr', bin'[k]) = InList(h, b2[k])
          /\ \A c \in DOMAIN h : hdr'[c].size = h[c].size
          /\ HeldChunks(held', hdr') =
                HeldChunks(held, hdr) \cup {[addr |-> c0, size |-> h[c0].size]}
          /\ \A c \in AreasAt : c \in DOMAIN hdr' /\ hdr'[c] = hdr[c]
      BY <3>1, <3>3, GivenKeeps
    <3> QED
      BY <3>2, <3>4
  <2>8. H!HeldInv' /\ H!FirstAllocate(bytes)
    <3>1. BinChunks(bin', hdr') =
             [k \in Bins |-> IF k >= i THEN {[addr |-> Bytes[k], size |-> Bytes[k]]}
                                       ELSE {}]
      <4>1. \A k \in Bins : NodesOf(hdr', bin'[k]) =
               IF k >= i THEN {[addr |-> Bytes[k], size |-> Bytes[k]]} ELSE {}
        <5> SUFFICES ASSUME NEW k \in Bins
                     PROVE  NodesOf(hdr', bin'[k]) =
                               IF k >= i THEN {[addr |-> Bytes[k], size |-> Bytes[k]]}
                               ELSE {}
          OBVIOUS
        <5>1. InList(hdr', bin'[k]) = IF k >= i THEN {Bytes[k]} ELSE {}
          BY <2>3, <2>7
        <5>2. k >= i => hdr'[Bytes[k]].size = Bytes[k]
          BY <1>4, <2>4, <2>7
        <5> QED
          BY <5>1, <5>2 DEF NodesOf
      <4> QED
        BY <4>1 DEF BinChunks
    <3>2. HeldChunks(held', hdr') =
             HeldChunks(held, hdr) \cup {[addr |-> 0, size |-> Bytes[i]]}
      BY <2>6, <2>7
    <3>3. H!IsProperBin(i, H!RequireByte(bytes)) /\ i \in H!Bins
          /\ merge_index = H!None /\ H!Bins = Bins
      BY <1>1, Constants DEF HasBin, Ready, Sets!IsProperBin, Sets!RequireByte,
         H!IsProperBin, H!RequireByte, Sets!None, H!None
    <3>4. H!Give(0, bytes)
      BY <2>2 DEF Give, H!Give
    <3>5. H!FirstAllocate(bytes)
      BY <1>1, <2>2, <3>1, <3>2, <3>3, <3>4
      DEF H!FirstAllocate, H!Ready, H!mmapVars, H!MkChunk
    <3>6. H!Next
      BY <3>5 DEF H!Next, H!Malloc
    <3> QED
      BY <3>5, <3>6, HeapStep DEF Inv
  <2>9. AreasStay
    BY <2>2, <2>7 DEF AreasStay
  <2> QED
    BY <2>2, <2>7, <2>8, <2>9 DEF Inv
<1> QED
  BY <1>16, <1>17

\* Inside a free chunk no other begins, nor an area.
LEMMA PartsFresh ==
    ASSUME Inv, NEW s \in Bins, NEW r \in InList(hdr, bin[s]),
           NEW j \in Bins, j < s
    PROVE  /\ r + Bytes[j] \notin FreeAt \cup HeldAt \cup AreasAt
           /\ r + Bytes[j] # r
<1> DEFINE a == r + Bytes[j]
<1>1. FreeNodesSound /\ HeldNodesSound /\ NodesApart
  BY NodeFacts DEF Inv
<1>2. /\ r \in Nat /\ hdr[r].size = Bytes[s] /\ r + Bytes[s] <= HEAP
      /\ r \in FreeAt
  BY <1>1 DEF FreeNodesSound, FreeAt
<1>3. /\ Bytes[j] \in Nat /\ Bytes[j] > 0 /\ Bytes[s] \in Nat
      /\ 2 * Bytes[j] <= Bytes[s] /\ HEAP \in Nat
  BY BinSizes, Constants
<1>4. a \in Nat /\ a < r + Bytes[s] /\ r < a /\ a # r /\ a < HEAP
  BY <1>2, <1>3
<1>5. a \notin FreeAt \cup HeldAt
  <2> SUFFICES ASSUME a \in FreeAt \cup HeldAt PROVE FALSE
    OBVIOUS
  <2>1. r + hdr[r].size <= a \/ a + hdr[a].size <= r
    BY <1>1, <1>2, <1>4 DEF NodesApart
  <2>2. hdr[a].size \in Nat
    <3>1. CASE a \in HeldAt
      BY <1>1, <3>1, BinSizes DEF HeldNodesSound
    <3>2. CASE a \in FreeAt
      BY <1>1, <3>2, BinSizes DEF FreeNodesSound, FreeAt
    <3> QED
      BY <3>1, <3>2
  <2> HIDE DEF a
  <2> QED
    BY <1>2, <1>3, <1>4, <2>1, <2>2
<1>6. a \notin AreasAt
  <2> SUFFICES ASSUME a \in AreasAt PROVE FALSE
    OBVIOUS
  <2>1. a \in MmapAddrs
    BY DEF Inv, Types
  <2>2. a >= HEAP
    BY <2>1, ApartAssumption DEF HEAP
  <2> HIDE DEF a
  <2> QED
    BY <1>3, <1>4, <2>2
<1> QED
  BY <1>4, <1>5, <1>6

LEMMA AllocateFromLargerKeeps ==
    ASSUME Inv, NEW bytes \in Requests, AllocateFromLarger(bytes)
    PROVE  /\ Inv'
           /\ written = {} => /\ H!SplitToAllocate(bytes) /\ AreasStay
                              /\ UNCHANGED mmap_alloc_list
<1>0. PICK i \in Bins : \E s \in i + 1 .. NBins - 1 :
          /\ HasBin(bytes, i) /\ first_time
          /\ bin[i] = NULL /\ bin[s] # NULL
          /\ \A k \in i + 1 .. NBins - 1 : bin[k] # NULL => bin[s] <= bin[k]
          /\ SplitToAllocate(s, i, bytes)
  BY DEF AllocateFromLarger
<1>1. PICK s \in i + 1 .. NBins - 1 :
          /\ HasBin(bytes, i) /\ first_time
          /\ bin[i] = NULL /\ bin[s] # NULL
          /\ \A k \in i + 1 .. NBins - 1 : bin[k] # NULL => bin[s] <= bin[k]
          /\ SplitToAllocate(s, i, bytes)
  BY <1>0
<1>2. /\ s \in Bins /\ s - 1 \in Bins /\ i <= s - 1 /\ i \in Int /\ s \in Int
      /\ \A k \in Bins : k \in Int /\ Bytes[k] \in Nat /\ Bytes[k] > 0
      /\ \A k \in i .. s - 1 : k \in Bins /\ k < s
      /\ \A k \in Bins : k \in i .. s - 1 <=> i <= k /\ k < s
      /\ \A k \in i + 1 .. NBins - 1 : k \in Bins
      /\ i \in i .. s - 1 /\ s \notin i .. s - 1 /\ i # s
  BY BinSizes
<1>3. PICK r, deleted, b1 : /\ r = bin[s]
                            /\ deleted = DeleteNode(bin[s], r, hdr)
                            /\ b1 = [bin EXCEPT ![s] = deleted.head]
  OBVIOUS
<1>4. PICK m0, d : m0 = [bin |-> b1, hdr |-> d] /\ d = deleted.hdr
  OBVIOUS
<1>5. PICK m : m = Split(m0, r, s - 1, i)
  OBVIOUS
<1>6. PICK n : n = NewNode(m.hdr, r, Bytes[i])
  OBVIOUS
<1>7. PICK used : used = InsertSorted(allocated_heap, r, n)
  OBVIOUS
<1>8. IF deleted.wild \/ used.wild THEN Crash("wild pointer")
      ELSE /\ bin' = m.bin
           /\ allocated_heap' = used.head
           /\ hdr' = used.hdr
           /\ Give(r, bytes)
           /\ UNCHANGED <<first_time, merge_index, mmapVars, ownVars, fault>>
  BY <1>1, <1>3, <1>4, <1>5, <1>6, <1>7 DEF SplitToAllocate
<1>9. BinsLinked(bin, hdr) /\ FreeNodesSound /\ HeldNodesSound
  BY NodeFacts DEF Inv, FreeLinked
<1>10. /\ ~deleted.wild
       /\ r \in InList(hdr, bin[s])
       /\ BinsLinked(b1, d)
       /\ BinNow(bin, hdr, b1, d, s, InList(hdr, bin[s]) \ {r})
       /\ Kept(hdr, d, InList(hdr, bin[s]))
  BY <1>1, <1>2, <1>3, <1>4, <1>9, TakeHead
<1>11. /\ \A k \in Bins : InList(d, b1[k]) = InList(hdr, bin[k]) \ {r}
       /\ \A k \in Bins : r \notin InList(d, b1[k])
       /\ DOMAIN d = DOMAIN hdr
       /\ \A c \in DOMAIN hdr : /\ d[c].size = hdr[c].size
                                /\ c \notin FreeAt => d[c] = hdr[c]
  <2>1. \A k \in Bins : InList(d, b1[k]) = InList(hdr, bin[k]) \ {r}
    <3> SUFFICES ASSUME NEW k \in Bins
                 PROVE  InList(d, b1[k]) = InList(hdr, bin[k]) \ {r}
      OBVIOUS
    <3>1. k # s => r \notin InList(hdr, bin[k])
      BY <1>2, <1>9, <1>10 DEF BinsLinked
    <3>2. InList(d, b1[k]) = IF k = s THEN InList(hdr, bin[s]) \ {r}
                             ELSE InList(hdr, bin[k])
      BY <1>10 DEF BinNow
    <3> QED
      BY <3>1, <3>2
  <2>2. \A c \in InList(hdr, bin[s]) : c \in FreeAt
    BY <1>2 DEF FreeAt
  <2> QED
    BY <1>10, <2>1, <2>2 DEF Kept
<1>12. r \in Nat /\ r \in DOMAIN hdr /\ r < HEAP /\ r \in FreeAt /\ r \notin HeldAt
  BY <1>2, <1>9, <1>10 DEF FreeNodesSound, FreeAt
<1>13. \A k \in i .. s - 1 : /\ r + Bytes[k] \notin FreeAt \cup HeldAt \cup AreasAt
                             /\ r + Bytes[k] # r
  BY <1>2, <1>10, PartsFresh
<1>14. WasCut(b1, d, m, r, i, s - 1)
  <2>1. m0.bin = b1 /\ m0.hdr = d
    BY <1>4
  <2>2. \A j \in i .. s - 1 : \A k \in Bins :
           r + Bytes[j] \notin InList(m0.hdr, m0.bin[k])
    BY <1>11, <1>13, <2>1 DEF FreeAt
  <2>3. BinsLinked(m0.bin, m0.hdr)
    BY <1>10, <2>1
  <2>4. WasCut(m0.bin, m0.hdr, Split(m0, r, s - 1, i), r, i, s - 1)
    BY <1>2, <1>12, <2>2, <2>3, SplitIs
  <2> QED
    BY <1>5, <2>1, <2>4
<1>15. /\ BinsLinked(m.bin, m.hdr)
       /\ \A k \in Bins : InList(m.hdr, m.bin[k]) =
                             IF k \in i .. s - 1
                             THEN (InList(hdr, bin[k]) \ {r}) \cup {r + Bytes[k]}
                             ELSE InList(hdr, bin[k]) \ {r}
       /\ DOMAIN m.hdr = DOMAIN hdr \cup Parts(r, i, s - 1)
       /\ \A k \in i .. s - 1 : m.hdr[r + Bytes[k]].size = Bytes[k]
  <2>1. \A k \in Bins : InList(m.hdr, m.bin[k]) =
                           IF k \in i .. s - 1
                           THEN InList(d, b1[k]) \cup {r + Bytes[k]}
                           ELSE InList(d, b1[k])
    BY <1>14 DEF WasCut
  <2> QED
    BY <1>11, <1>14, <2>1 DEF WasCut
<1>16. /\ \A c \in Parts(r, i, s - 1) : c \notin FreeAt \cup HeldAt \cup AreasAt
                                        /\ c # r
       /\ \A k \in i .. s - 1 : r + Bytes[k] \in Parts(r, i, s - 1)
  BY <1>13 DEF Parts
<1>17. \A c \in DOMAIN hdr \ Parts(r, i, s - 1) :
          /\ m.hdr[c].size = hdr[c].size
          /\ c \notin FreeAt => m.hdr[c] = hdr[c]
  <2> SUFFICES ASSUME NEW c \in DOMAIN hdr \ Parts(r, i, s - 1)
               PROVE  /\ m.hdr[c].size = hdr[c].size
                      /\ c \notin FreeAt => m.hdr[c] = hdr[c]
    OBVIOUS
  <2>1. \A e \in DOMAIN d \ Parts(r, i, s - 1) :
           /\ m.hdr[e].size = d[e].size
           /\ (\A k \in Bins : e \notin InList(d, b1[k])) => m.hdr[e] = d[e]
    BY <1>14 DEF WasCut
  <2>2. /\ m.hdr[c].size = d[c].size
        /\ (\A k \in Bins : c \notin InList(d, b1[k])) => m.hdr[c] = d[c]
    BY <1>11, <2>1
  <2>3. c \notin FreeAt => \A k \in Bins : c \notin InList(d, b1[k])
    BY <1>11 DEF FreeAt
  <2> QED
    BY <1>11, <2>2, <2>3
<1>18. \A k \in Bins : r \notin InList(m.hdr, m.bin[k])
  <2> SUFFICES ASSUME NEW k \in Bins PROVE r \notin InList(m.hdr, m.bin[k])
    OBVIOUS
  <2> QED
    BY <1>13, <1>15
<1>19. /\ IsHeaders(n) /\ DOMAIN n = DOMAIN m.hdr
       /\ \A c \in DOMAIN m.hdr : c # r => n[c] = m.hdr[c]
       /\ n[r].size = Bytes[i] /\ n[r].prev = NULL /\ n[r].next = NULL
  <2>1. PICK h : h = m.hdr
    OBVIOUS
  <2>2. IsHeaders(h) /\ r \in DOMAIN h /\ Bytes[i] \in Int
    BY <1>2, <1>12, <1>15, <2>1 DEF BinsLinked
  <2>3. n = NewNode(h, r, Bytes[i])
    BY <1>6, <2>1
  <2>4. /\ IsHeaders(n) /\ DOMAIN n = DOMAIN h \cup {r}
    BY <1>12, <2>2, <2>3, NewNodeIs
  <2>5. \A c \in DOMAIN h : c # r => n[c] = h[c]
    BY <1>12, <2>2, <2>3, NewNodeIs
  <2>6. n[r].size = Bytes[i] /\ n[r].prev = NULL /\ n[r].next = NULL
    BY <2>3 DEF NewNode
  <2> QED
    BY <2>1, <2>2, <2>4, <2>5, <2>6
<1>20. /\ BinsLinked(m.bin, n)
       /\ \A k \in Bins : InList(n, m.bin[k]) = InList(m.hdr, m.bin[k])
  <2>1. PICK b, h : b = m.bin /\ h = m.hdr
    OBVIOUS
  <2>2. \A k \in Bins : \A c \in InList(h, b[k]) : c \in DOMAIN n /\ n[c] = h[c]
    <3> SUFFICES ASSUME NEW k \in Bins, NEW c \in InList(h, b[k])
                 PROVE  c \in DOMAIN n /\ n[c] = h[c]
      OBVIOUS
    <3>1. SortedList(h, b[k], Offset, NULL) /\ IsHeaders(h)
      BY <1>15, <2>1 DEF BinsLinked, FreeList
    <3>2. c \in DOMAIN h
      BY <3>1, NullIsEnd, ListNodes
    <3> QED
      BY <1>18, <1>19, <2>1, <3>2
  <2>3. BinsLinked(b, n) /\ \A k \in Bins : InList(n, b[k]) = InList(h, b[k])
    BY <1>15, <1>19, <2>1, <2>2, BinsKept
  <2> QED
    BY <2>1, <2>3
<1>21. /\ HeldAt \cup AreasAt \subseteq DOMAIN n
       /\ \A c \in HeldAt \cup AreasAt : n[c] = hdr[c] /\ c # r /\ c \notin FreeAt
  <2> SUFFICES ASSUME NEW c \in HeldAt \cup AreasAt
               PROVE  c \in DOMAIN n /\ n[c] = hdr[c] /\ c # r /\ c \notin FreeAt
    OBVIOUS
  <2>1. c \in DOMAIN hdr
    BY DEF Inv, Types
  <2>2. c \notin FreeAt
    BY <1>9, NodeFacts DEF Inv, FreeNodesSound, FreeAt
  <2>3. c \notin Parts(r, i, s - 1)
    BY <1>16
  <2>4. m.hdr[c] = hdr[c] /\ c \in DOMAIN m.hdr
    BY <1>15, <1>17, <2>1, <2>2, <2>3
  <2> QED
    BY <1>12, <1>19, <2>2, <2>4
<1>22. PICK end \in Ends : \E u :
              /\ written = {} => end = NULL
              /\ IsChain(hdr, allocated_heap, u, end) /\ Ordered(u, Offset)
              /\ ToSet(u) = InList(hdr, allocated_heap)
              /\ ToSet(u) \subseteq HeldAt
  BY UsedList
<1>23. PICK u :
              /\ written = {} => end = NULL
              /\ IsChain(hdr, allocated_heap, u, end) /\ Ordered(u, Offset)
              /\ ToSet(u) = InList(hdr, allocated_heap)
              /\ ToSet(u) \subseteq HeldAt
  BY <1>22
<1>24. (end = WILD /\ used.wild) \/ InUse(m.bin, n, used, r, u, end)
  <2>1. IsChain(n, allocated_heap, u, end)
    <3>1. \A c \in ToSet(u) : c \in DOMAIN n /\ n[c] = hdr[c]
      BY <1>21, <1>23
    <3>2. IsHeaders(hdr)
      BY <1>9 DEF BinsLinked
    <3> QED
      BY <1>19, <1>23, <3>1, <3>2, ChainKept
  <2>2. \A k \in Bins : ToSet(u) \cap InList(n, m.bin[k]) = {}
    <3> SUFFICES ASSUME NEW k \in Bins, NEW c \in ToSet(u)
                 PROVE  c \notin InList(n, m.bin[k])
      OBVIOUS
    <3>1. c \in HeldAt /\ c \notin InList(hdr, bin[k])
      BY <1>21, <1>23 DEF FreeAt
    <3>2. k \in i .. s - 1 => c # r + Bytes[k]
      BY <1>13, <3>1
    <3> QED
      BY <1>15, <1>20, <3>1, <3>2
  <2>3. PICK b : b = m.bin
    OBVIOUS
  <2>4. /\ BinsLinked(b, n) /\ r \in DOMAIN n
        /\ n[r].prev = NULL /\ n[r].next = NULL
        /\ \A k \in Bins : r \notin InList(n, b[k])
        /\ end \in Ends /\ Ordered(u, Offset) /\ r \notin ToSet(u)
        /\ \A k \in Bins : ToSet(u) \cap InList(n, b[k]) = {}
    BY <1>12, <1>15, <1>18, <1>19, <1>20, <1>21, <1>23, <2>2, <2>3
  <2>5. (end = WILD /\ used.wild) \/ InUse(b, n, used, r, u, end)
    BY <1>7, <2>1, <2>4, IntoUse
  <2> QED
    BY <2>3, <2>5
<1>25. CASE used.wild
  <2>1. Crash("wild pointer")
    BY <1>8, <1>25
  <2>2. written # {}
    BY <1>23, <1>24, <1>25, EndsDiffer DEF InUse
  <2> QED
    BY <2>1, <2>2, CrashKeeps
<1>26. CASE ~used.wild
  <2>1. InUse(m.bin, n, used, r, u, end)
    BY <1>24, <1>26
  <2>2. /\ bin' = m.bin /\ allocated_heap' = used.head /\ hdr' = used.hdr
        /\ Give(r, bytes)
        /\ UNCHANGED <<first_time, merge_index, mmapVars, ownVars, fault>>
    BY <1>8, <1>10, <1>26
  <2>3. /\ Types' /\ FreeLinked' /\ UsedLinked' /\ MmapLinked'
        /\ \A k \in Bins : InList(hdr', bin'[k]) = InList(n, m.bin[k])
        /\ \A c \in DOMAIN n : hdr'[c].size = n[c].size
        /\ HeldChunks(held', hdr') =
              HeldChunks(held, hdr) \cup {[addr |-> r, size |-> n[r].size]}
        /\ \A c \in AreasAt : c \in DOMAIN hdr' /\ hdr'[c] = hdr[c]
    <3>1. /\ UNCHANGED <<mapped, held_mmap, ownVars>>
          /\ mmap_alloc_list' \in {mmap_alloc_list, NULL}
          /\ allocated_heap' = used.head /\ hdr' = used.hdr
          /\ written = {} => end = NULL
          /\ ToSet(u) = InList(hdr, allocated_heap)
          /\ end \in Ends
      BY <1>23, <2>2 DEF mmapVars
    <3>2. PICK b : b = m.bin
      OBVIOUS
    <3>3. /\ Give(r, bytes) /\ r \in Nat
          /\ InUse(b, n, used, r, u, end) /\ bin' = b
          /\ r \notin AreasAt
          /\ r \in DOMAIN n /\ HeldAt \cup AreasAt \subseteq DOMAIN n
          /\ \A c \in HeldAt : n[c].size = hdr[c].size
          /\ \A c \in AreasAt : n[c] = hdr[c]
      BY <1>12, <1>15, <1>19, <1>21, <2>1, <2>2, <3>2
    <3>4. /\ Types' /\ FreeLinked' /\ UsedLinked' /\ MmapLinked'
          /\ \A k \in Bins : InList(hdr', bin'[k]) = InList(n, b[k])
          /\ \A c \in DOMAIN n : hdr'[c].size = n[c].size
          /\ HeldChunks(held', hdr') =
                HeldChunks(held, hdr) \cup {[addr |-> r, size |-> n[r].size]}
          /\ \A c \in AreasAt : c \in DOMAIN hdr' /\ hdr'[c] = hdr[c]
      BY <3>1, <3>3, SMTT(60), GivenKeeps
    <3> QED
      BY <3>2, <3>4
  <2>4. H!HeldInv' /\ H!SplitToAllocate(bytes)
    <3> DEFINE root == [addr |-> r, size |-> hdr[r].size]
    <3>1. BinChunks(bin', hdr') = H!SplitBins(i, s, root)
      <4>1. ASSUME NEW k \in Bins
            PROVE  NodesOf(hdr', bin'[k]) =
                      IF k = s THEN NodesOf(hdr, bin[k]) \ {root}
                      ELSE IF k \in i .. s - 1
                           THEN NodesOf(hdr, bin[k])
                                \cup {[addr |-> r + Bytes[k], size |-> Bytes[k]]}
                           ELSE NodesOf(hdr, bin[k])
        <5>1. InList(hdr', bin'[k]) = IF k \in i .. s - 1
                             THEN (InList(hdr, bin[k]) \ {r}) \cup {r + Bytes[k]}
                             ELSE InList(hdr, bin[k]) \ {r}
          BY <1>15, <1>20, <2>3
        <5>2. \A c \in InList(hdr, bin[k]) \ {r} : hdr'[c].size = hdr[c].size
          <6> SUFFICES ASSUME NEW c \in InList(hdr, bin[k]) \ {r}
                       PROVE  hdr'[c].size = hdr[c].size
            OBVIOUS
          <6>1. c \in DOMAIN hdr /\ c \in FreeAt
            BY <1>9 DEF FreeNodesSound, FreeAt
          <6>2. c \notin Parts(r, i, s - 1)
            BY <1>16, <6>1
          <6>3. m.hdr[c].size = hdr[c].size /\ c \in DOMAIN m.hdr
            BY <1>15, <1>17, <6>1, <6>2
          <6> QED
            BY <1>19, <2>3, <6>3
        <5>3. k \in i .. s - 1 => hdr'[r + Bytes[k]].size = Bytes[k]
          <6> SUFFICES ASSUME k \in i .. s - 1
                       PROVE  hdr'[r + Bytes[k]].size = Bytes[k]
            OBVIOUS
          <6>1. r + Bytes[k] \in DOMAIN m.hdr /\ r + Bytes[k] # r
                /\ m.hdr[r + Bytes[k]].size = Bytes[k]
            BY <1>13, <1>15, <1>16
          <6> QED
            BY <1>19, <2>3, <6>1
        <5>4. k # s => r \notin InList(hdr, bin[k])
          BY <1>2, <1>9, <1>10 DEF BinsLinked
        <5>5. CASE k = s
          <6>1. InList(hdr', bin'[k]) = InList(hdr, bin[k]) \ {r}
            BY <1>2, <5>1, <5>5
          <6> QED
            BY <5>2, <5>5, <6>1 DEF NodesOf
        <5>6. CASE k \in i .. s - 1
          <6>1. InList(hdr', bin'[k]) = InList(hdr, bin[k]) \cup {r + Bytes[k]}
                /\ k # s
            BY <1>2, <5>1, <5>4, <5>6
          <6>2. \A c \in InList(hdr, bin[k]) : hdr'[c].size = hdr[c].size
            BY <5>2, <5>4, <6>1
          <6>3. PICK g, y, x, a, size :
                   /\ g = hdr' /\ y = bin'[k] /\ x = bin[k] /\ a = r + Bytes[k]
                   /\ size = Bytes[k]
            OBVIOUS
          <6>4. /\ InList(g, y) = InList(hdr, x) \cup {a} /\ g[a].size = size
                /\ \A c \in InList(hdr, x) : g[c].size = hdr[c].size
            BY <5>3, <5>6, <6>1, <6>2, <6>3
          <6>5. NodesOf(g, y) = NodesOf(hdr, x) \cup {[addr |-> a, size |-> size]}
            BY <6>4 DEF NodesOf
          <6> QED
            BY <5>6, <6>1, <6>3, <6>5
        <5>7. CASE k # s /\ k \notin i .. s - 1
          <6>1. InList(hdr', bin'[k]) = InList(hdr, bin[k])
            BY <5>1, <5>4, <5>7
          <6>2. \A c \in InList(hdr, bin[k]) : hdr'[c].size = hdr[c].size
            BY <5>2, <5>4, <5>7
          <6>3. NodesOf(hdr', bin'[k]) = NodesOf(hdr, bin[k])
            BY <6>1, <6>2 DEF NodesOf
          <6> QED
            BY <5>7, <6>3
        <5> HIDE DEF root
        <5> QED
          BY <5>5, <5>6, <5>7
      <4> HIDE DEF root
      <4>2. root.addr = r
        BY DEF root
      <4>3. H!Bins = Bins
        BY Constants
      <4> QED
        BY <4>1, <4>2, <4>3 DEF BinChunks, H!SplitBins, H!MkChunk
    <3>2. HeldChunks(held', hdr') =
             HeldChunks(held, hdr) \cup {[addr |-> r, size |-> Bytes[i]]}
      BY <1>19, <2>3
    <3>3. root \in BinChunks(bin, hdr)[s] /\ root.addr = r
      BY <1>2, <1>10 DEF BinChunks, NodesOf
    <3>4. \A k \in i + 1 .. NBins - 1 : \A c \in BinChunks(bin, hdr)[k] : r <= c.addr
      <4> SUFFICES ASSUME NEW k \in i + 1 .. NBins - 1,
                          NEW c \in InList(hdr, bin[k])
                   PROVE  r <= c
        BY <1>2 DEF BinChunks, NodesOf
      <4>1. SortedList(hdr, bin[k], Offset, NULL) /\ IsHeaders(hdr) /\ k \in Bins
        BY <1>2, <1>9 DEF BinsLinked, FreeList
      <4>2. bin[k] = NULL <=> InList(hdr, bin[k]) = {}
        BY <4>1, NullIsEnd, ListNodes
      <4>3. bin[k] # NULL /\ r <= bin[k]
        BY <1>1, <1>3, <4>2
      <4>4. bin[k] <= c /\ bin[k] \in InList(hdr, bin[k])
        BY <1>9, <4>1, <4>3, TakeHead
      <4>5. c \in Nat /\ bin[k] \in Nat
        BY <1>9, <4>1, <4>4 DEF FreeNodesSound
      <4> QED
        BY <1>12, <4>3, <4>4, <4>5
    <3>5. BinChunks(bin, hdr)[i] = {}
      <4>1. IsHeaders(hdr)
        BY <1>9 DEF BinsLinked
      <4>2. InList(hdr, NULL) = {}
        BY <4>1, NullIsEnd, EmptyList
      <4> QED
        BY <1>1, <4>2 DEF BinChunks, NodesOf
    <3>6. H!IsProperBin(i, H!RequireByte(bytes)) /\ i \in H!Bins
          /\ merge_index = H!None /\ H!HEAP_INITIAL = HEAP
      BY <1>1, Constants DEF HasBin, Ready, Sets!IsProperBin, Sets!RequireByte,
         H!IsProperBin, H!RequireByte, Sets!None, H!None
    <3>7. H!Give(r, bytes)
      BY <2>2 DEF Give, H!Give
    <3> HIDE DEF root
    <3>8. H!SplitToAllocate(bytes)
      <4>1. /\ root.addr < H!HEAP_INITIAL
            /\ \A k \in i + 1 .. NBins - 1 : \A c \in BinChunks(bin, hdr)[k] :
                  root.addr <= c.addr
        BY <1>12, <3>3, <3>4, <3>6
      <4>2. HeldChunks(held', hdr') =
               HeldChunks(held, hdr) \cup {[addr |-> root.addr, size |-> Bytes[i]]}
            /\ H!Give(root.addr, bytes)
        BY <3>2, <3>3, <3>7
      <4> QED
        BY <1>1, <2>2, <3>1, <3>3, <3>5, <3>6, <4>1, <4>2
        DEF H!SplitToAllocate, H!Ready, H!mmapVars, H!MkChunk
    <3>9. H!Next
      BY <3>8 DEF H!Next, H!Malloc
    <3> QED
      BY <3>8, <3>9, HeapStep DEF Inv
  <2>5. AreasStay
    BY <2>2, <2>3 DEF AreasStay, mmapVars
  <2> QED
    BY <2>2, <2>3, <2>4, <2>5 DEF Inv, mmapVars
<1> QED
  BY <1>25, <1>26

-----------------------------------------------------------------------------
(* hw_free() on the heap                                                    *)

\* A node is found in allocated_heap only if it is a block in use, and the
\* mmap list is as it was.
LEMMA UsedFound ==
    ASSUME Inv, NEW a, NEW mlist, mlist = InMmapList(a),
           NEW list, list = DeleteNode(allocated_heap, a, mlist.hdr),
           ~mlist.wild, mlist.size = 0, ~list.wild, list.size # 0,
           NEW end \in Ends, NEW u, IsChain(hdr, allocated_heap, u, end),
           ToSet(u) \subseteq HeldAt
    PROVE  \E k \in 1 .. Len(u) :
              /\ a = u[k] /\ list.size = hdr[a].size
              /\ TakenOut(list, hdr, allocated_heap, u, k, end)
<1>1. IsHeaders(hdr)
  BY DEF Inv, FreeLinked, BinsLinked
<1>2. PICK g : g = mlist.hdr
  OBVIOUS
<1>3. list = DeleteNode(allocated_heap, a, g)
  BY <1>2
<1>4. a \notin ToSet(u) => ~IsChain(g, allocated_heap, u, end) \/ ~IsHeaders(g)
  <2> SUFFICES ASSUME a \notin ToSet(u), IsChain(g, allocated_heap, u, end),
                      IsHeaders(g)
               PROVE  FALSE
    OBVIOUS
  <2> DEFINE q == DeleteNode(allocated_heap, a, g)
  <2>1. \/ end = WILD /\ u # <<>> /\ q.wild
        \/ ~q.wild /\ q.size = 0 /\ q.head = allocated_heap /\ q.hdr = g
    BY DeleteNone
  <2> HIDE DEF q
  <2>2. list = q
    BY <1>3 DEF q
  <2> QED
    BY <2>1, <2>2
<1>5. \/ ~mlist.wild /\ mlist.size = 0 /\ mlist.head = mmap_alloc_list
         /\ mlist.hdr = hdr
      \/ /\ a \in InList(hdr, mmap_alloc_list)
         /\ Kept(hdr, mlist.hdr, InList(hdr, mmap_alloc_list))
  BY InMmapListIs
<1>6. CASE mlist.hdr = hdr
  <2>1. g = hdr
    BY <1>2, <1>6
  <2>2. a \in ToSet(u)
    BY <1>1, <1>4, <2>1
  <2>3. PICK k \in 1 .. Len(u) : a = u[k]
    <3>1. ToSet(u) = {u[j] : j \in 1 .. Len(u)}
      BY <1>1, ChainNodes DEF ToSet
    <3> QED
      BY <2>2, <3>1
  <2> DEFINE q == DeleteNode(allocated_heap, u[k], hdr)
  <2>4. \/ k = Len(u) /\ end = WILD /\ q.wild
        \/ TakenOut(q, hdr, allocated_heap, u, k, end) /\ q.size = hdr[u[k]].size
    BY <1>1, DeleteFound
  <2>5. list = q
    BY <1>3, <2>1, <2>3
  <2> HIDE DEF q
  <2> QED
    BY <2>3, <2>4, <2>5
<1>7. CASE /\ a \in InList(hdr, mmap_alloc_list)
           /\ Kept(hdr, mlist.hdr, InList(hdr, mmap_alloc_list))
  <2>1. /\ a \in AreasAt /\ InList(hdr, mmap_alloc_list) \subseteq AreasAt
        /\ \A c \in AreasAt : c \notin HeldAt
        /\ HeldAt \subseteq DOMAIN hdr
    BY <1>7, NodeFacts DEF Inv, MmapLinked, Types
  <2>2. a \notin ToSet(u)
    BY <2>1
  <2>3. IsHeaders(g) /\ \A c \in ToSet(u) : c \in DOMAIN g /\ g[c] = hdr[c]
    BY <1>2, <1>7, <2>1 DEF Kept
  <2>4. IsChain(g, allocated_heap, u, end)
    BY <1>1, <2>3, ChainKept
  <2> QED
    BY <1>4, <2>2, <2>3, <2>4
<1> QED
  BY <1>5, <1>6, <1>7

\* No list ends at the caller's data when it has written none.
LEMMA FreeNotWild ==
    ASSUME Inv, written = {}, NEW a, NEW mlist, mlist = InMmapList(a),
           NEW list, list = DeleteNode(allocated_heap, a, mlist.hdr)
    PROVE  ~mlist.wild /\ ~list.wild
<1>1. IsHeaders(hdr)
  BY DEF Inv, FreeLinked, BinsLinked
<1>2. PICK u : /\ IsChain(hdr, allocated_heap, u, NULL)
               /\ ToSet(u) \subseteq HeldAt
  BY UsedList
<1>3. PICK g : g = mlist.hdr
  OBVIOUS
<1>4. ~mlist.wild /\ (g = hdr \/ Kept(hdr, g, InList(hdr, mmap_alloc_list)))
  BY <1>3, InMmapListIs
<1>5. IsHeaders(g) /\ IsChain(g, allocated_heap, u, NULL)
  <2>1. CASE g = hdr
    BY <1>1, <1>2, <2>1
  <2>2. CASE Kept(hdr, g, InList(hdr, mmap_alloc_list))
    <3>1. /\ InList(hdr, mmap_alloc_list) \subseteq AreasAt
          /\ \A c \in AreasAt : c \notin HeldAt
          /\ HeldAt \subseteq DOMAIN hdr
      BY NodeFacts DEF Inv, MmapLinked, Types
    <3>2. IsHeaders(g) /\ \A c \in ToSet(u) : c \in DOMAIN g /\ g[c] = hdr[c]
      BY <1>2, <2>2, <3>1 DEF Kept
    <3> QED
      BY <1>1, <1>2, <3>2, NullIsEnd, ChainKept
  <2> QED
    BY <1>4, <2>1, <2>2
<1> DEFINE q == DeleteNode(allocated_heap, a, g)
<1>6. CASE a \notin ToSet(u)
  <2>1. \/ NULL = WILD /\ u # <<>> /\ q.wild
        \/ ~q.wild /\ q.size = 0 /\ q.head = allocated_heap /\ q.hdr = g
    BY <1>5, <1>6, NullIsEnd, DeleteNone
  <2> QED
    BY <1>3, <1>4, <2>1, EndsDiffer
<1>7. CASE a \in ToSet(u)
  <2>1. PICK k \in 1 .. Len(u) : a = u[k]
    BY <1>5, <1>7, ChainNodes DEF ToSet
  <2>2. \/ k = Len(u) /\ NULL = WILD /\ q.wild
        \/ TakenOut(q, g, allocated_heap, u, k, NULL) /\ q.size = g[u[k]].size
    BY <1>5, <2>1, NullIsEnd, DeleteFound
  <2> QED
    BY <1>3, <1>4, <2>2, EndsDiffer DEF TakenOut
<1> QED
  BY <1>6, <1>7

LEMMA FreeHeapKeeps ==
    ASSUME Inv, NEW mem \in Int, FreeHeap(mem)
    PROVE  /\ Inv'
           /\ H!FreeHeap(mem) /\ mem - HDR \in 0 .. HEAP - 1
           /\ AreasStay /\ UNCHANGED mmap_alloc_list
<1>1. PICK a : a = mem - HDR
  OBVIOUS
<1>2. HDR \in Nat /\ a \in Int /\ mem = a + HDR
  BY <1>1, BinSizes
<1>3. PICK mlist : mlist = InMmapList(a)
  OBVIOUS
<1>4. PICK list : list = DeleteNode(allocated_heap, a, mlist.hdr)
  OBVIOUS
<1>5. /\ Ready
      /\ ~mlist.wild /\ mlist.size = 0
      /\ ~list.wild /\ list.size # 0
      /\ \E i \in Bins :
            /\ Sets!IsProperBin(i, list.size)
            /\ LET m == InBin([bin |-> bin, hdr |-> list.hdr], i, a, list.size)
               IN  bin' = m.bin /\ hdr' = m.hdr
            /\ merge_index' = i
      /\ allocated_heap' = list.head
      /\ held' = {h \in held : h.ptr # mem}
      /\ UNCHANGED <<first_time, mmapVars, ownVars, fault>>
  BY <1>1, <1>3, <1>4 DEF FreeHeap
<1>6. PICK i \in Bins :
            /\ Sets!IsProperBin(i, list.size)
            /\ LET m == InBin([bin |-> bin, hdr |-> list.hdr], i, a, list.size)
               IN  bin' = m.bin /\ hdr' = m.hdr
            /\ merge_index' = i
  BY <1>5
<1>7. PICK m0 : m0 = [bin |-> bin, hdr |-> list.hdr]
  OBVIOUS
<1>8. PICK m : m = InBin(m0, i, a, list.size)
  OBVIOUS
<1>9. bin' = m.bin /\ hdr' = m.hdr
  BY <1>6, <1>7, <1>8
<1>10. PICK end \in Ends : \E u :
              /\ written = {} => end = NULL
              /\ IsChain(hdr, allocated_heap, u, end) /\ Ordered(u, Offset)
              /\ ToSet(u) = InList(hdr, allocated_heap)
              /\ ToSet(u) \subseteq HeldAt
  BY UsedList
<1>11. PICK u :
              /\ written = {} => end = NULL
              /\ IsChain(hdr, allocated_heap, u, end) /\ Ordered(u, Offset)
              /\ ToSet(u) = InList(hdr, allocated_heap)
              /\ ToSet(u) \subseteq HeldAt
  BY <1>10
<1>12. PICK k \in 1 .. Len(u) :
          /\ a = u[k] /\ list.size = hdr[a].size
          /\ TakenOut(list, hdr, allocated_heap, u, k, end)
  BY <1>3, <1>4, <1>5, <1>11, UsedFound
<1>13. PICK g : g = list.hdr
  OBVIOUS
<1>14. IsChain(g, list.head, CutOut(u, k, 1), end) /\ Kept(hdr, g, ToSet(u))
  BY <1>12, <1>13 DEF TakenOut
<1>15. BinsLinked(bin, hdr) /\ FreeNodesSound /\ HeldNodesSound /\ IsHeaders(hdr)
  BY NodeFacts DEF Inv, FreeLinked, BinsLinked
<1>16. /\ ToSet(CutOut(u, k, 1)) = ToSet(u) \ {a} /\ a \in ToSet(u)
       /\ Ordered(CutOut(u, k, 1), Offset)
  <2>1. ToSet(CutOut(u, k, 1)) = ToSet(u) \ {a}
    BY <1>11, <1>12, <1>15, CutOutSet
  <2>2. PICK D : D = DOMAIN hdr
    OBVIOUS
  <2>3. u \in Seq(D) /\ k + 1 - 1 <= Len(u) /\ 1 \in Nat
    BY <1>11, <2>2 DEF IsChain
  <2>4. Ordered(CutOut(u, k, 1), Offset)
    BY <1>11, <2>3, CutOutOrdered
  <2>5. a \in ToSet(u)
    BY <1>12, <2>3 DEF ToSet
  <2> QED
    BY <2>1, <2>4, <2>5
<1>17. /\ a \in HeldAt /\ a \in Nat /\ a < HEAP /\ a \in DOMAIN hdr
       /\ list.size \in Int
  <2>1. a \in HeldAt
    BY <1>11, <1>16
  <2>2. /\ a \in Nat /\ a < HEAP /\ a \in DOMAIN hdr
        /\ \E j \in Bins : hdr[a].size = Bytes[j] /\ a + Bytes[j] <= HEAP
    BY <1>15, <2>1 DEF HeldNodesSound
  <2> QED
    BY <1>12, <2>1, <2>2, BinSizes
<1>18. /\ \A c \in FreeAt : c \in DOMAIN hdr /\ c \notin HeldAt
       /\ HeldAt \cup AreasAt \subseteq DOMAIN hdr
       /\ \A c \in AreasAt : c \notin FreeAt /\ c \notin HeldAt
  BY <1>15, NodeFacts DEF FreeNodesSound, FreeAt, Inv, Types
<1>19. /\ BinsLinked(bin, g)
       /\ \A j \in Bins : InList(g, bin[j]) = InList(hdr, bin[j])
  <2>1. \A j \in Bins : \A c \in InList(hdr, bin[j]) :
           c \in DOMAIN g /\ g[c] = hdr[c]
    BY <1>11, <1>14, <1>18 DEF Kept, FreeAt
  <2>2. IsHeaders(g)
    BY <1>14 DEF Kept
  <2> QED
    BY <1>15, <2>1, <2>2, BinsKept
<1>20. Added(bin, g, m, i, a, list.size)
  <2>1. m0.bin = bin /\ m0.hdr = g
    BY <1>7, <1>13
  <2>2. /\ BinsLinked(m0.bin, m0.hdr)
        /\ \A j \in Bins : a \notin InList(m0.hdr, m0.bin[j])
    BY <1>17, <1>18, <1>19, <2>1 DEF FreeAt
  <2>3. Added(m0.bin, m0.hdr, InBin(m0, i, a, list.size), i, a, list.size)
    BY <1>17, <2>2, InBinIs
  <2> QED
    BY <1>8, <2>1, <2>3
<1>21. /\ BinsLinked(m.bin, m.hdr)
       /\ \A j \in Bins : InList(m.hdr, m.bin[j]) =
                             IF j = i THEN InList(hdr, bin[i]) \cup {a}
                             ELSE InList(hdr, bin[j])
       /\ DOMAIN m.hdr = DOMAIN hdr
       /\ m.hdr[a].size = hdr[a].size
  <2>1. /\ BinNow(bin, g, m.bin, m.hdr, i, InList(g, bin[i]) \cup {a})
        /\ DOMAIN m.hdr = DOMAIN g \cup {a}
    BY <1>20 DEF Added
  <2>2. DOMAIN g = DOMAIN hdr
    BY <1>14 DEF Kept
  <2>3. \A j \in Bins : InList(m.hdr, m.bin[j]) =
                             IF j = i THEN InList(hdr, bin[i]) \cup {a}
                             ELSE InList(hdr, bin[j])
    BY <1>19, <2>1 DEF BinNow
  <2> QED
    BY <1>12, <1>17, <1>20, <2>1, <2>2, <2>3 DEF Added
<1>22. \A c \in DOMAIN hdr :
          /\ m.hdr[c].size = hdr[c].size
          /\ c \notin FreeAt /\ c # a => m.hdr[c] = g[c]
          /\ c \notin FreeAt \cup HeldAt => m.hdr[c] = hdr[c]
  <2> SUFFICES ASSUME NEW c \in DOMAIN hdr
               PROVE  /\ m.hdr[c].size = hdr[c].size
                      /\ c \notin FreeAt /\ c # a => m.hdr[c] = g[c]
                      /\ c \notin FreeAt \cup HeldAt => m.hdr[c] = hdr[c]
    OBVIOUS
  <2>1. c \in DOMAIN g /\ g[c].size = hdr[c].size
        /\ (c \notin ToSet(u) => g[c] = hdr[c])
    BY <1>14 DEF Kept
  <2>2. c # a => /\ m.hdr[c].size = g[c].size
                 /\ c \notin InList(g, bin[i]) => m.hdr[c] = g[c]
    BY <1>20, <2>1 DEF Added
  <2>3. c \notin FreeAt => c \notin InList(g, bin[i])
    BY <1>19 DEF FreeAt
  <2> QED
    BY <1>11, <1>17, <1>21, <2>1, <2>2, <2>3
<1>23. HeldAt' = HeldAt \ {a}
  <2>1. \A h \in held : h.ptr \in Nat
    BY DEF Inv, H!HeldInv, H!HeapInv, H!TypeOK
  <2>2. \A h \in held : h.ptr - HDR = a <=> h.ptr = mem
    BY <1>2, <2>1
  <2>3. \A y : y \in HeldAt' <=> \E h \in held' : y = h.ptr - HDR
    BY DEF HeldAt
  <2>4. \A y : y \in HeldAt <=> \E h \in held : y = h.ptr - HDR
    BY DEF HeldAt
  <2>5. \A h : h \in held' <=> h \in held /\ h.ptr # mem
    BY <1>5
  <2>6. \A y : y \in HeldAt' => y \in HeldAt \ {a}
    BY <2>2, <2>3, <2>4, <2>5
  <2>7. \A y : y \in HeldAt \ {a} => y \in HeldAt'
    BY <2>2, <2>3, <2>4, <2>5
  <2> QED
    BY <2>6, <2>7
<1>24. FreeLinked' /\ IsHeaders(hdr')
  BY <1>9, <1>21 DEF FreeLinked, BinsLinked
<1>25. UsedLinked'
  <2>1. PICK h, x, u2 : h = hdr' /\ x = allocated_heap' /\ u2 = CutOut(u, k, 1)
    OBVIOUS
  <2>2. IsChain(h, x, u2, end)
    <3>1. IsChain(g, x, u2, end)
      BY <1>5, <1>14, <2>1
    <3>2. \A c \in ToSet(u2) : c \in DOMAIN h /\ h[c] = g[c]
      BY <1>9, <1>11, <1>16, <1>18, <1>21, <1>22, <2>1
    <3>3. IsHeaders(g) /\ IsHeaders(h)
      BY <1>14, <1>24, <2>1 DEF Kept
    <3> QED
      BY <3>1, <3>2, <3>3, ChainKept
  <2>3. IsHeaders(h) /\ Ordered(u2, Offset) /\ ToSet(u2) = ToSet(u) \ {a}
    BY <1>16, <1>24, <2>1
  <2>4. SortedList(h, x, Offset, end) /\ InList(h, x) = ToSet(u2)
    BY <2>2, <2>3, SortedListIs
  <2>5. LinkedUpToWrite(hdr, allocated_heap, Offset)'
    BY <1>5, <1>11, <2>1, <2>4 DEF LinkedUpToWrite, ownVars
  <2>6. InList(hdr', allocated_heap') = InList(hdr, allocated_heap) \ {a}
    BY <1>11, <2>1, <2>3, <2>4
  <2>7. /\ InList(hdr, allocated_heap) \subseteq HeldAt
        /\ \A c \in HeldAt \ InList(hdr, allocated_heap) : \E w \in written : w < c
    BY DEF Inv, UsedLinked
  <2>8. InList(hdr', allocated_heap') \subseteq HeldAt'
    BY <1>23, <2>6, <2>7
  <2>9. \A c \in HeldAt' \ InList(hdr', allocated_heap') : \E w \in written' : w < c
    BY <1>5, <1>23, <2>6, <2>7 DEF ownVars
  <2> QED
    BY <2>5, <2>8, <2>9 DEF UsedLinked
<1>26. MmapLinked' /\ AreasStay
  <2>1. \A c \in AreasAt : c \in DOMAIN hdr' /\ hdr'[c] = hdr[c]
    BY <1>9, <1>18, <1>21, <1>22
  <2> QED
    BY <1>5, <1>24, <2>1, MmapKept DEF mmapVars, ownVars, AreasStay
<1>27. Types'
  BY <1>5, <1>9, <1>18, <1>21, <1>23, TypesKept DEF mmapVars
<1>28. H!HeldInv' /\ H!FreeHeap(mem) /\ a \in 0 .. HEAP - 1
  <2> DEFINE chunk == [addr |-> a, size |-> hdr[a].size]
  <2>1. BinChunks(bin', hdr') = [BinChunks(bin, hdr) EXCEPT ![i] = @ \cup {chunk}]
    <3>1. NodesOf(hdr', bin'[i]) = NodesOf(hdr, bin[i]) \cup {chunk}
      <4>1. PICK h, y, x, size :
               /\ h = hdr' /\ y = bin'[i] /\ x = bin[i] /\ size = hdr[a].size
        OBVIOUS
      <4>2. InList(h, y) = InList(hdr, x) \cup {a} /\ h[a].size = size
        BY <1>9, <1>21, <4>1
      <4>3. \A c \in InList(hdr, x) : h[c].size = hdr[c].size
        BY <1>9, <1>18, <1>22, <4>1 DEF FreeAt
      <4>4. NodesOf(h, y) = NodesOf(hdr, x) \cup {[addr |-> a, size |-> size]}
        BY <4>2, <4>3 DEF NodesOf
      <4> QED
        BY <4>1, <4>4
    <3>2. \A j \in Bins \ {i} : NodesOf(hdr', bin'[j]) = NodesOf(hdr, bin[j])
      <4> SUFFICES ASSUME NEW j \in Bins \ {i}
                   PROVE  NodesOf(hdr', bin'[j]) = NodesOf(hdr, bin[j])
        OBVIOUS
      <4>1. InList(hdr', bin'[j]) = InList(hdr, bin[j])
        BY <1>9, <1>21
      <4>2. \A c \in InList(hdr, bin[j]) : hdr'[c].size = hdr[c].size
        BY <1>9, <1>18, <1>22 DEF FreeAt
      <4> QED
        BY <4>1, <4>2 DEF NodesOf
    <3> HIDE DEF chunk
    <3> QED
      BY <3>1, <3>2 DEF BinChunks
  <2>2. HeldChunks(held', hdr') = HeldChunks(held, hdr) \ {chunk}
    <3>1. HeldChunks(held', hdr') = {[addr |-> c, size |-> hdr'[c].size] : c \in HeldAt'}
      BY DEF HeldChunks, HeldAt
    <3>2. HeldChunks(held, hdr) = {[addr |-> c, size |-> hdr[c].size] : c \in HeldAt}
      BY DEF HeldChunks, HeldAt
    <3>3. \A c \in HeldAt' : hdr'[c].size = hdr[c].size
      BY <1>9, <1>18, <1>22, <1>23
    <3> QED
      BY <1>23, <3>1, <3>2, <3>3
  <2>3. chunk \in HeldChunks(held, hdr) /\ chunk.addr = mem - HDR
    <3>1. HeldChunks(held, hdr) = {[addr |-> c, size |-> hdr[c].size] : c \in HeldAt}
      BY DEF HeldChunks, HeldAt
    <3> QED
      BY <1>1, <1>17, <3>1
  <2>4. H!IsProperBin(i, chunk.size) /\ i \in H!Bins /\ merge_index = H!None
    BY <1>5, <1>6, <1>12, Constants DEF Ready, Sets!IsProperBin,
       H!IsProperBin, Sets!None, H!None
  <2> HIDE DEF chunk
  <2>5. H!FreeHeap(mem)
    BY <1>5, <1>6, <2>1, <2>2, <2>3, <2>4 DEF H!FreeHeap, H!Ready, H!mmapVars
  <2>6. a \in 0 .. H!HEAP_INITIAL - 1 /\ a + HDR = mem
    BY <1>2, <1>17, Constants
  <2>7. H!Free
    BY <2>5, <2>6 DEF H!Free
  <2>8. H!Next
    BY <2>7 DEF H!Next
  <2> QED
    BY <2>5, <2>6, <2>8, HeapStep, Constants DEF Inv
<1> QED
  BY <1>1, <1>5, <1>24, <1>25, <1>26, <1>27, <1>28 DEF Inv, mmapVars

-----------------------------------------------------------------------------
(* merge()                                                                  *)

\* A chunk that starts where another of its bin ends is the next of the list.
LEMMA NextStarts ==
    ASSUME Inv, NEW i \in Bins, NEW s, s = Walk(hdr, bin[i]),
           NEW j \in 1 .. Len(s), NEW l \in 1 .. Len(s),
           s[l] = s[j] + hdr[s[j]].size
    PROVE  l = j + 1
<1>1. /\ BinsLinked(bin, hdr) /\ FreeNodesSound /\ NodesApart
      /\ IsHeaders(hdr) /\ SortedList(hdr, bin[i], Offset, NULL)
  BY NodeFacts DEF Inv, FreeLinked, BinsLinked, FreeList
<1>2. /\ IsChain(hdr, bin[i], s, NULL) /\ Ordered(s, Offset) /\ Len(s) \in Nat
      /\ InList(hdr, bin[i]) = {s[n] : n \in 1 .. Len(s)}
  BY <1>1, NullIsEnd, ListNodes
<1>3. \A n, n2 \in 1 .. Len(s) : s[n] = s[n2] => n = n2
  BY <1>2 DEF IsChain
<1>4. \A n \in 1 .. Len(s) : s[n] \in InList(hdr, bin[i])
  BY <1>2
<1>5. \A n \in 1 .. Len(s) : /\ s[n] \in Nat /\ hdr[s[n]].size = Bytes[i]
                             /\ s[n] \in FreeAt /\ Offset[s[n]] = s[n]
  BY <1>1, <1>4 DEF FreeNodesSound, FreeAt, Offset
<1>6. Bytes[i] \in Nat /\ Bytes[i] > 0
  BY BinSizes
<1>7. j < l
  <2> SUFFICES ASSUME l <= j PROVE FALSE
    BY <1>2
  <2>1. CASE l = j
    BY <1>5, <1>6, <2>1
  <2>2. CASE l < j
    <3>1. Offset[s[l]] <= Offset[s[j]]
      BY <1>2, <2>2 DEF Ordered
    <3> QED
      BY <1>5, <1>6, <3>1
  <2> QED
    BY <1>2, <2>1, <2>2
<1>8. CASE l # j + 1
  <2>1. j + 1 \in 1 .. Len(s) /\ j < j + 1 /\ j + 1 < l /\ j + 1 # j
    BY <1>2, <1>7, <1>8
  <2>2. PICK x : x = s[j + 1]
    OBVIOUS
  <2>3. x \in Nat /\ hdr[x].size = Bytes[i] /\ x \in FreeAt /\ Offset[x] = x
    BY <1>5, <2>1, <2>2
  <2>4. Offset[s[j]] <= Offset[x] /\ Offset[x] <= Offset[s[l]]
    BY <1>2, <2>1, <2>2 DEF Ordered
  <2>5. x # s[j] /\ x # s[l]
    BY <1>3, <2>1, <2>2
  <2>6. s[j] + hdr[s[j]].size <= x \/ x + hdr[x].size <= s[j]
    BY <1>1, <1>5, <2>3, <2>5 DEF NodesApart
  <2> QED
    BY <1>5, <1>6, <2>3, <2>4, <2>5, <2>6
<1> QED
  BY <1>8

LEMMA MergeIndexIsBin ==
    ASSUME Inv, Merging PROVE merge_index \in Bins
BY Constants DEF Inv, H!HeldInv, H!HeapInv, H!TypeOK, Merging, Sets!None, H!None

LEMMA MergeDoneKeeps ==
    ASSUME Inv, MergeDone
    PROVE  Inv' /\ H!MergeDone /\ AreasStay /\ UNCHANGED mmap_alloc_list
<1>1. PICK i : i = merge_index
  OBVIOUS
<1>2. PICK s : s = Walk(hdr, bin[i])
  OBVIOUS
<1>3. /\ Merging
      /\ \A k \in 1 .. Len(s) - 1 : s[k] + hdr[s[k]].size # s[k + 1]
      /\ merge_index' = Sets!None
      /\ UNCHANGED <<first_time, bin, allocated_heap, held, mmapVars, ownVars,
                     hdr, fault>>
  BY <1>1, <1>2 DEF MergeDone, Meets
<1>4. i \in Bins
  BY <1>1, <1>3, MergeIndexIsBin
<1>5. IsHeaders(hdr) /\ SortedList(hdr, bin[i], Offset, NULL)
  BY <1>4 DEF Inv, FreeLinked, BinsLinked, FreeList
<1>6. InList(hdr, bin[i]) = {s[n] : n \in 1 .. Len(s)} /\ Len(s) \in Nat
  BY <1>2, <1>5, NullIsEnd, ListNodes
<1>7. ~H!Adjacent(merge_index)
  <2> SUFFICES ASSUME NEW c \in BinChunks(bin, hdr)[i],
                      NEW d \in BinChunks(bin, hdr)[i],
                      d.addr = c.addr + c.size
               PROVE  FALSE
    BY <1>1 DEF H!Adjacent, H!End
  <2>1. PICK a \in InList(hdr, bin[i]) : c = [addr |-> a, size |-> hdr[a].size]
    BY <1>4 DEF BinChunks, NodesOf
  <2>2. PICK b \in InList(hdr, bin[i]) : d = [addr |-> b, size |-> hdr[b].size]
    BY <1>4 DEF BinChunks, NodesOf
  <2>3. PICK j \in 1 .. Len(s) : a = s[j]
    BY <1>6
  <2>4. PICK l \in 1 .. Len(s) : b = s[l]
    BY <1>6
  <2>5. s[l] = s[j] + hdr[s[j]].size
    BY <2>1, <2>2, <2>3, <2>4
  <2>6. l = j + 1
    BY <1>2, <1>4, <2>5, NextStarts
  <2>7. j \in 1 .. Len(s) - 1
    BY <1>6, <2>6
  <2> QED
    BY <1>3, <2>5, <2>6, <2>7
<1>8. H!MergeDone
  BY <1>3, <1>7 DEF H!MergeDone, H!Merging, Merging, Sets!None, H!None, H!mmapVars
<1>9. H!HeldInv'
  <2>1. H!Next
    BY <1>8 DEF H!Next, H!Merge
  <2> QED
    BY <2>1, HeapStep DEF Inv
<1>10. FreeLinked'
  BY <1>3 DEF Inv, FreeLinked
<1>11. IsHeaders(hdr') /\ HeldAt \cup AreasAt \subseteq DOMAIN hdr
  BY <1>3, <1>5 DEF Inv, Types
<1>12. UsedLinked' /\ MmapLinked'
  BY <1>3, <1>11, UsedKept, MmapKept DEF mmapVars, ownVars
<1>13. Types'
  BY <1>3, <1>11, TypesKept DEF mmapVars, HeldAt
<1>14. AreasStay
  BY <1>3, <1>11, SMTT(40) DEF AreasStay, mmapVars
<1> QED
  BY <1>3, <1>8, <1>9, <1>10, <1>12, <1>13, <1>14 DEF Inv, mmapVars

\* The pair of nodes c and e has left the list of bin i.
PairOut(un, i, c, e) ==
    /\ BinsLinked(un.bin, un.hdr)
    /\ \A j \in Bins : InList(un.hdr, un.bin[j]) =
                          IF j = i THEN InList(hdr, bin[i]) \ {c, e}
                          ELSE InList(hdr, bin[j])
    /\ DOMAIN un.hdr = DOMAIN hdr
    /\ \A x \in DOMAIN hdr : /\ un.hdr[x].size = hdr[x].size
                             /\ x \notin FreeAt => un.hdr[x] = hdr[x]

LEMMA PairUnlinked ==
    ASSUME Inv, NEW i \in Bins, NEW s, s = Walk(hdr, bin[i]),
           NEW k \in 1 .. Len(s) - 1, NEW c, c = s[k], NEW e, e = s[k + 1],
           NEW un,
           un = IF k = 1
                THEN [bin |-> [bin EXCEPT ![i] = hdr[e].next],
                      hdr |-> SetPrev(hdr, hdr[e].next, NULL)]
                ELSE [bin |-> bin,
                      hdr |-> SetPrev(SetNext(hdr, s[k - 1], hdr[e].next),
                                      hdr[e].next, s[k - 1])]
    PROVE  PairOut(un, i, c, e)
<1>1. /\ BinsLinked(bin, hdr) /\ IsHeaders(hdr)
      /\ SortedList(hdr, bin[i], Offset, NULL)
  BY DEF Inv, FreeLinked, BinsLinked, FreeList
<1>2. /\ IsChain(hdr, bin[i], s, NULL) /\ Len(s) \in Nat
      /\ InList(hdr, bin[i]) = ToSet(s)
  BY <1>1, NullIsEnd, ListNodes
<1>3. PICK g, first, b1 : /\ g = un.hdr
                          /\ first = IF k = 1 THEN hdr[e].next ELSE bin[i]
                          /\ b1 = [bin EXCEPT ![i] = first]
  OBVIOUS
<1>4. IsChain(g, first, CutOut(s, k, 2), NULL) /\ Kept(hdr, g, ToSet(s))
  <2>1. IF k = 1 THEN /\ first = hdr[s[k + 1]].next
                      /\ g = SetPrev(hdr, hdr[s[k + 1]].next, NULL)
        ELSE /\ first = bin[i]
             /\ g = SetPrev(SetNext(hdr, s[k - 1], hdr[s[k + 1]].next),
                            hdr[s[k + 1]].next, s[k - 1])
    BY <1>3
  <2> QED
    BY <1>1, <1>2, <2>1, UnlinkPair
<1>5. /\ BinsLinked(b1, g)
      /\ BinNow(bin, hdr, b1, g, i, InList(hdr, bin[i]) \ {c, e})
  <2>1. PICK A, d, b, h : A = {c, e} /\ d = 2 /\ b = bin /\ h = hdr
    OBVIOUS
  <2>2. /\ d \in {1, 2} /\ k + d - 1 <= Len(s) /\ k \in 1 .. Len(s)
        /\ A = IF d = 1 THEN {s[k]} ELSE {s[k], s[k + 1]}
        /\ IsChain(g, first, CutOut(s, k, d), NULL)
    BY <1>2, <1>4, <2>1
  <2>3. /\ BinsLinked(b, h) /\ s = Walk(h, b[i])
        /\ Kept(h, g, ToSet(s)) /\ b1 = [b EXCEPT ![i] = first]
    BY <1>1, <1>3, <1>4, <2>1
  <2>4. /\ BinsLinked(b1, g)
        /\ BinNow(b, h, b1, g, i, InList(h, b[i]) \ A)
    BY <2>2, <2>3, BinWithout
  <2> QED
    BY <2>1, <2>4
<1>6. /\ DOMAIN un.bin = Bins /\ \A j \in Bins : un.bin[j] = b1[j]
  <2>1. un.bin = IF k = 1 THEN [bin EXCEPT ![i] = hdr[e].next] ELSE bin
    OBVIOUS
  <2> QED
    BY <1>1, <1>3, <2>1 DEF BinsLinked
<1>7. BinsLinked(un.bin, g)
  BY <1>5, <1>6 DEF BinsLinked
<1>8. \A j \in Bins : InList(g, un.bin[j]) =
                         IF j = i THEN InList(hdr, bin[i]) \ {c, e}
                         ELSE InList(hdr, bin[j])
  BY <1>5, <1>6, ZenonT(60) DEF BinNow
<1>9. DOMAIN g = DOMAIN hdr
      /\ \A x \in DOMAIN hdr : /\ g[x].size = hdr[x].size
                               /\ x \notin FreeAt => g[x] = hdr[x]
  BY <1>2, <1>4 DEF Kept, FreeAt
<1> QED
  BY <1>3, <1>7, <1>8, <1>9 DEF PairOut

\* The pair has become a chunk of the next bin.
Joined(b, h, i, c, e) ==
    /\ BinsLinked(b, h)
    /\ \A j \in Bins : InList(h, b[j]) =
          IF j = i THEN InList(hdr, bin[i]) \ {c, e}
          ELSE IF j = i + 1 THEN InList(hdr, bin[i + 1]) \cup {c}
          ELSE InList(hdr, bin[j])
    /\ h[c].size = 2 * hdr[c].size
    /\ \A x \in DOMAIN hdr \ {c, e} : /\ x \in DOMAIN h /\ h[x].size = hdr[x].size
                                      /\ x \notin FreeAt => h[x] = hdr[x]

LEMMA PairJoined ==
    ASSUME Inv, NEW i \in Bins, i + 1 \in Bins, NEW c \in InList(hdr, bin[i]),
           NEW e \in InList(hdr, bin[i]), c # e,
           NEW un, PairOut(un, i, c, e),
           NEW m, m = InBin(un, i + 1, c, 2 * hdr[c].size),
           NEW h, h = Without(m.hdr, e)
    PROVE  Joined(m.bin, h, i, c, e)
<1>1. BinsLinked(bin, hdr) /\ FreeNodesSound
  BY NodeFacts DEF Inv, FreeLinked
<1>2. c \in Nat /\ c \in DOMAIN hdr /\ e \in DOMAIN hdr /\ hdr[c].size = Bytes[i]
  BY <1>1 DEF FreeNodesSound
<1>3. PICK size : size = 2 * hdr[c].size
  OBVIOUS
<1>4. size \in Int /\ i \in Int /\ i # i + 1
  BY <1>2, <1>3, BinSizes
<1>5. \A j \in Bins : j # i => c \notin InList(hdr, bin[j]) /\ e \notin InList(hdr, bin[j])
  <2> SUFFICES ASSUME NEW j \in Bins, j # i
               PROVE  c \notin InList(hdr, bin[j]) /\ e \notin InList(hdr, bin[j])
    OBVIOUS
  <2>1. InList(hdr, bin[i]) \cap InList(hdr, bin[j]) = {}
    BY <1>1 DEF BinsLinked
  <2> QED
    BY <2>1
<1>6. PICK b2, g : b2 = un.bin /\ g = un.hdr
  OBVIOUS
<1>7. /\ BinsLinked(b2, g)
      /\ \A j \in Bins : InList(g, b2[j]) =
                            IF j = i THEN InList(hdr, bin[i]) \ {c, e}
                            ELSE InList(hdr, bin[j])
      /\ DOMAIN g = DOMAIN hdr
      /\ \A x \in DOMAIN hdr : /\ g[x].size = hdr[x].size
                               /\ x \notin FreeAt => g[x] = hdr[x]
  BY <1>6 DEF PairOut
<1>8. \A j \in Bins : c \notin InList(g, b2[j]) /\ e \notin InList(g, b2[j])
  <2> SUFFICES ASSUME NEW j \in Bins
               PROVE  c \notin InList(g, b2[j]) /\ e \notin InList(g, b2[j])
    OBVIOUS
  <2>1. InList(g, b2[j]) = IF j = i THEN InList(hdr, bin[i]) \ {c, e}
                           ELSE InList(hdr, bin[j])
    BY <1>7
  <2> QED
    BY <1>5, <2>1
<1>9. Added(b2, g, m, i + 1, c, size)
  <2>1. m = InBin(un, i + 1, c, size)
    BY <1>3
  <2>2. BinsLinked(un.bin, un.hdr) /\ \A j \in Bins : c \notin InList(un.hdr, un.bin[j])
    BY <1>6, <1>7, <1>8
  <2>3. Added(un.bin, un.hdr, InBin(un, i + 1, c, size), i + 1, c, size)
    BY <1>2, <1>4, <2>2, InBinIs
  <2> QED
    BY <1>6, <2>1, <2>3
<1>10. PICK b, f : b = m.bin /\ f = m.hdr
  OBVIOUS
<1>11. /\ BinsLinked(b, f)
       /\ BinNow(b2, g, b, f, i + 1, InList(g, b2[i + 1]) \cup {c})
       /\ DOMAIN f = DOMAIN g \cup {c}
       /\ f[c].size = size
       /\ \A x \in DOMAIN g \ {c} :
             /\ f[x].size = g[x].size
             /\ x \notin InList(g, b2[i + 1]) => f[x] = g[x]
  BY <1>9, <1>10 DEF Added
<1>12. \A j \in Bins : InList(f, b[j]) =
                 IF j = i THEN InList(hdr, bin[i]) \ {c, e}
                 ELSE IF j = i + 1 THEN InList(hdr, bin[i + 1]) \cup {c}
                 ELSE InList(hdr, bin[j])
  <2> SUFFICES ASSUME NEW j \in Bins
               PROVE  InList(f, b[j]) =
                 IF j = i THEN InList(hdr, bin[i]) \ {c, e}
                 ELSE IF j = i + 1 THEN InList(hdr, bin[i + 1]) \cup {c}
                 ELSE InList(hdr, bin[j])
    OBVIOUS
  <2>1. InList(f, b[j]) = IF j = i + 1 THEN InList(g, b2[i + 1]) \cup {c}
                          ELSE InList(g, b2[j])
    BY <1>11 DEF BinNow
  <2>2. InList(g, b2[j]) = IF j = i THEN InList(hdr, bin[i]) \ {c, e}
                           ELSE InList(hdr, bin[j])
    BY <1>7
  <2>3. InList(g, b2[i + 1]) = InList(hdr, bin[i + 1])
    BY <1>4, <1>7
  <2> QED
    BY <1>4, <2>1, <2>2, <2>3
<1>13. DOMAIN f = DOMAIN hdr
  BY <1>2, <1>7, <1>11
<1>14. \A x \in DOMAIN hdr \ {c, e} : /\ f[x].size = hdr[x].size
                                      /\ x \notin FreeAt => f[x] = hdr[x]
  <2> SUFFICES ASSUME NEW x \in DOMAIN hdr \ {c, e}
               PROVE  /\ f[x].size = hdr[x].size
                      /\ x \notin FreeAt => f[x] = hdr[x]
    OBVIOUS
  <2>1. /\ x \in DOMAIN g \ {c} /\ g[x].size = hdr[x].size
        /\ x \notin FreeAt => g[x] = hdr[x]
    <3>1. \A y \in DOMAIN hdr : /\ g[y].size = hdr[y].size
                                /\ y \notin FreeAt => g[y] = hdr[y]
      BY <1>7
    <3>2. x \in DOMAIN hdr /\ x # c /\ DOMAIN g = DOMAIN hdr
      BY <1>7
    <3>3. x \in DOMAIN g \ {c}
      BY <3>2
    <3>4. g[x].size = hdr[x].size
      BY <3>1, <3>2
    <3>5. x \notin FreeAt => g[x] = hdr[x]
      BY <3>1, <3>2
    <3> QED
      BY <3>3, <3>4, <3>5
  <2>2. /\ f[x].size = g[x].size
        /\ x \notin InList(g, b2[i + 1]) => f[x] = g[x]
    BY <1>11, <2>1
  <2>3. InList(g, b2[i + 1]) = InList(hdr, bin[i + 1])
    BY <1>4, <1>7
  <2>4. x \notin FreeAt => x \notin InList(hdr, bin[i + 1])
    BY DEF FreeAt
  <2> QED
    BY <2>1, <2>2, <2>3, <2>4
<1>15. h = Without(f, e)
  BY <1>10
<1>16. /\ IsHeaders(h) /\ DOMAIN h = DOMAIN f \ {e}
       /\ \A x \in DOMAIN f \ {e} : h[x] = f[x]
  <2>1. IsHeaders(f)
    BY <1>11 DEF BinsLinked
  <2> DEFINE q == Without(f, e)
  <2>2. IsHeaders(q)
    BY <2>1, WithoutIs
  <2>3. DOMAIN q = DOMAIN f \ {e}
    BY <2>1, WithoutIs
  <2>4. \A x \in DOMAIN f \ {e} : q[x] = f[x]
    BY <2>1, WithoutIs
  <2> HIDE DEF q
  <2>5. h = q
    BY <1>15 DEF q
  <2> QED
    BY <2>2, <2>3, <2>4, <2>5
<1>17. /\ BinsLinked(b, h)
       /\ \A j \in Bins : InList(h, b[j]) = InList(f, b[j])
  <2>1. \A j \in Bins : \A x \in InList(f, b[j]) : x \in DOMAIN h /\ h[x] = f[x]
    <3> SUFFICES ASSUME NEW j \in Bins, NEW x \in InList(f, b[j])
                 PROVE  x \in DOMAIN h /\ h[x] = f[x]
      OBVIOUS
    <3>1. SortedList(f, b[j], Offset, NULL) /\ IsHeaders(f)
      BY <1>11 DEF BinsLinked, FreeList
    <3>2. x \in DOMAIN f
      BY <3>1, NullIsEnd, ListNodes
    <3>3. x # e
      <4>1. InList(f, b[j]) = IF j = i THEN InList(hdr, bin[i]) \ {c, e}
                 ELSE IF j = i + 1 THEN InList(hdr, bin[i + 1]) \cup {c}
                 ELSE InList(hdr, bin[j])
        BY <1>12
      <4>2. j # i => e \notin InList(hdr, bin[j])
        BY <1>5
      <4> QED
        BY <4>1, <4>2
    <3> QED
      BY <1>16, <3>2, <3>3
  <2> QED
    BY <1>11, <1>16, <2>1, BinsKept
<1>18. h[c].size = 2 * hdr[c].size
  <2>1. c \in DOMAIN f \ {e}
    BY <1>2, <1>13
  <2> QED
    BY <1>3, <1>11, <1>16, <2>1
<1>19. \A x \in DOMAIN hdr \ {c, e} : /\ x \in DOMAIN h /\ h[x].size = hdr[x].size
                                      /\ x \notin FreeAt => h[x] = hdr[x]
  BY <1>13, <1>14, <1>16
<1>20. \A j \in Bins : InList(h, b[j]) =
                 IF j = i THEN InList(hdr, bin[i]) \ {c, e}
                 ELSE IF j = i + 1 THEN InList(hdr, bin[i + 1]) \cup {c}
                 ELSE InList(hdr, bin[j])
  BY <1>12, <1>17
<1>21. Joined(b, h, i, c, e)
  BY <1>17, <1>18, <1>19, <1>20 DEF Joined
<1> QED
  BY <1>10, <1>21

LEMMA MergePairKeeps ==
    ASSUME Inv, MergePair
    PROVE  /\ Inv'
           /\ \/ /\ merge_index = NBins - 1 /\ H!Adjacent(merge_index)
                 /\ Crash("bin[NBins]")
              \/ H!MergePair /\ AreasStay /\ UNCHANGED mmap_alloc_list
<1>1. PICK i : i = merge_index
  OBVIOUS
<1>2. PICK s : s = Walk(hdr, bin[i])
  OBVIOUS
<1> DEFINE Out(k) == Unlink(IF k = 1 THEN NULL ELSE s[k - 1], hdr[s[k + 1]].next)
           Into(k) == InBin(Out(k), i + 1, s[k], 2 * hdr[s[k]].size)
<1>3. /\ Merging
      /\ \E k \in 1 .. Len(s) - 1 :
            /\ s[k] + hdr[s[k]].size = s[k + 1]
            /\ \A l \in 1 .. k - 1 : s[l] + hdr[s[l]].size # s[l + 1]
            /\ IF i = NBins - 1 THEN Crash("bin[NBins]")
               ELSE /\ bin' = Into(k).bin
                    /\ hdr' = Without(Into(k).hdr, s[k + 1])
                    /\ merge_index' = IF i + 1 = NBins - 1 THEN Sets!None ELSE i + 1
                    /\ UNCHANGED <<first_time, allocated_heap, held,
                                   mmapVars, ownVars, fault>>
  BY <1>1, <1>2 DEF MergePair, Meets
<1>4. CASE i = NBins - 1
  <2>1. Crash("bin[NBins]")
    BY <1>3, <1>4
  <2>2. H!Adjacent(i)
    <3>1. PICK k \in 1 .. Len(s) - 1 : s[k] + hdr[s[k]].size = s[k + 1]
      BY <1>3
    <3>2. i \in Bins
      BY <1>1, <1>3, MergeIndexIsBin
    <3>3. IsHeaders(hdr) /\ SortedList(hdr, bin[i], Offset, NULL)
      BY <3>2 DEF Inv, FreeLinked, BinsLinked, FreeList
    <3>4. InList(hdr, bin[i]) = {s[n] : n \in 1 .. Len(s)} /\ Len(s) \in Nat
      BY <1>2, <3>3, NullIsEnd, ListNodes
    <3>5. PICK c, d : /\ c = [addr |-> s[k], size |-> hdr[s[k]].size]
                      /\ d = [addr |-> s[k + 1], size |-> hdr[s[k + 1]].size]
      OBVIOUS
    <3>6. s[k] \in InList(hdr, bin[i]) /\ s[k + 1] \in InList(hdr, bin[i])
      BY <3>4
    <3>7. c \in BinChunks(bin, hdr)[i] /\ d \in BinChunks(bin, hdr)[i]
      BY <3>2, <3>5, <3>6 DEF BinChunks, NodesOf
    <3>8. d.addr = c.addr + c.size
      BY <3>1, <3>5
    <3> QED
      BY <3>7, <3>8 DEF H!Adjacent, H!End
  <2> QED
    BY <1>1, <1>4, <2>1, <2>2, CrashKeeps
<1>5. CASE i # NBins - 1
  <2>1. PICK k \in 1 .. Len(s) - 1 :
            /\ s[k] + hdr[s[k]].size = s[k + 1]
            /\ \A l \in 1 .. k - 1 : s[l] + hdr[s[l]].size # s[l + 1]
            /\ bin' = Into(k).bin
            /\ hdr' = Without(Into(k).hdr, s[k + 1])
            /\ merge_index' = IF i + 1 = NBins - 1 THEN Sets!None ELSE i + 1
            /\ UNCHANGED <<first_time, allocated_heap, held,
                           mmapVars, ownVars, fault>>
    BY <1>3, <1>5
  <2>2. /\ i \in Bins /\ i + 1 \in Bins /\ i \in Int /\ i # i + 1
    BY <1>1, <1>3, <1>5, MergeIndexIsBin, BinSizes
  <2>3. /\ BinsLinked(bin, hdr) /\ FreeNodesSound /\ HeldNodesSound
        /\ IsHeaders(hdr) /\ SortedList(hdr, bin[i], Offset, NULL)
    BY <2>2, NodeFacts DEF Inv, FreeLinked, BinsLinked, FreeList
  <2>4. /\ InList(hdr, bin[i]) = {s[n] : n \in 1 .. Len(s)} /\ Len(s) \in Nat
        /\ IsChain(hdr, bin[i], s, NULL) /\ Ordered(s, Offset)
    BY <1>2, <2>3, NullIsEnd, ListNodes
  <2>5. PICK c, e : c = s[k] /\ e = s[k + 1]
    OBVIOUS
  <2>6. PICK un, m : un = Out(k) /\ m = Into(k)
    OBVIOUS
  <2>7. /\ c \in InList(hdr, bin[i]) /\ e \in InList(hdr, bin[i]) /\ c # e
        /\ k \in 1 .. Len(s) /\ k + 1 \in 1 .. Len(s)
    <3>1. k \in 1 .. Len(s) /\ k + 1 \in 1 .. Len(s) /\ k # k + 1
      BY <2>4
    <3> QED
      BY <2>4, <2>5, <3>1 DEF IsChain
  <2>8. PairOut(un, i, c, e)
    <3>1. k # 1 => s[k - 1] # NULL
      <4> SUFFICES ASSUME k # 1 PROVE s[k - 1] # NULL
        OBVIOUS
      <4>1. k - 1 \in 1 .. Len(s)
        BY <2>4
      <4>2. s[k - 1] \in Nat
        BY <2>3, <2>4, <4>1, ChainNodes
      <4> QED
        BY <4>2 DEF NULL
    <3>2. un = IF k = 1
               THEN [bin |-> [bin EXCEPT ![i] = hdr[e].next],
                     hdr |-> SetPrev(hdr, hdr[e].next, NULL)]
               ELSE [bin |-> bin,
                     hdr |-> SetPrev(SetNext(hdr, s[k - 1], hdr[e].next),
                                     hdr[e].next, s[k - 1])]
      BY <1>1, <2>5, <2>6, <3>1 DEF Unlink
    <3> QED
      BY <1>2, <2>2, <2>5, <3>2, PairUnlinked
  <2>9. /\ m = InBin(un, i + 1, c, 2 * hdr[c].size)
        /\ bin' = m.bin /\ hdr' = Without(m.hdr, e)
    BY <2>1, <2>5, <2>6
  <2> HIDE DEF Out, Into
  <2>10. PICK b, h : b = bin' /\ h = hdr'
    OBVIOUS
  <2>11. Joined(b, h, i, c, e)
    <3>1. h = Without(m.hdr, e) /\ b = m.bin
      BY <2>9, <2>10
    <3>2. Joined(m.bin, h, i, c, e)
      BY <2>2, <2>7, <2>8, <2>9, <3>1, PairJoined
    <3> QED
      BY <3>1, <3>2
  <2>12. \A x \in FreeAt : x \in DOMAIN hdr /\ x \notin HeldAt
    BY <2>3 DEF FreeNodesSound, FreeAt
  <2>13. c \in FreeAt /\ e \in FreeAt
    BY <2>2, <2>7 DEF FreeAt
  <2>14. \A x \in HeldAt \cup AreasAt : x \in DOMAIN hdr' /\ hdr'[x] = hdr[x]
    <3> SUFFICES ASSUME NEW x \in HeldAt \cup AreasAt
                 PROVE  x \in DOMAIN hdr' /\ hdr'[x] = hdr[x]
      OBVIOUS
    <3>1. x \notin FreeAt /\ x \in DOMAIN hdr
      BY <2>12, NodeFacts DEF Inv, Types
    <3>2. x \in DOMAIN hdr \ {c, e}
      BY <2>13, <3>1
    <3>3. x \in DOMAIN h /\ h[x] = hdr[x]
      BY <2>11, <3>1, <3>2 DEF Joined
    <3> QED
      BY <2>10, <3>3
  <2>15. FreeLinked' /\ IsHeaders(hdr')
    BY <2>10, <2>11 DEF FreeLinked, Joined, BinsLinked
  <2>16. UsedLinked' /\ MmapLinked'
    BY <2>1, <2>14, <2>15, UsedKept, MmapKept DEF mmapVars, ownVars
  <2>17. Types'
    <3>1. HeldAt' = HeldAt
      BY <2>1 DEF HeldAt
    <3> QED
      BY <2>1, <2>14, <3>1, TypesKept DEF mmapVars
  <2>18. H!HeldInv' /\ H!MergePair
    <3> DEFINE C(x) == [addr |-> x, size |-> hdr[x].size]
               F    == BinChunks(bin, hdr)
    <3>1. \A x \in DOMAIN hdr \ {c, e} : h[x].size = hdr[x].size
      BY <2>11 DEF Joined
    <3>2. \A j \in Bins : InList(h, b[j]) =
             IF j = i THEN InList(hdr, bin[i]) \ {c, e}
             ELSE IF j = i + 1 THEN InList(hdr, bin[i + 1]) \cup {c}
             ELSE InList(hdr, bin[j])
      BY <2>11 DEF Joined
    <3>3. \A j \in Bins : \A x \in InList(hdr, bin[j]) : x \in DOMAIN hdr
      BY <2>3 DEF FreeNodesSound
    <3>4. \A j \in Bins : j # i => c \notin InList(hdr, bin[j]) /\ e \notin InList(hdr, bin[j])
      <4> SUFFICES ASSUME NEW j \in Bins, j # i
                   PROVE  c \notin InList(hdr, bin[j]) /\ e \notin InList(hdr, bin[j])
        OBVIOUS
      <4>1. InList(hdr, bin[i]) \cap InList(hdr, bin[j]) = {}
        BY <2>2, <2>3 DEF BinsLinked
      <4> QED
        BY <2>7, <4>1
    <3>5. NodesOf(h, b[i]) = NodesOf(hdr, bin[i]) \ {C(c), C(e)}
      <4>1. InList(h, b[i]) = InList(hdr, bin[i]) \ {c, e}
        BY <2>2, <3>2
      <4>2. \A x \in InList(hdr, bin[i]) \ {c, e} : h[x].size = hdr[x].size
        BY <2>2, <3>1, <3>3
      <4> QED
        BY <4>1, <4>2 DEF NodesOf
    <3>6. NodesOf(h, b[i + 1]) =
             NodesOf(hdr, bin[i + 1]) \cup {[addr |-> c, size |-> 2 * hdr[c].size]}
      <4>1. PICK size, x, y : size = 2 * hdr[c].size /\ x = bin[i + 1] /\ y = b[i + 1]
        OBVIOUS
      <4>2. InList(h, y) = InList(hdr, x) \cup {c}
        BY <2>2, <3>2, <4>1
      <4>3. h[c].size = size
        BY <2>11, <4>1 DEF Joined
      <4>4. \A z \in InList(hdr, x) : h[z].size = hdr[z].size
        BY <2>2, <3>1, <3>3, <3>4, <4>1
      <4>5. NodesOf(h, y) = NodesOf(hdr, x) \cup {[addr |-> c, size |-> size]}
        BY <4>2, <4>3, <4>4 DEF NodesOf
      <4> QED
        BY <4>1, <4>5
    <3>7. \A j \in Bins \ {i, i + 1} : NodesOf(h, b[j]) = NodesOf(hdr, bin[j])
      <4> SUFFICES ASSUME NEW j \in Bins \ {i, i + 1}
                   PROVE  NodesOf(h, b[j]) = NodesOf(hdr, bin[j])
        OBVIOUS
      <4>1. InList(h, b[j]) = InList(hdr, bin[j])
        BY <3>2
      <4>2. \A z \in InList(hdr, bin[j]) : h[z].size = hdr[z].size
        BY <3>1, <3>3, <3>4
      <4> QED
        BY <4>1, <4>2 DEF NodesOf
    <3>8. BinChunks(bin', hdr') =
             [F EXCEPT ![i] = @ \ {C(c), C(e)},
                       ![i + 1] = @ \cup {[addr |-> c, size |-> 2 * hdr[c].size]}]
      <4> DEFINE G == [F EXCEPT ![i] = @ \ {C(c), C(e)},
                          ![i + 1] = @ \cup {[addr |-> c, size |-> 2 * hdr[c].size]}]
      <4>1. F = [j \in Bins |-> NodesOf(hdr, bin[j])]
        BY DEF BinChunks
      <4>2. BinChunks(bin', hdr') = [j \in Bins |-> NodesOf(h, b[j])]
        BY <2>10 DEF BinChunks
      <4> HIDE DEF C, F
      <4>3. G = [j \in Bins |-> IF j = i THEN F[i] \ {C(c), C(e)}
                   ELSE IF j = i + 1
                   THEN F[i + 1] \cup {[addr |-> c, size |-> 2 * hdr[c].size]}
                   ELSE F[j]]
        BY <2>2, <4>1
      <4>4. \A j \in Bins : G[j] = NodesOf(h, b[j])
        BY <2>2, <3>5, <3>6, <3>7, <4>1, <4>3
      <4> QED
        BY <4>2, <4>3, <4>4
    <3>9. C(c) \in F[i] /\ C(e) \in F[i]
      BY <2>2, <2>7 DEF BinChunks, NodesOf
    <3>10. C(c).addr = c /\ C(c).size = hdr[c].size /\ C(e).addr = e
      OBVIOUS
    <3>11. H!FirstAdjacent(i, C(c), C(e))
      <4>1. C(e).addr = C(c).addr + C(c).size
        BY <2>1, <2>5, <3>10
      <4>2. ASSUME NEW c2 \in F[i], NEW d2 \in F[i], d2.addr = c2.addr + c2.size
            PROVE  c <= c2.addr
        <5>1. PICK x \in InList(hdr, bin[i]) : c2 = [addr |-> x, size |-> hdr[x].size]
          BY <2>2 DEF BinChunks, NodesOf
        <5>2. PICK y \in InList(hdr, bin[i]) : d2 = [addr |-> y, size |-> hdr[y].size]
          BY <2>2 DEF BinChunks, NodesOf
        <5>3. PICK j \in 1 .. Len(s) : x = s[j]
          BY <2>4
        <5>4. PICK l \in 1 .. Len(s) : y = s[l]
          BY <2>4
        <5>5. s[l] = s[j] + hdr[s[j]].size
          BY <4>2, <5>1, <5>2, <5>3, <5>4
        <5>6. l = j + 1
          BY <1>2, <2>2, <5>5, NextStarts
        <5>7. ~(j \in 1 .. k - 1)
          BY <2>1, <5>5, <5>6
        <5>8. k = j \/ k < j
          BY <5>7
        <5>9. c \in Nat /\ x \in Nat /\ Offset[c] = c /\ Offset[x] = x
          BY <2>2, <2>3, <2>7 DEF FreeNodesSound, Offset
        <5>10. c <= x
          <6>1. CASE k = j
            BY <2>5, <5>3, <5>9, <6>1
          <6>2. CASE k < j
            <7>1. Offset[s[k]] <= Offset[s[j]]
              BY <2>4, <2>7, <6>2 DEF Ordered
            <7> QED
              BY <2>5, <5>3, <5>9, <7>1
          <6> QED
            BY <5>8, <6>1, <6>2
        <5> QED
          BY <5>1, <5>10
      <4> HIDE DEF C
      <4> QED
        BY <3>10, <4>1, <4>2 DEF H!FirstAdjacent, H!End
    <3>12. /\ i + 1 \in H!Bins /\ H!Merging
           /\ merge_index' = IF i + 1 = NBins - 1 THEN H!None ELSE i + 1
      BY <1>3, <2>1, <2>2, Constants
      DEF Merging, H!Merging, Sets!None, H!None
    <3>13. HeldChunks(held', hdr') = HeldChunks(held, hdr)
      <4>1. \A q \in held : hdr'[q.ptr - HDR].size = hdr[q.ptr - HDR].size
        BY <2>14 DEF HeldAt
      <4>2. HeldChunks(held, hdr') = HeldChunks(held, hdr)
        BY <4>1, SameHeldChunks
      <4> QED
        BY <2>1, <4>2
    <3> HIDE DEF C
    <3>14. H!MergePair
      <4>1. PICK c1, d1 : c1 = C(c) /\ d1 = C(e)
        OBVIOUS
      <4>2. c1 \in F[merge_index] /\ d1 \in F[merge_index]
            /\ H!FirstAdjacent(merge_index, c1, d1)
        BY <1>1, <3>9, <3>11, <4>1
      <4>3. BinChunks(bin', hdr') =
               [F EXCEPT ![merge_index] = @ \ {c1, d1},
                         ![merge_index + 1] =
                            @ \cup {[addr |-> c1.addr, size |-> 2 * c1.size]}]
        BY <1>1, <3>8, <3>10, <4>1
      <4>4. /\ merge_index + 1 \in H!Bins
            /\ merge_index' = IF merge_index + 1 = NBins - 1 THEN H!None
                              ELSE merge_index + 1
        BY <1>1, <3>12
      <4> QED
        BY <2>1, <3>12, <3>13, <4>2, <4>3, <4>4
        DEF H!MergePair, H!MkChunk, H!mmapVars
    <3>15. H!Next
      BY <3>14 DEF H!Next, H!Merge
    <3> QED
      BY <3>14, <3>15, HeapStep DEF Inv
  <2>19. AreasStay
    BY <2>1, <2>14 DEF AreasStay, mmapVars
  <2> QED
    BY <2>1, <2>15, <2>16, <2>17, <2>18, <2>19 DEF Inv, mmapVars
<1> QED
  BY <1>4, <1>5

-----------------------------------------------------------------------------
(* The theorems                                                             *)

LEMMA InvInit == Init => Inv
<1> SUFFICES ASSUME Init PROVE Inv
  OBVIOUS
<1>1. hdr = <<>> /\ held = {} /\ held_mmap = {} /\ written = {} /\ caller \in Callers
      /\ bin = [i \in 0 .. NBins - 1 |-> NULL] /\ allocated_heap = NULL
      /\ mmap_alloc_list = NULL /\ mapped = {}
  BY DEF Init
<1>2. IsHeaders(hdr)
  <2>1. DOMAIN hdr = {}
    BY <1>1
  <2>2. hdr = [a \in {} |-> [size |-> 0, prev |-> 0, next |-> 0]]
    BY <1>1
  <2> QED
    BY <2>1, <2>2, FS_EmptySet DEF IsHeaders
<1>3. \A key : SortedList(hdr, NULL, key, NULL) /\ InList(hdr, NULL) = {}
  BY <1>2, NullIsEnd, EmptyList
<1>4. FreeLinked
  <2>1. DOMAIN bin = Bins /\ \A i \in Bins : bin[i] = NULL
    BY <1>1, BinSizes
  <2> QED
    BY <1>2, <1>3, <2>1 DEF FreeLinked, BinsLinked, FreeList
<1>5. HeldAt = {} /\ AreasAt = {}
  BY <1>1 DEF HeldAt, AreasAt
<1>6. Types
  BY <1>1, <1>5, FS_EmptySet DEF Types
<1>7. UsedLinked
  BY <1>1, <1>3, <1>5, NullIsEnd DEF UsedLinked, LinkedUpToWrite
<1>8. MmapLinked
  BY <1>1, <1>3, <1>5, NullIsEnd DEF MmapLinked, LinkedUpToWrite
<1>9. H!HeldInv
  <2>1. HeldChunks(held, hdr) = {}
    BY <1>1 DEF HeldChunks
  <2>2. BinChunks(bin, hdr) = [i \in Bins |-> {}]
    <3>1. \A i \in Bins : NodesOf(hdr, bin[i]) = {}
      BY <1>1, <1>3, BinSizes DEF NodesOf
    <3> QED
      BY <3>1 DEF BinChunks
  <2>3. H!Init
    BY <1>1, <2>1, <2>2, Constants DEF Init, H!Init, Sets!None, H!None
  <2> QED
    BY <2>3, Constants, H!HeldInit
<1> QED
  BY <1>4, <1>6, <1>7, <1>8, <1>9 DEF Inv

LEMMA PointersAreInts == Pointers \subseteq Int
<1>1. MmapAddrs \subseteq Nat /\ HDR \in Nat
  BY Constants, BinSizes DEF H!RequestAssumption
<1>2. \A k \in 0 .. Sets!HEAP_INITIAL \div Bytes[0] - 1 : k * Bytes[0] \in Int
  BY BinSizes
<1> QED
  BY <1>1, <1>2 DEF Pointers

LEMMA InvStep == Inv /\ [Next]_vars => Inv'
<1> SUFFICES ASSUME Inv, [Next]_vars PROVE Inv'
  OBVIOUS
<1>1. ASSUME NEW bytes \in caller.requests, Malloc(bytes) PROVE Inv'
  <2>1. bytes \in Requests
    BY CallersAssumption DEF Inv, Types
  <2>2. CASE MmapAllocate(bytes)
    BY <2>1, <2>2, MmapAllocateKeeps
  <2>3. CASE MmapFails(bytes)
    BY <2>3, CrashKeeps DEF MmapFails
  <2>4. CASE FirstAllocate(bytes)
    BY <2>1, <2>4, FirstAllocateKeeps
  <2>5. CASE AllocateFromBin(bytes)
    BY <2>1, <2>5, AllocateFromBinKeeps
  <2>6. CASE AllocateFromLarger(bytes)
    BY <2>1, <2>6, AllocateFromLargerKeeps
  <2>7. CASE ReadsBinMinusOne(bytes)
    BY <2>7, CrashKeeps DEF ReadsBinMinusOne
  <2> QED
    BY <1>1, <2>2, <2>3, <2>4, <2>5, <2>6, <2>7 DEF Malloc
<1>2. ASSUME NEW mem \in Pointers, Free(mem) PROVE Inv'
  <2>1. mem \in Int
    BY PointersAreInts
  <2>2. CASE FreeMmap(mem)
    BY <2>1, <2>2, FreeMmapKeeps
  <2>3. CASE FreeHeap(mem)
    BY <2>1, <2>3, FreeHeapKeeps
  <2>4. CASE FreeFails(mem)
    BY <2>1, <2>4, FreeFailsKeeps
  <2>5. CASE FreeGoesWild(mem)
    BY <2>5, CrashKeeps DEF FreeGoesWild
  <2> QED
    BY <1>2, <2>2, <2>3, <2>4, <2>5 DEF Free
<1>3. CASE MergeDone
  BY <1>3, MergeDoneKeeps
<1>4. CASE MergePair
  BY <1>4, MergePairKeeps
<1>5. ASSUME NEW mem \in {h.ptr : h \in held} \cup held_mmap, WriteBlock(mem)
      PROVE  Inv'
  BY <1>5, WriteKeeps
<1>6. CASE UNCHANGED vars
  BY <1>6, StutterKeeps
<1> QED
  BY <1>1, <1>2, <1>3, <1>4, <1>5, <1>6 DEF Next

\* A list that is linked and ordered is what the properties ask for.
LEMMA ListIsSound ==
    ASSUME IsHeaders(hdr), NEW head, NEW key, NEW key2,
           SortedList(hdr, head, key, NULL),
           \A a \in InList(hdr, head) : key2[a] = key[a]
    PROVE  IsList(head) /\ InOrder(head, key2)
<1>1. PICK s : s = Walk(hdr, head)
  OBVIOUS
<1>2. /\ IsChain(hdr, head, s, NULL) /\ Ordered(s, key) /\ Len(s) \in Nat
      /\ InList(hdr, head) = {s[j] : j \in 1 .. Len(s)}
  BY <1>1, NullIsEnd, ListNodes
<1>3. \A k \in 1 .. Len(s) : /\ hdr[s[k]].next = NextIn(s, k, NULL)
                             /\ hdr[s[k]].prev = PrevIn(s, k)
  BY <1>2 DEF IsChain
<1>4. \A k \in 1 .. Len(s) - 1 :
         /\ k \in 1 .. Len(s) /\ k + 1 \in 1 .. Len(s) /\ k < k + 1
         /\ k + 1 # 1 /\ (k + 1) - 1 = k
  BY <1>2
<1>5. s # <<>> => hdr[Last(s)].next = NULL /\ hdr[s[1]].prev = NULL
  <2> SUFFICES ASSUME s # <<>>
               PROVE  hdr[Last(s)].next = NULL /\ hdr[s[1]].prev = NULL
    OBVIOUS
  <2>1. 1 \in 1 .. Len(s) /\ Len(s) \in 1 .. Len(s)
    <3>1. PICK D : D = DOMAIN hdr
      OBVIOUS
    <3>2. s \in Seq(D)
      BY <1>2, <3>1 DEF IsChain
    <3> QED
      BY <3>2
  <2> QED
    BY <1>3, <2>1 DEF Last, NextIn, PrevIn
<1>6. \A k \in 1 .. Len(s) - 1 : hdr[s[k + 1]].prev = s[k]
  BY <1>3, <1>4 DEF PrevIn
<1>7. \A k \in 1 .. Len(s) - 1 : key2[s[k]] <= key2[s[k + 1]]
  BY <1>2, <1>4 DEF Ordered
<1> QED
  BY <1>1, <1>5, <1>6, <1>7 DEF IsList, InOrder

\* Every list of free chunks is linked both ways, in order of address, and
\* ends, whatever the caller writes into its blocks: popNode(), insertSorted()
\* and merge() can rely on it (hw_malloc.c:166-218, 359).
THEOREM FreeListsAreSound == Spec => []FreeListsSound
<1>1. Inv => FreeListsSound
  <2> SUFFICES ASSUME Inv, NEW i \in Bins
               PROVE  IsList(bin[i]) /\ InOrder(bin[i], Address)
    BY DEF FreeListsSound
  <2>1. IsHeaders(hdr) /\ SortedList(hdr, bin[i], Offset, NULL)
    BY DEF Inv, FreeLinked, BinsLinked, FreeList
  <2>2. InList(hdr, bin[i]) \subseteq DOMAIN hdr
    BY <2>1, NullIsEnd, ListNodes
  <2>3. \A a \in InList(hdr, bin[i]) : Address[a] = Offset[a]
    BY <2>1, <2>2 DEF Address, Offset, IsHeaders
  <2> QED
    BY <2>1, <2>3, ListIsSound
<1> QED
  BY <1>1, InvInit, InvStep, PTL DEF Spec

\* As long as the caller does not write into its blocks, allocated_heap and
\* mmap_alloc_list are such lists too, the second in order of size, and no
\* header is linked in a bin and in allocated_heap (hw_malloc.c:223-265).
THEOREM UsedListsAreSound == Spec => []UsedListsSound
<1>1. Inv => UsedListsSound
  <2> SUFFICES ASSUME Inv, caller.writes = 0
               PROVE  /\ IsList(allocated_heap) /\ InOrder(allocated_heap, Address)
                      /\ IsList(mmap_alloc_list) /\ InOrder(mmap_alloc_list, Size)
                      /\ \A i \in Bins : InList(hdr, bin[i])
                                          \cap InList(hdr, allocated_heap) = {}
    BY DEF UsedListsSound
  <2>1. IsHeaders(hdr) /\ written = {}
    BY DEF Inv, Types, FreeLinked, BinsLinked
  <2>2. SortedList(hdr, allocated_heap, Offset, NULL)
        /\ SortedList(hdr, mmap_alloc_list, SizeIn(hdr), NULL)
    BY <2>1 DEF Inv, UsedLinked, MmapLinked, LinkedUpToWrite
  <2>3. InList(hdr, allocated_heap) \subseteq DOMAIN hdr
        /\ InList(hdr, mmap_alloc_list) \subseteq DOMAIN hdr
    BY <2>1, <2>2, NullIsEnd, ListNodes
  <2>4. \A a \in InList(hdr, allocated_heap) : Address[a] = Offset[a]
    BY <2>1, <2>3 DEF Address, Offset, IsHeaders
  <2>5. \A a \in InList(hdr, mmap_alloc_list) : Size[a] = SizeIn(hdr)[a]
    BY <2>3 DEF Size, SizeIn
  <2>6. IsList(allocated_heap) /\ InOrder(allocated_heap, Address)
    BY <2>1, <2>2, <2>4, ListIsSound
  <2>7. IsList(mmap_alloc_list) /\ InOrder(mmap_alloc_list, Size)
    BY <2>1, <2>2, <2>5, ListIsSound
  <2>8. \A i \in Bins : InList(hdr, bin[i]) \cap InList(hdr, allocated_heap) = {}
    BY NodeFacts DEF Inv, UsedLinked, FreeNodesSound
  <2> QED
    BY <2>6, <2>7, <2>8
<1> QED
  BY <1>1, InvInit, InvStep, PTL DEF Spec

\* Whatever the caller writes into its blocks, hw_free() still finds each of
\* them that lies at no higher address than the first it has written into
\* (hw_malloc.c:119, 328-344).
THEOREM LostOnlyBehindWrites == Spec => []LostBehindWrites
<1>1. Inv => LostBehindWrites
  BY DEF Inv, UsedLinked, LostBehindWrites, HeldAt
<1> QED
  BY <1>1, InvInit, InvStep, PTL DEF Spec

\* Whatever the caller writes into its blocks, none of them shares a byte with
\* another or with a free chunk.
THEOREM HeldStayApart == Spec => []HeldApart
<1>1. Inv => HeldApart
  <2> DEFINE FreeNodes == UNION {InList(hdr, bin[i]) : i \in Bins}
  <2> SUFFICES ASSUME Inv, NEW h \in held,
                      NEW b \in FreeNodes \cup {g.ptr - HDR : g \in held \ {h}}
               PROVE  \/ (h.ptr - HDR) + hdr[h.ptr - HDR].size <= b
                      \/ b + hdr[b].size <= h.ptr - HDR
    BY DEF HeldApart
  <2>1. NodesApart /\ FreeNodesSound
    BY NodeFacts DEF Inv
  <2>2. PICK a : a = h.ptr - HDR
    OBVIOUS
  <2>3. a \in HeldAt
    BY <2>2 DEF HeldAt
  <2>4. b \in FreeAt \cup HeldAt /\ b # a
    <3>1. CASE b \in FreeNodes
      BY <2>1, <2>3, <3>1 DEF FreeAt, FreeNodesSound
    <3>2. CASE b \in {g.ptr - HDR : g \in held \ {h}}
      <4>1. PICK g \in held \ {h} : b = g.ptr - HDR
        BY <3>2
      <4>2. g.ptr # h.ptr
        BY <4>1 DEF Inv, H!HeldInv, H!HeldOnce
      <4>3. g.ptr \in Nat /\ h.ptr \in Nat /\ HDR \in Nat
        BY <4>1, BinSizes DEF Inv, H!HeldInv, H!HeapInv, H!TypeOK
      <4> QED
        BY <2>2, <4>1, <4>2, <4>3 DEF HeldAt
    <3> QED
      BY <3>1, <3>2
  <2>5. a + hdr[a].size <= b \/ b + hdr[b].size <= a
    BY <2>1, <2>3, <2>4 DEF NodesApart
  <2> QED
    BY <2>2, <2>5
<1> QED
  BY <1>1, InvInit, InvStep, PTL DEF Spec

-----------------------------------------------------------------------------
(* The lists implement HwMalloc                                             *)

\* Until the caller writes, the state that HwMalloc is given here is that of
\* the heap, and the nodes of the areas.
SameState ==
    /\ NoWrites(first_time, FALSE) = first_time
    /\ BinNodes = BinChunks(bin, hdr)
    /\ NoWrites(Nodes(allocated_heap), {}) = HeldChunks(held, hdr)
    /\ NoWrites(merge_index, -1) = merge_index
    /\ NoWrites(Nodes(mmap_alloc_list), {}) = AreaNodes
    /\ NoWrites(mapped, {}) = mapped
    /\ NoWrites(held, {}) = held
    /\ NoWrites(held_mmap, {}) = held_mmap
    /\ NoWrites(fault, "none") = fault

LEMMA StateIsSame == Inv /\ caller.writes = 0 => SameState
<1> SUFFICES ASSUME Inv, caller.writes = 0 PROVE SameState
  OBVIOUS
<1>1. written = {}
  BY DEF Inv, Types
<1>2. \A now, atStart : NoWrites(now, atStart) = now
  BY DEF NoWrites
<1>3. \A a : Nodes(a) = NodesOf(hdr, a)
  BY DEF Nodes, NodesOf
<1>4. DOMAIN bin = Bins
  BY DEF Inv, FreeLinked, BinsLinked
<1>5. BinNodes = BinChunks(bin, hdr)
  BY <1>2, <1>3, <1>4 DEF BinChunks, BinNodes
<1>6. InList(hdr, allocated_heap) = HeldAt
  BY <1>1 DEF Inv, UsedLinked
<1>7. NodesOf(hdr, allocated_heap) = HeldChunks(held, hdr)
  BY <1>6 DEF NodesOf, HeldChunks, HeldAt
<1> QED
  BY <1>2, <1>3, <1>5, <1>7 DEF SameState, AreaNodes

\* A step of the heap changes no node of the areas.
LEMMA AreaNodesStay ==
    ASSUME Inv, caller.writes = 0, Inv', AreasStay, UNCHANGED mmap_alloc_list
    PROVE  AreaNodes' = AreaNodes
<1>1. IsHeaders(hdr) /\ IsHeaders(hdr') /\ written = {}
  BY DEF Inv, Types, FreeLinked, BinsLinked
<1>2. SortedList(hdr, mmap_alloc_list, SizeIn(hdr), NULL)
  BY <1>1 DEF Inv, MmapLinked, LinkedUpToWrite
<1>3. InList(hdr, mmap_alloc_list) \subseteq AreasAt /\ AreasAt \subseteq DOMAIN hdr
  BY DEF Inv, MmapLinked, Types
<1>4. PICK g, x : g = hdr' /\ x = mmap_alloc_list
  OBVIOUS
<1>5. /\ \A a \in InList(hdr, x) : a \in DOMAIN g /\ g[a] = hdr[a]
      /\ \A a \in InList(hdr, x) : SizeIn(g)[a] = SizeIn(hdr)[a]
  BY <1>3, <1>4 DEF AreasStay, SizeIn
<1>6. InList(g, x) = InList(hdr, x)
  BY <1>1, <1>2, <1>4, <1>5, NullIsEnd, ListKept
<1>7. NodesOf(g, x) = NodesOf(hdr, x)
  BY <1>5, <1>6 DEF NodesOf
<1> QED
  BY <1>4, <1>7 DEF AreaNodes

LEMMA SameSizes ==
    /\ H!Bins = Bins /\ H!HEAP_INITIAL = HEAP
    /\ \A i, bytes : H!IsProperBin(i, H!RequireByte(bytes))
                        <=> Sets!IsProperBin(i, Sets!RequireByte(bytes))
    /\ \A i, size : H!IsProperBin(i, size) <=> Sets!IsProperBin(i, size)
BY Constants DEF H!IsProperBin, Sets!IsProperBin, H!RequireByte, Sets!RequireByte

\* A step of the heap alone, seen as one of HwMalloc.
HeapAlone ==
    /\ SameState /\ SameState' /\ AreaNodes' = AreaNodes
    /\ UNCHANGED <<mapped, held_mmap, fault>> /\ fault = "none"

LEMMA SameNormalAllocate ==
    ASSUME HeapAlone, NEW bytes, H!NormalAllocate(bytes)
    PROVE  Sets!NormalAllocate(bytes)
<1>1. PICK i \in Bins : \E pop \in BinChunks(bin, hdr)[i] :
          /\ Sets!IsProperBin(i, Sets!RequireByte(bytes))
          /\ \A d \in BinChunks(bin, hdr)[i] : pop.addr <= d.addr
          /\ BinChunks(bin, hdr)' = [BinChunks(bin, hdr) EXCEPT ![i] = @ \ {pop}]
          /\ HeldChunks(held, hdr)' = HeldChunks(held, hdr) \cup {pop}
          /\ H!Give(pop.addr, bytes)
  BY SameSizes DEF H!NormalAllocate
<1>2. PICK pop \in BinChunks(bin, hdr)[i] :
          /\ Sets!IsProperBin(i, Sets!RequireByte(bytes))
          /\ \A d \in BinChunks(bin, hdr)[i] : pop.addr <= d.addr
          /\ BinChunks(bin, hdr)' = [BinChunks(bin, hdr) EXCEPT ![i] = @ \ {pop}]
          /\ HeldChunks(held, hdr)' = HeldChunks(held, hdr) \cup {pop}
          /\ H!Give(pop.addr, bytes)
  BY <1>1
<1>3. Sets!Give(pop.addr, bytes)
  BY <1>2 DEF H!Give, Sets!Give, HeapAlone, SameState
<1>4. Sets!Ready /\ UNCHANGED Sets!mmapVars
  BY DEF H!NormalAllocate, H!Ready, H!None, Sets!Ready, Sets!None,
         Sets!mmapVars, HeapAlone, SameState
<1>5. i \in Sets!Bins /\ pop \in BinNodes[i]
  BY <1>2 DEF HeapAlone, SameState, Bins
<1>6. /\ \A d \in BinNodes[i] : pop.addr <= d.addr
      /\ BinNodes' = [BinNodes EXCEPT ![i] = @ \ {pop}]
      /\ NoWrites(Nodes(allocated_heap), {})' =
            NoWrites(Nodes(allocated_heap), {}) \cup {pop}
  BY <1>2 DEF HeapAlone, SameState
<1>7. /\ NoWrites(first_time, FALSE)
      /\ UNCHANGED <<NoWrites(first_time, FALSE), NoWrites(merge_index, -1),
                     NoWrites(fault, "none")>>
  BY DEF H!NormalAllocate, HeapAlone, SameState
<1> QED
  BY <1>2, <1>3, <1>4, <1>5, <1>6, <1>7 DEF Sets!NormalAllocate

LEMMA SameSplitToAllocate ==
    ASSUME HeapAlone, NEW bytes, H!SplitToAllocate(bytes)
    PROVE  Sets!SplitToAllocate(bytes)
<1> DEFINE Splits(i, s, root) ==
              /\ Sets!IsProperBin(i, Sets!RequireByte(bytes))
              /\ BinChunks(bin, hdr)[i] = {}
              /\ root.addr < HEAP
              /\ \A k \in i + 1 .. NBins - 1 : \A d \in BinChunks(bin, hdr)[k] :
                    root.addr <= d.addr
              /\ BinChunks(bin, hdr)' = H!SplitBins(i, s, root)
              /\ HeldChunks(held, hdr)' = HeldChunks(held, hdr) \cup
                                             {H!MkChunk(root.addr, Bytes[i])}
              /\ H!Give(root.addr, bytes)
<1>1. PICK i \in Bins : \E s \in i + 1 .. NBins - 1 :
         \E root \in BinChunks(bin, hdr)[s] : Splits(i, s, root)
  BY SameSizes DEF H!SplitToAllocate
<1>2. PICK s \in i + 1 .. NBins - 1 :
         \E root \in BinChunks(bin, hdr)[s] : Splits(i, s, root)
  BY <1>1
<1>3. PICK root \in BinChunks(bin, hdr)[s] : Splits(i, s, root)
  BY <1>2
<1>4. Sets!Give(root.addr, bytes)
  BY <1>3 DEF H!Give, Sets!Give, HeapAlone, SameState
<1>5. Sets!Ready /\ UNCHANGED Sets!mmapVars
  BY DEF H!SplitToAllocate, H!Ready, H!None, Sets!Ready, Sets!None,
         Sets!mmapVars, HeapAlone, SameState
<1>6. i \in Sets!Bins /\ root \in BinNodes[s] /\ root.addr < Sets!HEAP_INITIAL
  BY <1>3 DEF HeapAlone, SameState, Bins, HEAP
<1>7. /\ BinNodes[i] = {}
      /\ \A k \in i + 1 .. NBins - 1 : \A d \in BinNodes[k] : root.addr <= d.addr
  BY <1>3 DEF HeapAlone, SameState
<1>8. BinNodes' = Sets!SplitBins(i, s, root)
  <2>1. BinNodes' = H!SplitBins(i, s, root) /\ BinNodes = BinChunks(bin, hdr)
    BY <1>3 DEF HeapAlone, SameState
  <2> QED
    BY <2>1, SameSizes DEF H!SplitBins, Sets!SplitBins, H!MkChunk, Sets!MkChunk, Bins
<1>9. NoWrites(Nodes(allocated_heap), {})' =
         NoWrites(Nodes(allocated_heap), {}) \cup
            {Sets!MkChunk(root.addr, Bytes[i])}
  BY <1>3 DEF HeapAlone, SameState, H!MkChunk, Sets!MkChunk
<1>10. /\ NoWrites(first_time, FALSE)
       /\ UNCHANGED <<NoWrites(first_time, FALSE), NoWrites(merge_index, -1),
                      NoWrites(fault, "none")>>
  BY DEF H!SplitToAllocate, HeapAlone, SameState
<1> QED
  BY <1>3, <1>4, <1>5, <1>6, <1>7, <1>8, <1>9, <1>10 DEF Sets!SplitToAllocate

LEMMA SameFreeHeap ==
    ASSUME HeapAlone, NEW mem, H!FreeHeap(mem)
    PROVE  Sets!FreeHeap(mem)
<1> DEFINE Frees(c, i) ==
              /\ c.addr = mem - HDR
              /\ Sets!IsProperBin(i, c.size)
              /\ HeldChunks(held, hdr)' = HeldChunks(held, hdr) \ {c}
              /\ BinChunks(bin, hdr)' = [BinChunks(bin, hdr) EXCEPT ![i] = @ \cup {c}]
              /\ merge_index' = i
<1>1. PICK c \in HeldChunks(held, hdr) : \E i \in Bins : Frees(c, i)
  BY SameSizes DEF H!FreeHeap
<1>2. PICK i \in Bins : Frees(c, i)
  BY <1>1
<1>3. Sets!Ready /\ UNCHANGED Sets!mmapVars
  BY DEF H!FreeHeap, H!Ready, H!None, Sets!Ready, Sets!None,
         Sets!mmapVars, HeapAlone, SameState
<1>4. c \in NoWrites(Nodes(allocated_heap), {}) /\ i \in Sets!Bins
  BY <1>1 DEF HeapAlone, SameState, Bins
<1>5. /\ NoWrites(Nodes(allocated_heap), {})' =
            NoWrites(Nodes(allocated_heap), {}) \ {c}
      /\ BinNodes' = [BinNodes EXCEPT ![i] = @ \cup {c}]
      /\ NoWrites(merge_index, -1)' = i
  BY <1>2 DEF HeapAlone, SameState
<1>6. /\ NoWrites(held, {})' = {h \in NoWrites(held, {}) : h.ptr # mem}
      /\ UNCHANGED <<NoWrites(first_time, FALSE), NoWrites(fault, "none")>>
  BY DEF H!FreeHeap, HeapAlone, SameState
<1> QED
  BY <1>2, <1>3, <1>4, <1>5, <1>6 DEF Sets!FreeHeap

LEMMA SameMergeDone ==
    ASSUME HeapAlone, H!MergeDone PROVE Sets!MergeDone
<1>1. ~Sets!Adjacent(NoWrites(merge_index, -1))
  BY DEF H!MergeDone, H!Adjacent, Sets!Adjacent, H!End, Sets!End, HeapAlone,
         SameState
<1>2. Sets!Merging /\ UNCHANGED Sets!mmapVars
  BY DEF H!MergeDone, H!Merging, H!None, Sets!Merging, Sets!None,
         Sets!mmapVars, HeapAlone, SameState
<1>3. /\ NoWrites(merge_index, -1)' = Sets!None
      /\ UNCHANGED <<NoWrites(first_time, FALSE), BinNodes,
                     NoWrites(Nodes(allocated_heap), {}), NoWrites(held, {}),
                     NoWrites(fault, "none")>>
  BY DEF H!MergeDone, H!None, Sets!None, HeapAlone, SameState
<1> QED
  BY <1>1, <1>2, <1>3 DEF Sets!MergeDone

LEMMA SameMergePair ==
    ASSUME HeapAlone, H!MergePair PROVE Sets!MergePair
<1> DEFINE Joins(c, d) ==
              /\ H!FirstAdjacent(merge_index, c, d)
              /\ BinChunks(bin, hdr)' =
                    [BinChunks(bin, hdr) EXCEPT
                        ![merge_index] = @ \ {c, d},
                        ![merge_index + 1] =
                            @ \cup {H!MkChunk(c.addr, 2 * c.size)}]
<1>1. PICK c, d : /\ c \in BinChunks(bin, hdr)[merge_index]
                  /\ d \in BinChunks(bin, hdr)[merge_index]
                  /\ Joins(c, d)
  BY DEF H!MergePair
<1>2. NoWrites(merge_index, -1) = merge_index /\ BinNodes = BinChunks(bin, hdr)
  BY DEF HeapAlone, SameState
<1>3. Sets!FirstAdjacent(NoWrites(merge_index, -1), c, d)
  BY <1>1, <1>2 DEF H!FirstAdjacent, Sets!FirstAdjacent, H!End, Sets!End
<1>4. BinNodes' = [BinNodes EXCEPT
                      ![NoWrites(merge_index, -1)] = @ \ {c, d},
                      ![NoWrites(merge_index, -1) + 1] =
                          @ \cup {Sets!MkChunk(c.addr, 2 * c.size)}]
  BY <1>1, <1>2 DEF HeapAlone, SameState, H!MkChunk, Sets!MkChunk
<1>5. Sets!Merging /\ UNCHANGED Sets!mmapVars
  BY DEF H!MergePair, H!Merging, H!None, Sets!Merging, Sets!None,
         Sets!mmapVars, HeapAlone, SameState
<1>6. /\ NoWrites(merge_index, -1) + 1 \in Sets!Bins
      /\ c \in BinNodes[NoWrites(merge_index, -1)]
      /\ d \in BinNodes[NoWrites(merge_index, -1)]
  BY <1>1, <1>2, SameSizes DEF H!MergePair, Bins
<1>7. /\ NoWrites(merge_index, -1)' =
            IF NoWrites(merge_index, -1) + 1 = NBins - 1 THEN Sets!None
            ELSE NoWrites(merge_index, -1) + 1
      /\ UNCHANGED <<NoWrites(first_time, FALSE),
                     NoWrites(Nodes(allocated_heap), {}), NoWrites(held, {}),
                     NoWrites(fault, "none")>>
  BY DEF H!MergePair, H!None, Sets!None, HeapAlone, SameState
<1> QED
  BY <1>3, <1>4, <1>5, <1>6, <1>7 DEF Sets!MergePair

\* The first small request also empties the list of the areas.
LEMMA SameFirstAllocate ==
    ASSUME SameState, SameState', UNCHANGED <<mapped, held_mmap, fault>>,
           fault = "none", AreaNodes' = {}, NEW bytes, H!FirstAllocate(bytes)
    PROVE  Sets!FirstAllocate(bytes)
<1> DEFINE Cuts(i) ==
              /\ Sets!IsProperBin(i, Sets!RequireByte(bytes))
              /\ BinChunks(bin, hdr)' =
                    [k \in H!Bins |-> IF k >= i THEN {H!MkChunk(Bytes[k], Bytes[k])}
                                                ELSE {}]
              /\ HeldChunks(held, hdr)' = HeldChunks(held, hdr) \cup
                                             {H!MkChunk(0, Bytes[i])}
<1>1. PICK i \in Bins : Cuts(i)
  BY SameSizes DEF H!FirstAllocate
<1>2. Sets!Give(0, bytes)
  BY DEF H!FirstAllocate, H!Give, Sets!Give, SameState
<1>3. Sets!Ready
  BY DEF H!FirstAllocate, H!Ready, H!None, Sets!Ready, Sets!None, SameState
<1>4. BinNodes' = [k \in Sets!Bins |->
                     IF k >= i THEN {Sets!MkChunk(Bytes[k], Bytes[k])} ELSE {}]
  <2>1. BinNodes' = BinChunks(bin, hdr)'
    BY DEF SameState
  <2> QED
    BY <1>1, <2>1, SameSizes DEF Bins, H!MkChunk, Sets!MkChunk
<1>5. NoWrites(Nodes(allocated_heap), {})' =
         NoWrites(Nodes(allocated_heap), {}) \cup {Sets!MkChunk(0, Bytes[i])}
  BY <1>1 DEF SameState, H!MkChunk, Sets!MkChunk
<1>6. /\ ~NoWrites(first_time, FALSE) /\ NoWrites(first_time, FALSE)' = TRUE
      /\ NoWrites(Nodes(mmap_alloc_list), {})' = {}
      /\ UNCHANGED <<NoWrites(merge_index, -1), NoWrites(mapped, {}),
                     NoWrites(held_mmap, {}), NoWrites(fault, "none")>>
  BY DEF H!FirstAllocate, SameState
<1>7. i \in Sets!Bins
  BY DEF Bins
<1> QED
  BY <1>1, <1>2, <1>3, <1>4, <1>5, <1>6, <1>7 DEF Sets!FirstAllocate

\* A step of the areas alone.
LEMMA HeapSame ==
    ASSUME SameState, SameState', UNCHANGED <<heapVars, fault, H!vars>>
    PROVE  UNCHANGED <<Sets!heapVars, NoWrites(fault, "none")>>
<1>1. /\ BinChunks(bin, hdr)' = BinChunks(bin, hdr)
      /\ HeldChunks(held, hdr)' = HeldChunks(held, hdr)
      /\ UNCHANGED <<first_time, merge_index, held, fault>>
  BY DEF H!vars, heapVars
<1>2. /\ BinNodes' = BinNodes
      /\ NoWrites(Nodes(allocated_heap), {})' = NoWrites(Nodes(allocated_heap), {})
      /\ UNCHANGED <<NoWrites(first_time, FALSE), NoWrites(merge_index, -1),
                     NoWrites(held, {}), NoWrites(fault, "none")>>
  BY <1>1 DEF SameState
<1> QED
  BY <1>2 DEF Sets!heapVars

LEMMA SameReady ==
    /\ Ready /\ SameState => Sets!Ready
    /\ Merging /\ SameState => Sets!Merging
BY DEF Ready, Sets!Ready, Merging, Sets!Merging, SameState

LEMMA SameMmapAllocate ==
    ASSUME SameState, SameState', Ready, NEW bytes, NEW a \in MmapAddrs,
           Sets!RequireByte(bytes) > Sets!MMAP_THRESHOLD, AreaAdded(bytes, a)
    PROVE  Sets!MmapAllocate(bytes)
<1>1. UNCHANGED <<Sets!heapVars, NoWrites(fault, "none")>>
  BY HeapSame DEF AreaAdded
<1>2. Sets!Ready
  BY SameReady
<1>3. /\ \A m \in NoWrites(mapped, {}) : m.addr # a
      /\ NoWrites(mapped, {})' = NoWrites(mapped, {}) \cup
            {[addr |-> a, len |-> Sets!RequireByte(bytes)]}
      /\ NoWrites(Nodes(mmap_alloc_list), {})' =
            NoWrites(Nodes(mmap_alloc_list), {}) \cup
               {[addr |-> a, size |-> Sets!StoredSize(Sets!RequireByte(bytes))]}
      /\ NoWrites(held_mmap, {})' = NoWrites(held_mmap, {}) \cup {a + HDR}
  BY DEF AreaAdded, SameState
<1> QED
  BY <1>1, <1>2, <1>3 DEF Sets!MmapAllocate

LEMMA SameFreeMmap ==
    ASSUME SameState, SameState', Ready, NEW mem, NEW n \in AreaNodes,
           AreaRemoved(mem, n)
    PROVE  Sets!FreeMmap(mem)
<1>1. UNCHANGED <<Sets!heapVars, NoWrites(fault, "none")>>
  BY HeapSame DEF AreaRemoved
<1>2. Sets!Ready
  BY SameReady
<1>3. /\ n \in NoWrites(Nodes(mmap_alloc_list), {}) /\ n.addr = mem - HDR
      /\ NoWrites(Nodes(mmap_alloc_list), {})' =
            NoWrites(Nodes(mmap_alloc_list), {}) \ {n}
      /\ NoWrites(mapped, {})' =
            NoWrites(mapped, {}) \ {[addr |-> n.addr, len |-> n.size]}
      /\ NoWrites(held_mmap, {})' =
            IF n.size = 0 THEN NoWrites(held_mmap, {})
            ELSE NoWrites(held_mmap, {}) \ {mem}
  BY DEF AreaRemoved, SameState
<1> QED
  BY <1>1, <1>2, <1>3 DEF Sets!FreeMmap

LEMMA SameCrash ==
    ASSUME Inv, caller.writes = 0, Inv', NEW why, Crash(why)
    PROVE  Sets!Crash(why)
<1>1. SameState /\ SameState'
  <2>1. caller' = caller
    BY DEF Crash, ownVars
  <2>2. (Inv /\ caller.writes = 0 => SameState)'
    BY StateIsSame, PTL
  <2> QED
    BY <2>1, <2>2, StateIsSame
<1>2. UNCHANGED <<heapVars, mmapVars, caller, hdr>> /\ fault' = why
  BY DEF Crash, ownVars
<1>3. AreaNodes' = AreaNodes
  BY <1>2 DEF AreaNodes, mmapVars
<1>4. /\ BinChunks(bin, hdr)' = BinChunks(bin, hdr)
      /\ HeldChunks(held, hdr)' = HeldChunks(held, hdr)
      /\ UNCHANGED <<first_time, merge_index, held, mapped, held_mmap>>
  BY <1>2 DEF heapVars, mmapVars
<1>5. /\ BinNodes' = BinNodes
      /\ NoWrites(Nodes(allocated_heap), {})' = NoWrites(Nodes(allocated_heap), {})
      /\ NoWrites(Nodes(mmap_alloc_list), {})' = NoWrites(Nodes(mmap_alloc_list), {})
      /\ UNCHANGED <<NoWrites(first_time, FALSE), NoWrites(merge_index, -1),
                     NoWrites(held, {}), NoWrites(mapped, {}),
                     NoWrites(held_mmap, {})>>
      /\ NoWrites(fault, "none")' = why
  BY <1>1, <1>2, <1>3, <1>4 DEF SameState
<1> QED
  BY <1>5 DEF Sets!Crash, Sets!heapVars, Sets!mmapVars

LEMMA SameMmapFails ==
    ASSUME Inv, caller.writes = 0, Inv', NEW bytes, MmapFails(bytes)
    PROVE  Sets!MmapFails(bytes)
<1>1. Ready /\ Sets!RequireByte(bytes) > Sets!MMAP_THRESHOLD /\ Crash("MAP_FAILED")
  BY DEF MmapFails
<1>2. Sets!Ready /\ Sets!Crash("MAP_FAILED")
  BY <1>1, StateIsSame, SameReady, SameCrash
<1> QED
  BY <1>1, <1>2 DEF Sets!MmapFails

LEMMA SameBinMinusOne ==
    ASSUME Inv, caller.writes = 0, Inv', NEW bytes, ReadsBinMinusOne(bytes)
    PROVE  \/ Sets!SbrkFails(bytes) \/ Sets!NoChunkLeft(bytes)
           \/ Sets!NoProperBin(bytes)
<1>1. Ready /\ Crash("bin[-1]")
  BY DEF ReadsBinMinusOne
<1>2. SameState /\ Sets!Ready /\ Sets!Crash("bin[-1]")
  BY <1>1, StateIsSame, SameReady, SameCrash
<1>3. NoWrites(first_time, FALSE) = first_time
  BY <1>2 DEF SameState
<1>4. CASE Sets!RequireByte(bytes) <= HDR
  BY <1>2, <1>4 DEF Sets!NoProperBin
<1>5. CASE ~first_time /\ \E i \in Bins : HasBin(bytes, i)
  BY <1>2, <1>3, <1>5 DEF Sets!SbrkFails, HasBin, Bins
<1>6. CASE /\ first_time
           /\ \E i \in Bins : /\ HasBin(bytes, i)
                              /\ \A k \in i .. NBins - 1 : bin[k] = NULL
  <2>1. PICK i \in Bins : /\ HasBin(bytes, i)
                          /\ \A k \in i .. NBins - 1 : bin[k] = NULL
    BY <1>6
  <2>2. \A k \in i .. NBins - 1 : BinNodes[k] = {}
    <3> SUFFICES ASSUME NEW k \in i .. NBins - 1 PROVE BinNodes[k] = {}
      OBVIOUS
    <3>1. k \in Bins /\ bin[k] = NULL
      BY <2>1, BinSizes
    <3>2. InList(hdr, bin[k]) = {}
      BY <3>1, NullIsEnd, ListNodes DEF Inv, FreeLinked, BinsLinked, FreeList
    <3>3. NodesOf(hdr, bin[k]) = {}
      BY <3>2 DEF NodesOf
    <3> QED
      BY <1>2, <3>1, <3>3 DEF SameState, BinChunks
  <2>3. i \in Sets!Bins /\ Sets!IsProperBin(i, Sets!RequireByte(bytes))
    BY <2>1 DEF HasBin, Bins
  <2>4. /\ NoWrites(first_time, FALSE)
        /\ \E j \in Sets!Bins : /\ Sets!IsProperBin(j, Sets!RequireByte(bytes))
                                /\ \A k \in j .. NBins - 1 : BinNodes[k] = {}
    BY <1>3, <1>6, <2>2, <2>3
  <2> QED
    BY <1>2, <2>4 DEF Sets!NoChunkLeft
<1> QED
  BY <1>4, <1>5, <1>6 DEF ReadsBinMinusOne

\* At the last bin a pair leaves the array.
LEMMA SameMergeLastBin ==
    ASSUME Inv, caller.writes = 0, Inv', Merging, merge_index = NBins - 1,
           H!Adjacent(merge_index), Crash("bin[NBins]")
    PROVE  Sets!MergeLastBin
<1>1. SameState /\ Sets!Merging /\ Sets!Crash("bin[NBins]")
  BY StateIsSame, SameReady, SameCrash
<1>2. NoWrites(merge_index, -1) = merge_index /\ BinNodes = BinChunks(bin, hdr)
  BY <1>1 DEF SameState
<1>3. Sets!Adjacent(NoWrites(merge_index, -1))
  BY <1>2 DEF H!Adjacent, Sets!Adjacent, H!End, Sets!End
<1>4. NoWrites(merge_index, -1) = NBins - 1
  BY <1>2
<1> QED
  BY <1>1, <1>3, <1>4 DEF Sets!MergeLastBin

\* The caller changes only what it writes into, and a caller that may write
\* into no block writes into none.
LEMMA CallerInCrash == \A why : Crash(why) => caller' = caller
BY DEF Crash, ownVars

LEMMA CallerInNormalAllocate ==
    ASSUME NEW m, NEW i, NEW bytes, NormalAllocate(m, i, bytes)
    PROVE  caller' = caller
<1> DEFINE popped == PopNode(m.bin[i], m.hdr)
           used   == InsertSorted(allocated_heap, m.bin[i], popped.hdr)
<1>1. CASE popped.wild \/ used.wild
  <2>1. \E why : Crash(why)
    BY <1>1, Zenon DEF NormalAllocate
  <2> QED
    BY <2>1, CallerInCrash
<1>2. CASE ~(popped.wild \/ used.wild)
  BY <1>2 DEF NormalAllocate, ownVars
<1> QED
  BY <1>1, <1>2

LEMMA CallerStays == Inv /\ [Next]_vars => caller' = caller
<1> SUFFICES ASSUME Inv, [Next]_vars PROVE caller' = caller
  OBVIOUS
<1>1. ASSUME NEW bytes \in caller.requests, Malloc(bytes) PROVE caller' = caller
  <2>1. CASE MmapAllocate(bytes)
    <3>1. PICK len, a :
             /\ len = Sets!RequireByte(bytes)
             /\ a \in MmapAddrs /\ \A m \in mapped : m.addr # a
             /\ LET list == MmapInsertSorted(mmap_alloc_list, a,
                                             NewNode(hdr, a, Sets!StoredSize(len)))
                IN  IF list.wild THEN Crash("wild pointer")
                    ELSE /\ mmap_alloc_list' = list.head
                         /\ hdr' = list.hdr
                         /\ mapped' = mapped \cup {[addr |-> a, len |-> len]}
                         /\ held_mmap' = held_mmap \cup {a + HDR}
                         /\ UNCHANGED <<heapVars, ownVars, fault>>
      BY <2>1, Zenon DEF MmapAllocate
    <3>2. PICK list : list = MmapInsertSorted(mmap_alloc_list, a,
                                              NewNode(hdr, a, Sets!StoredSize(len)))
      OBVIOUS
    <3>3. Crash("wild pointer") \/ UNCHANGED ownVars
      BY <3>1, <3>2, Zenon
    <3> QED
      BY <3>3, CallerInCrash, Zenon DEF ownVars
  <2>2. CASE MmapFails(bytes)
    BY <2>2, CallerInCrash DEF MmapFails
  <2>3. CASE FirstAllocate(bytes)
    BY <2>3, CallerInNormalAllocate DEF FirstAllocate
  <2>4. CASE AllocateFromBin(bytes)
    BY <2>4, CallerInNormalAllocate DEF AllocateFromBin
  <2>5. CASE AllocateFromLarger(bytes)
    <3>1. PICK i, s : SplitToAllocate(s, i, bytes)
      BY <2>5 DEF AllocateFromLarger
    <3>2. (\E why : Crash(why)) \/ UNCHANGED ownVars
      BY <3>1, Zenon DEF SplitToAllocate
    <3> QED
      BY <3>2, CallerInCrash, Zenon DEF ownVars
  <2>6. CASE ReadsBinMinusOne(bytes)
    BY <2>6, CallerInCrash DEF ReadsBinMinusOne
  <2> QED
    BY <1>1, <2>1, <2>2, <2>3, <2>4, <2>5, <2>6 DEF Malloc
<1>2. ASSUME NEW mem \in Pointers, Free(mem) PROVE caller' = caller
  <2>1. CASE FreeMmap(mem)
    BY <2>1 DEF FreeMmap, ownVars
  <2>2. CASE FreeHeap(mem)
    BY <2>2 DEF FreeHeap, ownVars
  <2>3. CASE FreeFails(mem)
    BY <2>3 DEF FreeFails, ownVars
  <2>4. CASE FreeGoesWild(mem)
    <3>1. \E why : Crash(why)
      BY <2>4, Zenon DEF FreeGoesWild
    <3> QED
      BY <3>1, CallerInCrash
  <2> QED
    BY <1>2, <2>1, <2>2, <2>3, <2>4 DEF Free
<1>3. CASE MergeDone
  BY <1>3 DEF MergeDone, ownVars
<1>4. CASE MergePair
  <2>1. \/ Crash("bin[NBins]")
        \/ H!MergePair /\ AreasStay /\ UNCHANGED mmap_alloc_list
    BY <1>4, MergePairKeeps, Zenon
  <2> QED
    BY <2>1, CallerInCrash, Zenon DEF AreasStay, ownVars
<1>5. ASSUME NEW mem, WriteBlock(mem) PROVE caller' = caller
  BY <1>5 DEF WriteBlock
<1>6. CASE UNCHANGED vars
  BY <1>6 DEF vars, ownVars
<1> QED
  BY <1>1, <1>2, <1>3, <1>4, <1>5, <1>6 DEF Next

LEMMA NoBlockWritten ==
    ASSUME Inv, caller.writes = 0, NEW mem PROVE ~WriteBlock(mem)
<1>1. IsFiniteSet(written)
  BY DEF Inv, Types
<1>2. IsFiniteSet(written \cup {mem - HDR})
  BY <1>1, FS_AddElement
<1>3. Cardinality(written \cup {mem - HDR}) \in Nat
      /\ Cardinality(written \cup {mem - HDR}) # 0
  BY <1>2, FS_CardinalityType, FS_EmptySet
<1> QED
  BY <1>3 DEF WriteBlock

\* The state and the next one, when a step of the heap alone is taken.
LEMMA HeapStepAlone ==
    ASSUME Inv, caller.writes = 0, Inv', caller' = caller, fault = "none",
           AreasStay, UNCHANGED mmap_alloc_list
    PROVE  HeapAlone
<1>1. AreaNodes' = AreaNodes
  BY AreaNodesStay
<1>2. (Inv /\ caller.writes = 0 => SameState)'
  BY StateIsSame, PTL
<1>3. SameState /\ SameState'
  BY <1>2, StateIsSame
<1> QED
  BY <1>1, <1>3 DEF AreasStay, HeapAlone

LEMMA SameMalloc ==
    ASSUME Inv, caller.writes = 0, Inv', caller' = caller,
           NEW bytes \in Requests, Malloc(bytes)
    PROVE  Sets!Malloc(bytes)
<1>1. written = {}
  BY DEF Inv, Types
<1>2. (Inv /\ caller.writes = 0 => SameState)'
  BY StateIsSame, PTL
<1>3. SameState /\ SameState'
  BY <1>2, StateIsSame
<1>4. CASE MmapAllocate(bytes)
  <2>1. PICK a \in MmapAddrs : AreaAdded(bytes, a)
    BY <1>1, <1>4, MmapAllocateKeeps
  <2>2. Ready /\ Sets!RequireByte(bytes) > Sets!MMAP_THRESHOLD
    BY <1>4, Zenon DEF MmapAllocate
  <2> QED
    BY <1>3, <2>1, <2>2, SameMmapAllocate DEF Sets!Malloc
<1>5. CASE MmapFails(bytes)
  BY <1>5, SameMmapFails DEF Sets!Malloc
<1>6. CASE FirstAllocate(bytes)
  <2>1. H!FirstAllocate(bytes) /\ AreasStay /\ mmap_alloc_list' = NULL
    BY <1>1, <1>6, FirstAllocateKeeps
  <2>2. IsHeaders(hdr')
    BY DEF Inv, FreeLinked, BinsLinked
  <2>3. PICK g, x : g = hdr' /\ x = mmap_alloc_list'
    OBVIOUS
  <2>4. InList(g, x) = {}
    BY <2>1, <2>2, <2>3, NullIsEnd, EmptyList
  <2>5. AreaNodes' = {}
    BY <2>3, <2>4 DEF AreaNodes, NodesOf
  <2>6. fault = "none" /\ UNCHANGED <<mapped, held_mmap, fault>>
    BY <1>6, <2>1 DEF FirstAllocate, HasBin, Ready, AreasStay
  <2> QED
    BY <1>3, <2>1, <2>5, <2>6, SameFirstAllocate DEF Sets!Malloc
<1>7. CASE AllocateFromBin(bytes)
  <2>1. H!NormalAllocate(bytes) /\ AreasStay /\ UNCHANGED mmap_alloc_list
    BY <1>1, <1>7, AllocateFromBinKeeps
  <2>2. fault = "none"
    BY <1>7 DEF AllocateFromBin, HasBin, Ready
  <2> QED
    BY <2>1, <2>2, HeapStepAlone, SameNormalAllocate DEF Sets!Malloc
<1>8. CASE AllocateFromLarger(bytes)
  <2>1. H!SplitToAllocate(bytes) /\ AreasStay /\ UNCHANGED mmap_alloc_list
    BY <1>1, <1>8, AllocateFromLargerKeeps
  <2>2. fault = "none"
    BY <1>8 DEF AllocateFromLarger, HasBin, Ready
  <2> QED
    BY <2>1, <2>2, HeapStepAlone, SameSplitToAllocate DEF Sets!Malloc
<1>9. CASE ReadsBinMinusOne(bytes)
  BY <1>9, SameBinMinusOne DEF Sets!Malloc
<1> QED
  BY <1>4, <1>5, <1>6, <1>7, <1>8, <1>9 DEF Malloc

LEMMA SameFree ==
    ASSUME Inv, caller.writes = 0, Inv', caller' = caller,
           NEW mem \in Int, Free(mem)
    PROVE  Sets!Free \/ UNCHANGED vars
<1>1. written = {} /\ HDR \in Nat
  BY BinSizes DEF Inv, Types
<1>2. (Inv /\ caller.writes = 0 => SameState)'
  BY StateIsSame, PTL
<1>3. SameState /\ SameState'
  BY <1>2, StateIsSame
<1>4. ASSUME NEW n \in AreaNodes, AreaRemoved(mem, n), Ready
      PROVE  Sets!Free
  <2>1. Sets!FreeMmap(mem)
    BY <1>3, <1>4, SameFreeMmap
  <2>2. PICK a \in MmapAddrs : a = mem - HDR
    BY <1>4 DEF AreaRemoved
  <2>3. mem = a + HDR
    BY <1>1, <2>2
  <2>4. Sets!FreeMmap(a + HDR)
    BY <2>1, <2>3
  <2> QED
    BY <2>4 DEF Sets!Free
<1>5. CASE FreeMmap(mem)
  <2>1. PICK n \in AreaNodes : AreaRemoved(mem, n)
    BY <1>5, FreeMmapKeeps
  <2>2. Ready
    BY <1>5 DEF FreeMmap
  <2> QED
    BY <1>4, <2>1, <2>2
<1>6. CASE FreeHeap(mem)
  <2>1. /\ H!FreeHeap(mem) /\ mem - HDR \in 0 .. HEAP - 1
        /\ AreasStay /\ UNCHANGED mmap_alloc_list
    BY <1>6, FreeHeapKeeps
  <2>2. fault = "none"
    BY <1>6 DEF FreeHeap, Ready
  <2>3. Sets!FreeHeap(mem)
    BY <2>1, <2>2, HeapStepAlone, SameFreeHeap
  <2>4. PICK a \in 0 .. Sets!HEAP_INITIAL - 1 : a = mem - HDR
    BY <2>1 DEF HEAP
  <2>5. mem = a + HDR
    BY <1>1, <2>4
  <2>6. Sets!FreeHeap(a + HDR)
    BY <2>3, <2>5
  <2> QED
    BY <2>6 DEF Sets!Free
<1>7. CASE FreeFails(mem)
  <2>1. UNCHANGED vars \/ \E n \in AreaNodes : AreaRemoved(mem, n)
    BY <1>7, FreeFailsKeeps
  <2>2. Ready
    BY <1>7 DEF FreeFails
  <2> QED
    BY <1>4, <2>1, <2>2
<1>8. CASE FreeGoesWild(mem)
  <2>1. PICK a, mlist, list :
           /\ a = mem - HDR /\ mlist = InMmapList(a)
           /\ list = DeleteNode(allocated_heap, a, mlist.hdr)
    OBVIOUS
  <2>2. mlist.wild \/ list.wild
    BY <1>8, <2>1, Zenon DEF FreeGoesWild
  <2> QED
    BY <1>1, <2>1, <2>2, FreeNotWild
<1> QED
  BY <1>5, <1>6, <1>7, <1>8 DEF Free

LEMMA SameMerge ==
    ASSUME Inv, caller.writes = 0, Inv', caller' = caller,
           MergeDone \/ MergePair
    PROVE  Sets!Merge
<1>1. CASE MergeDone
  <2>1. H!MergeDone /\ AreasStay /\ UNCHANGED mmap_alloc_list
    BY <1>1, MergeDoneKeeps
  <2>2. fault = "none"
    BY <1>1 DEF MergeDone, Merging
  <2> QED
    BY <2>1, <2>2, HeapStepAlone, SameMergeDone DEF Sets!Merge
<1>2. CASE MergePair
  <2>1. \/ /\ merge_index = NBins - 1 /\ H!Adjacent(merge_index)
           /\ Crash("bin[NBins]")
        \/ H!MergePair /\ AreasStay /\ UNCHANGED mmap_alloc_list
    BY <1>2, MergePairKeeps, Zenon
  <2>2. Merging /\ fault = "none"
    BY <1>2 DEF MergePair, Merging
  <2>3. CASE /\ merge_index = NBins - 1 /\ H!Adjacent(merge_index)
             /\ Crash("bin[NBins]")
    BY <2>2, <2>3, SameMergeLastBin, Zenon DEF Sets!Merge
  <2>4. CASE H!MergePair /\ AreasStay /\ UNCHANGED mmap_alloc_list
    BY <2>2, <2>4, HeapStepAlone, SameMergePair DEF Sets!Merge
  <2> QED
    BY <2>1, <2>3, <2>4, Zenon
<1> QED
  BY <1>1, <1>2

\* The state that HwMalloc is given as long as the caller may write.
AtStart ==
    /\ NoWrites(first_time, FALSE) = FALSE
    /\ BinNodes = [i \in Bins |-> {}]
    /\ NoWrites(Nodes(allocated_heap), {}) = {}
    /\ NoWrites(merge_index, -1) = -1
    /\ NoWrites(Nodes(mmap_alloc_list), {}) = {}
    /\ NoWrites(mapped, {}) = {}
    /\ NoWrites(held, {}) = {}
    /\ NoWrites(held_mmap, {}) = {}
    /\ NoWrites(fault, "none") = "none"

LEMMA StaysAtStart == Inv /\ caller.writes # 0 => AtStart
<1> SUFFICES ASSUME Inv, caller.writes # 0 PROVE AtStart
  OBVIOUS
<1>1. \A now, atStart : NoWrites(now, atStart) = atStart
  BY DEF NoWrites
<1>2. DOMAIN bin = Bins
  BY DEF Inv, FreeLinked, BinsLinked
<1>3. BinNodes = [i \in Bins |-> {}]
  BY <1>1, <1>2 DEF BinNodes
<1> QED
  BY <1>1, <1>3 DEF AtStart

LEMMA ListsStep == Inv /\ [Next]_vars => [Sets!Next]_Sets!vars
<1> SUFFICES ASSUME Inv, [Next]_vars PROVE [Sets!Next]_Sets!vars
  OBVIOUS
<1>1. Inv' /\ caller' = caller
  BY InvStep, CallerStays
<1>2. CASE caller.writes # 0
  <2>1. (Inv /\ caller.writes # 0 => AtStart)'
    BY StaysAtStart, PTL
  <2>2. AtStart /\ AtStart'
    BY <1>1, <1>2, <2>1, StaysAtStart
  <2>3. UNCHANGED Sets!vars
    BY <2>2 DEF AtStart, Sets!vars
  <2> QED
    BY <2>3
<1>3. CASE caller.writes = 0
  <2>1. ASSUME UNCHANGED vars PROVE UNCHANGED Sets!vars
    BY <2>1 DEF vars, heapVars, mmapVars, ownVars, Sets!vars, NoWrites, BinNodes,
                Nodes
  <2>2. ASSUME NEW bytes \in caller.requests, Malloc(bytes)
        PROVE  Sets!Next
    <3>1. bytes \in Requests
      BY CallersAssumption DEF Inv, Types
    <3>2. Sets!Malloc(bytes)
      BY <1>1, <1>3, <2>2, <3>1, SameMalloc
    <3> QED
      BY <3>1, <3>2 DEF Sets!Next
  <2>3. ASSUME NEW mem \in Pointers, Free(mem)
        PROVE  Sets!Next \/ UNCHANGED vars
    <3>1. mem \in Int
      BY PointersAreInts
    <3>2. Sets!Free \/ UNCHANGED vars
      BY <1>1, <1>3, <2>3, <3>1, SameFree
    <3> QED
      BY <3>2 DEF Sets!Next
  <2>4. CASE MergeDone \/ MergePair
    <3>1. Sets!Merge
      BY <1>1, <1>3, <2>4, SameMerge
    <3> QED
      BY <3>1 DEF Sets!Next
  <2>5. \A mem : ~WriteBlock(mem)
    BY <1>3, NoBlockWritten
  <2> QED
    BY <2>1, <2>2, <2>3, <2>4, <2>5 DEF Next
<1> QED
  BY <1>2, <1>3

LEMMA ListsInit == Init => Sets!Init
<1> SUFFICES ASSUME Init PROVE Sets!Init
  OBVIOUS
<1>1. Inv
  BY InvInit
<1>2. CASE caller.writes # 0
  BY <1>1, <1>2, StaysAtStart DEF AtStart, Sets!Init, Sets!None, Bins
<1>3. CASE caller.writes = 0
  <2>1. SameState
    BY <1>1, <1>3, StateIsSame
  <2>2. /\ bin = [i \in 0 .. NBins - 1 |-> NULL] /\ mmap_alloc_list = NULL
        /\ held = {} /\ first_time = FALSE /\ merge_index = Sets!None
        /\ mapped = {} /\ held_mmap = {} /\ fault = "none"
    BY DEF Init
  <2>3. IsHeaders(hdr)
    BY <1>1 DEF Inv, FreeLinked, BinsLinked
  <2>4. InList(hdr, NULL) = {}
    BY <2>3, NullIsEnd, EmptyList
  <2>5. NodesOf(hdr, NULL) = {}
    BY <2>4 DEF NodesOf
  <2>6. BinChunks(bin, hdr) = [i \in Bins |-> {}]
    BY <2>2, <2>5, BinSizes DEF BinChunks
  <2>7. HeldChunks(held, hdr) = {} /\ AreaNodes = {}
    BY <2>2, <2>5 DEF HeldChunks, AreaNodes
  <2> QED
    BY <2>1, <2>2, <2>6, <2>7 DEF SameState, Sets!Init, Sets!None, Bins
<1> QED
  BY <1>2, <1>3

\* Until the caller writes into a block, hw_malloc and hw_free with their
\* lists do what they do with sets of nodes: every step of the lists, a merge
\* and a failed request included, is a step of HwMalloc or changes nothing.
THEOREM ListsImplementSets == Spec => SetsSpec
<1>1. Spec => []Inv
  BY InvInit, InvStep, PTL DEF Spec
<1> QED
  BY <1>1, ListsInit, ListsStep, PTL DEF Spec, SetsSpec, Sets!Spec

=============================================================================
