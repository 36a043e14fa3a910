----------------------------- MODULE Groundwork -----------------------------
(***************************************************************************)
(* What several of the proofs rest on.  Least elements and induction for   *)
(* natural numbers, stated with sets: a property to be proved by induction *)
(* is the set of numbers that have it.  What is left of a sequence when an *)
(* element is removed.                                                     *)
(***************************************************************************)
EXTENDS Integers, SequencesExt, WellFoundedInduction, TLAPS

-----------------------------------------------------------------------------
(* Numbers                                                                  *)

Below == {p \in Nat \X Nat : p[1] < p[2]}

\* From the library's theorem about an operator, one about a set.
LEMMA BelowWellFounded == IsWellFoundedOn(Below, Nat)
BY NatLessThanWellFounded DEF OpToRel, Below

\* A set of natural numbers that is not empty has a least element.
THEOREM LeastNatural ==
    ASSUME NEW T, T \subseteq Nat, T # {}
    PROVE  \E x \in T : \A y \in T : x <= y
<1>1. PICK x \in T : \A y \in T : <<y, x>> \notin Below
  BY BelowWellFounded, WFMin
<1>2. \A y \in T : x \in Nat /\ y \in Nat /\ ~(y < x)
  BY <1>1 DEF Below
<1>3. \A y \in T : x <= y
  BY <1>2
<1> QED
  BY <1>3

\* A set that has 0 and with n also n + 1 has all natural numbers.
THEOREM NaturalInduction ==
    ASSUME NEW T, 0 \in T, \A n \in Nat : n \in T => n + 1 \in T
    PROVE  Nat \subseteq T
<1> DEFINE Missing == Nat \ T
<1> SUFFICES ASSUME Missing # {} PROVE FALSE
  OBVIOUS
<1>1. PICK x \in Missing : \A y \in Missing : x <= y
  <2> HIDE DEF Missing
  <2>1. Missing \subseteq Nat
    BY DEF Missing
  <2> QED
    BY <2>1, LeastNatural
<1>2. x \in Nat /\ x # 0
  OBVIOUS
<1>3. x - 1 \in Nat /\ x - 1 \notin Missing
  BY <1>1, <1>2
<1>4. (x - 1) + 1 \in T
  BY <1>3
<1> QED
  BY <1>2, <1>4

\* f takes the values that a recursion over 0 .. n has.
IsRecursion(f, n, base, step) ==
    /\ f[0] = base
    /\ \A i \in 1 .. n : f[i] = step[i][f[i - 1]]

\* A function that is defined by recursion over 0 .. n exists, whatever its
\* first value and the step from a value to the next.
THEOREM RecursionExists ==
    ASSUME NEW S, NEW base \in S, NEW step \in [Nat -> [S -> S]]
    PROVE  \A n \in Nat : \E f \in [0 .. n -> S] : IsRecursion(f, n, base, step)
<1> DEFINE T == {n \in Nat : \E f \in [0 .. n -> S] :
                                IsRecursion(f, n, base, step)}
<1>1. 0 \in T
  <2>1. /\ [i \in 0 .. 0 |-> base] \in [0 .. 0 -> S]
        /\ IsRecursion([i \in 0 .. 0 |-> base], 0, base, step)
    BY DEF IsRecursion
  <2> QED
    BY <2>1
<1>2. ASSUME NEW n \in Nat, n \in T PROVE n + 1 \in T
  <2>1. PICK f \in [0 .. n -> S] : IsRecursion(f, n, base, step)
    BY <1>2
  <2> DEFINE g == [i \in 0 .. n + 1 |->
                      IF i = n + 1 THEN step[n + 1][f[n]] ELSE f[i]]
  <2>2. f[n] \in S /\ step[n + 1][f[n]] \in S
    BY <2>1
  <2>3. g \in [0 .. n + 1 -> S] /\ g[0] = base
    BY <2>1, <2>2 DEF IsRecursion
  <2>4. ASSUME NEW i \in 1 .. n + 1 PROVE g[i] = step[i][g[i - 1]]
    <3>1. CASE i = n + 1
      BY <3>1
    <3>2. CASE i # n + 1
      <4>1. i \in 1 .. n /\ i - 1 \in 0 .. n
        BY <3>2
      <4> QED
        BY <2>1, <4>1 DEF IsRecursion
    <3> QED
      BY <3>1, <3>2
  <2> HIDE DEF g
  <2>5. IsRecursion(g, n + 1, base, step)
    BY <2>3, <2>4 DEF IsRecursion
  <2> QED
    BY <2>3, <2>5
<1> HIDE DEF T
<1>3. Nat \subseteq T
  BY <1>1, <1>2, NaturalInduction
<1> QED
  BY <1>3 DEF T

\* Of finitely many numbers one is the greatest.
THEOREM GreatestOfList ==
    ASSUME NEW g, NEW n \in Nat, n # 0, \A i \in 1 .. n : g[i] \in Nat
    PROVE  \E k \in 1 .. n : \A i \in 1 .. n : g[i] <= g[k]
<1> DEFINE T == {m \in Nat : m \in 1 .. n =>
                    \E k \in 1 .. m : \A i \in 1 .. m : g[i] <= g[k]}
<1>1. 0 \in T
  OBVIOUS
<1>2. ASSUME NEW m \in Nat, m \in T PROVE m + 1 \in T
  <2> SUFFICES ASSUME m + 1 \in 1 .. n
               PROVE  \E k \in 1 .. m + 1 : \A i \in 1 .. m + 1 : g[i] <= g[k]
    OBVIOUS
  <2>1. CASE m = 0
    <3>1. 1 \in 1 .. n /\ g[1] <= g[1]
      OBVIOUS
    <3> QED
      BY <2>1, <3>1
  <2>2. CASE m # 0
    <3>1. PICK k \in 1 .. m : \A i \in 1 .. m : g[i] <= g[k]
      BY <1>2, <2>2
    <3>2. g[k] \in Nat /\ g[m + 1] \in Nat /\ \A i \in 1 .. m : g[i] \in Nat
      OBVIOUS
    <3>3. \A i \in 1 .. m + 1 : i \in 1 .. m \/ i = m + 1
      OBVIOUS
    <3>4. CASE g[m + 1] <= g[k]
      <4>1. \A i \in 1 .. m + 1 : g[i] <= g[k]
        BY <3>1, <3>3, <3>4
      <4> QED
        BY <4>1
    <3>5. CASE ~(g[m + 1] <= g[k])
      <4>1. \A i \in 1 .. m + 1 : g[i] <= g[m + 1]
        BY <3>1, <3>2, <3>3, <3>5
      <4> QED
        BY <4>1
    <3> QED
      BY <3>4, <3>5
  <2> QED
    BY <2>1, <2>2
<1> HIDE DEF T
<1>3. Nat \subseteq T
  BY <1>1, <1>2, NaturalInduction
<1> QED
  BY <1>3 DEF T

-----------------------------------------------------------------------------
(* Sequences                                                                *)

\* Behind the end of a, a \o b goes on with b.
LEMMA ConcatAt ==
    ASSUME NEW S, NEW a \in Seq(S), NEW b \in Seq(S),
           NEW j \in 1 .. Len(a) + Len(b), j > Len(a)
    PROVE  (a \o b)[j] = b[j - Len(a)]
OBVIOUS

\* Removing the element at a place keeps the others, in their order.
LEMMA RemoveAtIs ==
    ASSUME NEW S, NEW q \in Seq(S), NEW i \in DOMAIN q
    PROVE  /\ RemoveAt(q, i) \in Seq(S)
           /\ Len(RemoveAt(q, i)) = Len(q) - 1
           /\ DOMAIN RemoveAt(q, i) = 1 .. Len(q) - 1
           /\ \A j \in 1 .. Len(q) - 1 :
                 RemoveAt(q, i)[j] = IF j < i THEN q[j] ELSE q[j + 1]
<1> DEFINE a == SubSeq(q, 1, i - 1)
           b == SubSeq(q, i + 1, Len(q))
<1>1. Len(q) \in Nat /\ i \in 1 .. Len(q)
  OBVIOUS
<1>2. /\ a \in Seq(S) /\ Len(a) = i - 1
      /\ \A j \in 1 .. i - 1 : a[j] = q[j]
  BY <1>1
<1>3. /\ b \in Seq(S) /\ Len(b) = Len(q) - i
      /\ \A j \in 1 .. Len(q) - i : b[j] = q[i + j]
  BY <1>1
<1> HIDE DEF a, b
<1>4. /\ a \o b \in Seq(S) /\ Len(a \o b) = Len(q) - 1
      /\ \A j \in 1 .. i - 1 : (a \o b)[j] = q[j]
  BY <1>1, <1>2, <1>3
<1>5. \A j \in i .. Len(q) - 1 : (a \o b)[j] = q[j + 1]
  <2> SUFFICES ASSUME NEW j \in i .. Len(q) - 1
               PROVE  (a \o b)[j] = q[j + 1]
    OBVIOUS
  <2>1. j - (i - 1) \in 1 .. Len(q) - i /\ i + (j - (i - 1)) = j + 1
    BY <1>1
  <2>2. (a \o b)[j] = b[j - (i - 1)]
    <3>1. j \in 1 .. Len(a) + Len(b) /\ j > Len(a)
      BY <1>1, <1>2, <1>3
    <3>2. (a \o b)[j] = b[j - Len(a)]
      BY <1>2, <1>3, <3>1, ConcatAt
    <3> QED
      BY <1>2, <3>2
  <2>3. b[j - (i - 1)] = q[i + (j - (i - 1))]
    BY <1>3, <2>1
  <2> QED
    BY <2>1, <2>2, <2>3
<1>6. RemoveAt(q, i) = a \o b
  BY DEF RemoveAt, a, b
<1>7. \A j \in 1 .. Len(q) - 1 : IF j < i THEN j \in 1 .. i - 1
                                          ELSE j \in i .. Len(q) - 1
  BY <1>1
<1> QED
  BY <1>1, <1>4, <1>5, <1>6, <1>7

\* What is left of a sequence without its first element.
LEMMA TailIs ==
    ASSUME NEW S, NEW q \in Seq(S), q # <<>>
    PROVE  Tail(q) = RemoveAt(q, 1) /\ 1 \in DOMAIN q
<1>1. Len(q) \in Nat /\ Len(q) > 0 /\ DOMAIN q = 1 .. Len(q)
  OBVIOUS
<1>2. /\ Tail(q) \in Seq(S)
      /\ Len(Tail(q)) = Len(q) - 1
      /\ \A j \in 1 .. Len(q) - 1 : Tail(q)[j] = q[j + 1]
  BY <1>1
<1>3. /\ RemoveAt(q, 1) \in Seq(S)
      /\ Len(RemoveAt(q, 1)) = Len(q) - 1
      /\ \A j \in 1 .. Len(q) - 1 : RemoveAt(q, 1)[j] = q[j + 1]
  <2>1. 1 \in DOMAIN q
    BY <1>1
  <2>2. /\ RemoveAt(q, 1) \in Seq(S)
        /\ Len(RemoveAt(q, 1)) = Len(q) - 1
        /\ \A j \in 1 .. Len(q) - 1 :
              RemoveAt(q, 1)[j] = IF j < 1 THEN q[j] ELSE q[j + 1]
    BY <2>1, RemoveAtIs
  <2>3. \A j \in 1 .. Len(q) - 1 : ~(j < 1)
    OBVIOUS
  <2> QED
    BY <2>2, <2>3
<1> QED
  BY <1>1, <1>2, <1>3

\* What is left of a sequence without its last element.
LEMMA FrontIs ==
    ASSUME NEW S, NEW q \in Seq(S), q # <<>>
    PROVE  Front(q) = RemoveAt(q, Len(q)) /\ Len(q) \in DOMAIN q
<1>1. Len(q) \in Nat /\ Len(q) > 0 /\ DOMAIN q = 1 .. Len(q)
  OBVIOUS
<1>2. /\ Front(q) \in Seq(S)
      /\ Len(Front(q)) = Len(q) - 1
      /\ \A j \in 1 .. Len(q) - 1 : Front(q)[j] = q[j]
  BY <1>1 DEF Front
<1>3. /\ RemoveAt(q, Len(q)) \in Seq(S)
      /\ Len(RemoveAt(q, Len(q))) = Len(q) - 1
      /\ \A j \in 1 .. Len(q) - 1 : RemoveAt(q, Len(q))[j] = q[j]
  <2>1. Len(q) \in DOMAIN q
    BY <1>1
  <2>2. /\ RemoveAt(q, Len(q)) \in Seq(S)
        /\ Len(RemoveAt(q, Len(q))) = Len(q) - 1
        /\ \A j \in 1 .. Len(q) - 1 :
              RemoveAt(q, Len(q))[j] = IF j < Len(q) THEN q[j] ELSE q[j + 1]
    BY <2>1, RemoveAtIs
  <2>3. \A j \in 1 .. Len(q) - 1 : j < Len(q)
    BY <1>1
  <2> QED
    BY <2>2, <2>3
<1> QED
  BY <1>1, <1>2, <1>3

=============================================================================
