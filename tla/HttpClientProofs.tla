-------------------------- MODULE HttpClientProofs --------------------------
(***************************************************************************)
(* How far a client comes: what it saves, and how deep it goes.            *)
(***************************************************************************)
EXTENDS HttpProofs

IsDir(names)  == names \in DOMAIN fs /\ fs[names].kind = "dir"
Unbroken(path) == \A i \in DOMAIN path : ~path[i].nl
Entries(path) == Tokens(fs[ServerSees(path)].list)
Depth(u)      == Len(client[u].stack)

-----------------------------------------------------------------------------
(* The inductive invariant: the directory the user named                    *)

Rest(u)  == client[u].stack[Depth(u)]
Done(u)  == Len(Entries(client[u].query)) - Len(Rest(u))

IsSaved(path) == \E s \in saved : s.at = path

\* The i-th entry of the user's directory is a file, and was saved.
EntrySaved(u, i) ==
    LET query == client[u].query
        names == ServerSees(query)
    IN  fs[Append(names, fs[names].list[i])].kind = "file"
            => IsSaved(Append(query, Entries(query)[i]))

InDirectory(u) ==
    /\ IsDir(ServerSees(client[u].query))
    /\ Len(Rest(u)) <= Len(Entries(client[u].query))
    /\ \A i \in 1 .. Len(Rest(u)) :
          Rest(u)[i] = Entries(client[u].query)[Done(u) + i]

\* What was asked for has been saved, except what is being asked for.
DoneIsSaved(u) ==
    LET query == client[u].query
        asking == client[u].state = "waiting" /\ Depth(u) = 1
    IN  /\ asking => /\ Done(u) # 0
                     /\ client[u].newquery = Append(query, Entries(query)[Done(u)])
        /\ \A i \in 1 .. Len(fs[ServerSees(query)].list) :
              i <= Done(u) /\ (asking => i # Done(u)) => EntrySaved(u, i)

TopSound(u) ==
    /\ Unbroken(client[u].query)
    /\ Depth(u) # 0 => InDirectory(u)
    /\ /\ up = "up"
       /\ client[u].state \in {"waiting", "walking"}
       /\ Depth(u) # 0
       => DoneIsSaved(u)
    /\ /\ up = "up"
       /\ client[u].state = "done"
       /\ ServerSees(client[u].query) \in DOMAIN fs
       => \A i \in 1 .. Len(fs[ServerSees(client[u].query)].list) : EntrySaved(u, i)

TopInv == Disciplined => \A u \in Users : TopSound(u)

-----------------------------------------------------------------------------
(* The inductive invariant: the directories within                          *)

\* Nothing below the path is a directory, if the path is not.
DeadEnd(path) == ServerSees(path) # <<>> /\ ~IsDir(ServerSees(path))

Live(path, n) == /\ Unbroken(path) /\ IsDir(ServerSees(path))
                 /\ n <= Len(ServerSees(path))

DepthSound(u) ==
    /\ Depth(u) # 0 => \E names \in DOMAIN fs : Depth(u) <= Len(names)
    /\ client[u].state = "waiting" =>
          LET path == OldQuery(u) IN
          \/ Live(path, Depth(u))
          \/ ~IsDir(ServerSees(path)) /\ (Depth(u) # 0 => DeadEnd(path))
    /\ client[u].state = "walking" /\ up = "up" /\ Depth(u) > 1 =>
          \/ DeadEnd(client[u].newquery)
          \/ /\ Live(client[u].newquery, Depth(u) - 1)
             /\ Head(client[u].stack) = Entries(client[u].newquery)

DepthInv == Disciplined /\ WellOrdered => \A u \in Users : DepthSound(u)

-----------------------------------------------------------------------------
(* Paths that grow                                                          *)

\* A path and one more name.
LEMMA AppendIs ==
    ASSUME NEW path \in Paths, NEW x \in Names
    PROVE  /\ Append(path, x) \in Paths
           /\ Len(Append(path, x)) = Len(path) + 1
           /\ Append(path, x)[Len(path) + 1] = x
           /\ \A i \in 1 .. Len(path) : Append(path, x)[i] = path[i]
           /\ Append(path, x) # <<>>
<1>1. path \in Seq(Names) /\ Len(path) \in Nat
  BY DEF Paths
<1>2. Append(path, x) \in Seq(Names) /\ Len(Append(path, x)) = Len(path) + 1
  BY <1>1
<1>3. Append(path, x) # <<>>
  <2>1. Len(<<>>) = 0
    OBVIOUS
  <2> QED
    BY <1>1, <1>2, <2>1
<1> QED
  BY <1>1, <1>2, <1>3 DEF Paths

\* The server sees one more name at the end of a longer path, or the same.
LEMMA SeesAppend ==
    ASSUME NEW path \in Paths, NEW x \in Names
    PROVE  ServerSees(Append(path, x)) =
              IF x.name = "" \/ ~Unbroken(path) THEN ServerSees(path)
              ELSE Append(ServerSees(path), x.name)
<1> DEFINE n == Len(path)
           longer == Append(path, x)
           f == Sees(path)
           g == Sees(longer)
           T == {i \in Nat : i <= n => g[i] = f[i]}
<1>1. /\ n \in Nat /\ DOMAIN path = 1 .. n
      /\ longer \in Paths /\ Len(longer) = n + 1 /\ longer[n + 1] = x
      /\ \A i \in 1 .. n : longer[i] = path[i]
  BY AppendIs, NameTypes
<1> HIDE DEF longer, n
<1>2. /\ f[0] = <<>> /\ \A i \in 1 .. n : f[i] = SeesStep(path, i, f[i - 1])
      /\ g[0] = <<>> /\ \A i \in 1 .. n + 1 : g[i] = SeesStep(longer, i, g[i - 1])
  BY <1>1, SeesIs DEF n
<1> HIDE DEF f, g
<1>3. \A i \in 1 .. n : \A seen : SeesStep(longer, i, seen) = SeesStep(path, i, seen)
  <2> SUFFICES ASSUME NEW i \in 1 .. n, NEW seen
               PROVE  SeesStep(longer, i, seen) = SeesStep(path, i, seen)
    OBVIOUS
  <2>1. longer[i] = path[i] /\ \A j \in 1 .. i - 1 : longer[j] = path[j]
    BY <1>1
  <2> QED
    BY <2>1 DEF SeesStep
<1>4. 0 \in T
  BY <1>2
<1>5. ASSUME NEW i \in Nat, i \in T PROVE i + 1 \in T
  <2> SUFFICES ASSUME i + 1 <= n PROVE g[i + 1] = f[i + 1]
    OBVIOUS
  <2>1. i + 1 \in 1 .. n /\ (i + 1) - 1 = i /\ g[i] = f[i] /\ i + 1 \in 1 .. n + 1
    BY <1>1, <1>5
  <2>2. g[i + 1] = SeesStep(longer, i + 1, g[i]) /\ f[i + 1] = SeesStep(path, i + 1, f[i])
    BY <1>2, <2>1
  <2> QED
    BY <1>3, <2>1, <2>2
<1> HIDE DEF T
<1>6. Nat \subseteq T
  BY <1>4, <1>5, NaturalInduction
<1>7. g[n] = f[n]
  BY <1>1, <1>6 DEF T
<1>8. g[n + 1] = SeesStep(longer, n + 1, f[n])
  <2>1. n + 1 \in 1 .. n + 1 /\ (n + 1) - 1 = n
    BY <1>1
  <2> QED
    BY <1>2, <1>7, <2>1
<1>9. (\E j \in 1 .. (n + 1) - 1 : longer[j].nl) <=> ~Unbroken(path)
  <2>1. (n + 1) - 1 = n
    BY <1>1
  <2> QED
    BY <1>1, <2>1 DEF Unbroken
<1>10. SeesStep(longer, n + 1, f[n]) =
          IF x.name = "" \/ ~Unbroken(path) THEN f[n] ELSE Append(f[n], x.name)
  BY <1>1, <1>9 DEF SeesStep
<1>11. ServerSees(path) = f[n] /\ ServerSees(longer) = g[n + 1]
  BY <1>1, ServerSeesIs DEF f, g, n
<1> QED
  BY <1>8, <1>10, <1>11 DEF longer

\* What lies in a directory, and where a name of several parts lies.
LEMMA DirectoryIs ==
    ASSUME NetType, NEW names \in DOMAIN fs
    PROVE  /\ names \in Seq(Words) /\ names # <<>> /\ Len(names) \in Nat
           /\ fs[names].list \in Seq(Words)
           /\ fs[names].kind # "dir" => fs[names].list = <<>>
           /\ \A i \in 1 .. Len(fs[names].list) :
                 /\ fs[names].list[i] # "" /\ fs[names].list[i] \in Words
                 /\ Append(names, fs[names].list[i]) \in DOMAIN fs
           /\ Len(names) > 1 => IsDir(Front(names))
<1>1. fs \in FileSystems
  BY DEF NetType
<1>2. /\ names \in Seq(Words) /\ names # <<>>
      /\ fs[names].list \in Seq(Words)
      /\ fs[names].kind # "dir" => fs[names].list = <<>>
      /\ \A i \in DOMAIN fs[names].list :
            /\ fs[names].list[i] # ""
            /\ Append(names, fs[names].list[i]) \in DOMAIN fs
      /\ Len(names) > 1 => /\ Front(names) \in DOMAIN fs
                           /\ fs[Front(names)].kind = "dir"
  BY <1>1, FileAssumption
<1>3. /\ \A i \in 1 .. Len(fs[names].list) : fs[names].list[i] \in Words
      /\ DOMAIN fs[names].list = 1 .. Len(fs[names].list)
  <2> DEFINE list == fs[names].list
  <2>1. list \in Seq(Words)
    BY <1>2
  <2> HIDE DEF list
  <2>2. (\A i \in 1 .. Len(list) : list[i] \in Words) /\ DOMAIN list = 1 .. Len(list)
    BY <2>1
  <2> QED
    BY <2>2 DEF list
<1>4. Len(names) \in Nat
  <2>1. names \in Seq(Words)
    BY <1>2
  <2> QED
    BY <2>1
<1> QED
  BY <1>2, <1>3, <1>4 DEF IsDir

\* What is appended last is not in front.
LEMMA FrontOfAppend ==
    ASSUME NEW names \in Seq(Words), NEW word \in Words
    PROVE  /\ Append(names, word) \in Seq(Words)
           /\ Len(Append(names, word)) = Len(names) + 1 /\ Len(names) \in Nat
           /\ Front(Append(names, word)) = names
<1> DEFINE s == Append(names, word)
<1>1. /\ s \in Seq(Words) /\ Len(s) = Len(names) + 1 /\ Len(names) \in Nat
      /\ \A i \in 1 .. Len(names) : s[i] = names[i]
  OBVIOUS
<1> HIDE DEF s
<1>2. Front(s) = SubSeq(s, 1, Len(names))
  <2>1. Len(s) - 1 = Len(names)
    BY <1>1
  <2> QED
    BY <2>1 DEF Front
<1>3. /\ SubSeq(s, 1, Len(names)) \in Seq(Words)
      /\ Len(SubSeq(s, 1, Len(names))) = Len(names)
      /\ \A i \in 1 .. Len(names) : SubSeq(s, 1, Len(names))[i] = s[i]
  BY <1>1
<1>4. Front(s) = names
  BY <1>1, <1>2, <1>3, SeqEqual
<1> QED
  BY <1>1, <1>4 DEF s

\* From a path that leads to no directory there is no way to one.
LEMMA DeadEndStays ==
    ASSUME NetType, NEW path \in Paths, NEW x \in Names, DeadEnd(path)
    PROVE  DeadEnd(Append(path, x))
<1> DEFINE names == ServerSees(path)
<1>1. names \in Seq(Words) /\ names # <<>> /\ ~IsDir(names) /\ x.name \in Words
  BY SeesType DEF DeadEnd, Names
<1> HIDE DEF names
<1>2. CASE ServerSees(Append(path, x)) = names
  BY <1>1, <1>2 DEF DeadEnd
<1>3. CASE ServerSees(Append(path, x)) = Append(names, x.name)
  <2>1. /\ Front(Append(names, x.name)) = names
        /\ Len(Append(names, x.name)) = Len(names) + 1 /\ Len(names) \in Nat
        /\ Append(names, x.name) \in Seq(Words)
    BY <1>1, FrontOfAppend
  <2>2. Len(names) # 0
    BY <1>1
  <2>3. Append(names, x.name) # <<>> /\ Len(Append(names, x.name)) > 1
    BY <2>1, <2>2
  <2>4. ~IsDir(Append(names, x.name))
    <3> SUFFICES ASSUME Append(names, x.name) \in DOMAIN fs PROVE FALSE
      BY DEF IsDir
    <3>1. IsDir(Front(Append(names, x.name)))
      BY <2>3, DirectoryIs
    <3> QED
      BY <1>1, <2>1, <3>1
  <2> QED
    BY <1>3, <2>3, <2>4 DEF DeadEnd
<1> QED
  BY <1>2, <1>3, SeesAppend DEF names

\* The entries of a directory, as the client asks for them.
LEMMA EntriesAre ==
    ASSUME NetType, NEW path \in Paths, IsDir(ServerSees(path))
    PROVE  LET names == ServerSees(path)
               list  == fs[names].list
           IN  /\ names \in DOMAIN fs
               /\ list \in Seq(Words) /\ Len(list) \in Nat
               /\ Entries(path) \in Paths /\ Entries(path) # <<>>
               /\ Len(Entries(path)) \in Nat
               /\ \A i \in 1 .. Len(Entries(path)) : Entries(path)[i] \in Names
               /\ Len(list) <= Len(Entries(path))
               /\ list # <<>> => Len(Entries(path)) = Len(list)
               /\ \A i \in 1 .. Len(list) :
                     /\ list[i] # "" /\ list[i] \in Words
                     /\ Entries(path)[i] = [name |-> list[i], nl |-> i = Len(list)]
                     /\ Append(names, list[i]) \in DOMAIN fs
<1> DEFINE names == ServerSees(path)
           list == fs[names].list
           t == Tokens(list)
<1>1. names \in DOMAIN fs
  BY DEF IsDir
<1> HIDE DEF names
<1>2. list \in Seq(Words)
  BY <1>1, DirectoryIs
<1>3. \A i \in 1 .. Len(list) :
         /\ list[i] # "" /\ list[i] \in Words
         /\ Append(names, list[i]) \in DOMAIN fs
  BY <1>1, DirectoryIs
<1> HIDE DEF list
<1>4. /\ t \in Paths /\ t # <<>>
      /\ list # <<>> => Len(t) = Len(list)
      /\ list # <<>> => \A i \in 1 .. Len(list) :
            t[i] = [name |-> list[i], nl |-> i = Len(list)]
  BY <1>2, TokensType
<1> HIDE DEF t
<1>5. /\ t \in Seq(Names) /\ Len(t) \in Nat
      /\ \A i \in 1 .. Len(t) : t[i] \in Names
  <2>1. t \in Seq(Names)
    BY <1>4 DEF Paths
  <2> QED
    BY <2>1
<1>6. Len(list) \in Nat /\ (list = <<>> => Len(list) = 0)
  BY <1>2
<1>7. Len(list) <= Len(t)
  <2>1. list # <<>> => Len(t) = Len(list)
    BY <1>4
  <2>2. Len(t) \in Nat
    BY <1>5
  <2> QED
    BY <1>6, <2>1, <2>2
<1>8. \A i \in 1 .. Len(list) : t[i] = [name |-> list[i], nl |-> i = Len(list)]
  <2>1. list = <<>> => 1 .. Len(list) = {}
    BY <1>6
  <2> QED
    BY <1>4, <2>1
<1>9. Entries(path) = t
  BY DEF Entries, t, list, names
<1> QED
  BY <1>1, <1>2, <1>3, <1>4, <1>5, <1>6, <1>7, <1>8, <1>9 DEF list, names

\* An entry asked for under the path of its own directory.
LEMMA EntryAsked ==
    ASSUME NetType, NEW path \in Paths, IsDir(ServerSees(path)), Unbroken(path),
           NEW i \in 1 .. Len(fs[ServerSees(path)].list)
    PROVE  LET names == ServerSees(path)
               longer == Append(path, Entries(path)[i])
           IN  /\ longer \in Paths
               /\ ServerSees(longer) = Append(names, fs[names].list[i])
               /\ Len(ServerSees(longer)) = Len(names) + 1
               /\ i # Len(fs[names].list) => Unbroken(longer)
<1> DEFINE names == ServerSees(path)
           list == fs[names].list
           x == Entries(path)[i]
<1>1. /\ list[i] # "" /\ list[i] \in Words
      /\ x = [name |-> list[i], nl |-> i = Len(list)]
  BY EntriesAre
<1>2. x \in Names
  <2>1. Len(list) \in Nat /\ Len(Entries(path)) \in Nat /\ Len(list) <= Len(Entries(path))
    BY EntriesAre
  <2>2. i \in 1 .. Len(Entries(path))
    BY <2>1
  <2> QED
    BY <2>2, EntriesAre
<1>3. names \in Seq(Words)
  BY SeesType
<1> HIDE DEF names, list, x
<1>4. ServerSees(Append(path, x)) = Append(names, list[i])
  <2>1. x.name = list[i] /\ x.name # ""
    BY <1>1
  <2> QED
    BY <1>2, <2>1, SeesAppend DEF names
<1>5. Len(Append(names, list[i])) = Len(names) + 1
  <2>1. list[i] \in Words
    BY <1>1
  <2> QED
    BY <1>3, <2>1
<1>6. i # Len(list) => Unbroken(Append(path, x))
  <2> SUFFICES ASSUME i # Len(list), NEW j \in DOMAIN Append(path, x)
               PROVE  ~Append(path, x)[j].nl
    BY DEF Unbroken
  <2>1. Len(path) \in Nat /\ DOMAIN path = 1 .. Len(path)
    BY NameTypes
  <2>2. j \in 1 .. Len(path) + 1
    <3>1. Append(path, x) \in Paths /\ Len(Append(path, x)) = Len(path) + 1
      BY <1>2, AppendIs
    <3> QED
      BY <3>1, NameTypes
  <2>3. CASE j \in 1 .. Len(path)
    <3>1. Append(path, x)[j] = path[j]
      BY <1>2, <2>3, AppendIs
    <3> QED
      BY <2>1, <2>3, <3>1 DEF Unbroken
  <2>4. CASE j = Len(path) + 1
    <3>1. Append(path, x)[j] = x
      BY <1>2, <2>4, AppendIs
    <3>2. x.nl = (i = Len(list))
      BY <1>1
    <3> QED
      BY <3>1, <3>2
  <2> QED
    BY <2>1, <2>2, <2>3, <2>4
<1>7. Append(path, x) \in Paths
  BY <1>2, AppendIs
<1> QED
  BY <1>4, <1>5, <1>6, <1>7 DEF names, list, x

\* No name is longer than the depth of the tree.
LEMMA DepthOfTree ==
    ASSUME NetType, NEW n \in {0} \cup {Len(names) : names \in DOMAIN fs}
    PROVE  /\ n \in Nat
           /\ Max({0} \cup {Len(names) : names \in DOMAIN fs}) \in Nat
           /\ n <= Max({0} \cup {Len(names) : names \in DOMAIN fs})
<1> DEFINE Lens == {0} \cup {Len(names) : names \in DOMAIN fs}
<1>1. IsFiniteSet(DOMAIN fs)
  BY FileAssumption DEF NetType
<1>2. /\ Cardinality(DOMAIN fs) \in Nat
      /\ ExistsBijection(1 .. Cardinality(DOMAIN fs), DOMAIN fs)
  BY <1>1, FS_CardinalityType
<1> DEFINE c == Cardinality(DOMAIN fs)
<1> HIDE DEF c
<1>3. PICK f \in [1 .. c -> DOMAIN fs] : \A m \in DOMAIN fs : \E i \in 1 .. c : f[i] = m
  BY <1>2 DEF ExistsBijection, Bijection, Injection, Surjection, c
<1>4. c \in Nat /\ c + 1 \in Nat /\ c + 1 # 0
  BY <1>2 DEF c
<1> DEFINE g == [i \in 1 .. c + 1 |-> IF i = c + 1 THEN 0 ELSE Len(f[i])]
<1>5. /\ \A i \in 1 .. c : g[i] = Len(f[i]) /\ g[i] \in Nat /\ f[i] \in DOMAIN fs
      /\ g[c + 1] = 0
  <2>1. ASSUME NEW i \in 1 .. c
        PROVE  g[i] = Len(f[i]) /\ f[i] \in DOMAIN fs
    BY <1>4
  <2>2. \A i \in 1 .. c : Len(f[i]) \in Nat
    BY DirectoryIs
  <2>3. g[c + 1] = 0
    BY <1>4
  <2> QED
    BY <2>1, <2>2, <2>3
<1> HIDE DEF g
<1>6. \A i \in 1 .. c + 1 : g[i] \in Nat /\ g[i] \in Lens
  <2> SUFFICES ASSUME NEW i \in 1 .. c + 1 PROVE g[i] \in Nat /\ g[i] \in Lens
    OBVIOUS
  <2>1. CASE i = c + 1
    BY <1>5, <2>1
  <2>2. CASE i # c + 1
    <3>1. i \in 1 .. c
      BY <1>4, <2>2
    <3> QED
      BY <1>5, <3>1
  <2> QED
    BY <2>1, <2>2
<1>7. PICK k \in 1 .. c + 1 : \A i \in 1 .. c + 1 : g[i] <= g[k]
  BY <1>4, <1>6, GreatestOfList
<1>8. \A m \in Lens : \E i \in 1 .. c + 1 : m = g[i]
  <2> SUFFICES ASSUME NEW m \in Lens PROVE \E i \in 1 .. c + 1 : m = g[i]
    OBVIOUS
  <2>1. CASE m = 0
    BY <1>4, <1>5, <2>1
  <2>2. ASSUME NEW names \in DOMAIN fs, m = Len(names)
        PROVE  \E i \in 1 .. c + 1 : m = g[i]
    <3>1. PICK i \in 1 .. c : f[i] = names
      BY <1>3
    <3>2. i \in 1 .. c + 1 /\ g[i] = m
      BY <1>4, <1>5, <2>2, <3>1
    <3> QED
      BY <3>2
  <2> QED
    BY <2>1, <2>2
<1>9. /\ g[k] \in Lens
      /\ \A m \in Lens : g[k] >= m /\ m \in Nat
  BY <1>6, <1>7, <1>8
<1> HIDE DEF Lens
<1>10. Max(Lens) \in Lens /\ \A m \in Lens : Max(Lens) >= m
  BY <1>9 DEF Max
<1> QED
  BY <1>9, <1>10 DEF Lens

-----------------------------------------------------------------------------
(* The stack of a client                                                    *)

\* A frame on top of a stack.
LEMMA PushedIs ==
    ASSUME NEW S, NEW s \in Seq(S), NEW x \in S
    PROVE  /\ <<x>> \o s \in Seq(S)
           /\ Len(<<x>> \o s) = Len(s) + 1 /\ Len(s) \in Nat
           /\ (<<x>> \o s)[1] = x /\ Head(<<x>> \o s) = x
           /\ \A i \in 1 .. Len(s) : (<<x>> \o s)[i + 1] = s[i]
<1> DEFINE t == <<x>> \o s
<1>1. <<x>> \in Seq(S) /\ Len(<<x>>) = 1 /\ <<x>>[1] = x
  OBVIOUS
<1>2. /\ t \in Seq(S)
      /\ Len(t) = 1 + Len(s) /\ Len(s) \in Nat
      /\ \A i \in 1 .. Len(t) : t[i] = IF i <= 1 THEN <<x>>[i] ELSE s[i - 1]
  BY <1>1, ConcatProperties
<1> HIDE DEF t
<1>3. t[1] = x
  BY <1>1, <1>2
<1>4. \A i \in 1 .. Len(s) : t[i + 1] = s[i]
  <2> SUFFICES ASSUME NEW i \in 1 .. Len(s) PROVE t[i + 1] = s[i]
    OBVIOUS
  <2>1. i + 1 \in 1 .. Len(t) /\ ~(i + 1 <= 1) /\ (i + 1) - 1 = i
    BY <1>2
  <2> QED
    BY <1>2, <2>1
<1>5. Head(t) = t[1]
  BY <1>2, HeadTailProperties
<1> QED
  BY <1>2, <1>3, <1>4, <1>5 DEF t

\* A stack without its top.
LEMMA PoppedIs ==
    ASSUME NEW S, NEW s \in Seq(S), s # <<>>
    PROVE  /\ Tail(s) \in Seq(S) /\ Len(Tail(s)) = Len(s) - 1
           /\ Len(s) \in Nat /\ Len(s) # 0
           /\ Head(s) = s[1]
           /\ \A i \in 1 .. Len(s) - 1 : Tail(s)[i] = s[i + 1]
<1>1. Len(s) \in Nat /\ Len(s) # 0
  BY EmptySeq
<1> QED
  BY <1>1, HeadTailProperties

\* A frame whose next entry is asked for.
LEMMA NextFrameIs ==
    ASSUME Types, NEW u \in Users, AtEntry(u)
    PROVE  /\ NextFrame(u).stack \in Seq(Paths)
           /\ Len(NextFrame(u).stack) = Depth(u)
           /\ Depth(u) \in Nat /\ Depth(u) # 0
           /\ Depth(u) = 1 =>
                 /\ NextFrame(u).stack[1] = Tail(client[u].stack[1])
                 /\ client[u].stack[1] # <<>>
                 /\ client[u].stack[1] \in Paths
                 /\ NewQuery(u) = Append(client[u].query, client[u].stack[1][1])
           /\ Depth(u) # 1 =>
                 /\ NextFrame(u).stack[Depth(u)] = client[u].stack[Depth(u)]
                 /\ NewQuery(u) = Append(client[u].newquery,
                                         Head(client[u].stack)[1])
<1> DEFINE s == client[u].stack
           f == Head(client[u].stack)
<1>1. /\ client[u].state = "walking" /\ f # <<>>
      /\ client[u] \in ClientSet
      /\ s \in Seq(Paths) /\ s # <<>> /\ f \in Paths
      /\ Tail(s) \in Seq(Paths)
  BY FrameTypes DEF AtEntry
<1>2. NextFrame(u).stack = <<Tail(f)>> \o Tail(s)
  BY <1>1 DEF NextFrame, ClientSet
<1>3. Tail(f) \in Paths /\ Head(f) = f[1]
  BY <1>1, PoppedIs DEF Paths
<1>4. Depth(u) = Len(s) /\ FrameQuery(u) = IF Len(s) = 1 THEN client[u].query ELSE client[u].newquery
  BY DEF Depth, FrameQuery
<1>5. NewQuery(u) = Append(FrameQuery(u), Head(f))
  BY DEF NewQuery
<1> HIDE DEF s, f
<1> DEFINE t == Tail(s)
<1>6. /\ Len(t) = Len(s) - 1 /\ Len(s) \in Nat /\ Len(s) # 0
      /\ f = s[1]
      /\ \A i \in 1 .. Len(s) - 1 : t[i] = s[i + 1]
      /\ t \in Seq(Paths)
  BY <1>1, PoppedIs DEF s, f
<1> HIDE DEF t
<1> DEFINE r == <<Tail(f)>> \o t
<1>7. /\ r \in Seq(Paths) /\ Len(r) = Len(t) + 1
      /\ r[1] = Tail(f)
      /\ \A i \in 1 .. Len(t) : r[i + 1] = t[i]
  BY <1>3, <1>6, PushedIs
<1> HIDE DEF r
<1>8. Len(r) = Len(s)
  BY <1>6, <1>7
<1>9. Len(s) # 1 => r[Len(s)] = s[Len(s)]
  <2> SUFFICES ASSUME Len(s) # 1 PROVE r[Len(s)] = s[Len(s)]
    OBVIOUS
  <2> DEFINE i == Len(s) - 1
  <2>1. i \in 1 .. Len(s) - 1 /\ i \in 1 .. Len(t) /\ i + 1 = Len(s)
    BY <1>6
  <2> HIDE DEF i
  <2> QED
    BY <1>6, <1>7, <2>1
<1>10. NextFrame(u).stack = r
  BY <1>2 DEF r, t
<1> QED
  BY <1>1, <1>3, <1>4, <1>5, <1>6, <1>7, <1>8, <1>9, <1>10 DEF s, f

\* A frame that ends.
LEMMA EndedFrameIs ==
    ASSUME Types, NEW u \in Users, client[u].state = "walking"
    PROVE  /\ Depth(u) \in Nat /\ Depth(u) # 0
           /\ Tail(client[u].stack) \in Seq(Paths)
           /\ Len(Tail(client[u].stack)) = Depth(u) - 1
           /\ Depth(u) # 1 => Tail(client[u].stack)[Depth(u) - 1] = Rest(u)
           /\ Head(client[u].stack) = client[u].stack[1]
<1> DEFINE s == client[u].stack
<1>1. s \in Seq(Paths) /\ s # <<>>
  BY FrameTypes
<1> HIDE DEF s
<1>2. /\ Tail(s) \in Seq(Paths) /\ Len(Tail(s)) = Len(s) - 1
      /\ Len(s) \in Nat /\ Len(s) # 0
      /\ Head(s) = s[1]
      /\ \A i \in 1 .. Len(s) - 1 : Tail(s)[i] = s[i + 1]
  BY <1>1, PoppedIs
<1>3. Len(s) # 1 => Tail(s)[Len(s) - 1] = s[Len(s)]
  <2> SUFFICES ASSUME Len(s) # 1 PROVE Tail(s)[Len(s) - 1] = s[Len(s)]
    OBVIOUS
  <2> DEFINE i == Len(s) - 1
  <2>1. i \in 1 .. Len(s) - 1 /\ i + 1 = Len(s)
    BY <1>2
  <2> HIDE DEF i
  <2> QED
    BY <1>2, <2>1 DEF i
<1> QED
  BY <1>2, <1>3 DEF s, Depth, Rest

\* A frame that a listing begins.
LEMMA BegunFrameIs ==
    ASSUME Types, NEW u \in Users, NEW list \in Paths
    PROVE  LET t == <<list>> \o client[u].stack
           IN  /\ t \in Seq(Paths) /\ Len(t) = Depth(u) + 1
               /\ Depth(u) \in Nat
               /\ Head(t) = list
               /\ Depth(u) = 0 => t[1] = list
               /\ Depth(u) # 0 => t[Depth(u) + 1] = Rest(u)
<1> DEFINE s == client[u].stack
<1>1. s \in Seq(Paths)
  BY DEF Types, ClientType
<1> HIDE DEF s
<1> DEFINE t == <<list>> \o s
<1>2. /\ t \in Seq(Paths) /\ Len(t) = Len(s) + 1 /\ Len(s) \in Nat
      /\ t[1] = list /\ Head(t) = list
      /\ \A i \in 1 .. Len(s) : t[i + 1] = s[i]
  BY <1>1, PushedIs
<1> HIDE DEF t
<1>3. Len(s) # 0 => t[Len(s) + 1] = s[Len(s)]
  BY <1>2
<1> QED
  BY <1>2, <1>3 DEF t, s, Depth, Rest

\* While requests are made one at a time, what a client reads is what its
\* request deserves; and there is something to read unless the server died.
LEMMA ResponseIs ==
    ASSUME Types, OneClient, AnswersSound, NEW u \in Users, Waiting(u)
    PROVE  /\ OldQuery(u) \in Paths
           /\ \A a \in Responses(u) : a = Served(OldQuery(u))
           /\ up = "up" => Responses(u) # {}
<1>1. client[u].wait = Current /\ asked[Current] = OldQuery(u)
  BY DEF OneClient, Waiting
<1>2. Current \in Connections
  BY <1>1, WaitingIs
<1>3. /\ answers[Current] \in {<<>>, <<Served(OldQuery(u))>>}
      /\ Current \in shut => answers[Current] # <<>>
  BY <1>1, <1>2 DEF AnswersSound
<1>4. up = "up" => Current \in shut
  BY <1>1 DEF Waiting, Closed
<1>5. OldQuery(u) \in Paths
  BY DEF OldQuery, Types, ClientType
<1> DEFINE z == Served(OldQuery(u))
<1> HIDE DEF z
<1>6. /\ \A i \in DOMAIN answers[Current] : answers[Current][i] = z
      /\ answers[Current] # <<>> => 1 \in DOMAIN answers[Current]
  <2>1. CASE answers[Current] = <<>>
    BY <2>1
  <2>2. CASE answers[Current] = <<z>>
    BY <2>2
  <2> QED
    BY <1>3, <2>1, <2>2 DEF z
<1>7. Responses(u) = {answers[Current][i] : i \in DOMAIN answers[Current]}
  BY <1>1 DEF Responses
<1> QED
  BY <1>3, <1>4, <1>5, <1>6, <1>7 DEF z

-----------------------------------------------------------------------------
(* The directory the user named, step by step                               *)

\* Nobody takes back what was saved, and a server that is down stays down.
NoLoss == /\ fs' = fs
          /\ up' = "up" => up = "up"
          /\ \A path : IsSaved(path) => IsSaved(path)'

TopAsking(u) == client[u].state = "waiting" /\ Depth(u) = 1

\* What was saved stays.
LEMMA EntryStaysSaved ==
    ASSUME NEW u \in Users, NoLoss, client'[u].query = client[u].query
    PROVE  \A i : EntrySaved(u, i) => EntrySaved(u, i)'
BY DEF EntrySaved, NoLoss, Entries

\* Steps of others.
LEMMA TopKept ==
    ASSUME NEW u \in Users, NoLoss, client'[u] = client[u], TopSound(u)
    PROVE  TopSound(u)'
<1>1. /\ Depth(u)' = Depth(u) /\ Rest(u)' = Rest(u) /\ Done(u)' = Done(u)
      /\ InDirectory(u)' = InDirectory(u)
      /\ ServerSees(client[u].query)' = ServerSees(client[u].query)
  BY DEF Depth, Rest, Done, InDirectory, NoLoss, IsDir, Entries
<1> QED
  BY <1>1, EntryStaysSaved DEF TopSound, DoneIsSaved, NoLoss, Unbroken, Entries

\* A step that asks for nothing in the user's own directory, and may end the
\* request for the entry asked for last.
LEMMA TopBelow ==
    ASSUME NEW u \in Users, NoLoss, TopSound(u),
           Depth(u) # 0, Depth(u)' # 0,
           client[u].state \in {"waiting", "walking"},
           client'[u].state # "done", ~TopAsking(u)',
           client'[u].query = client[u].query, Rest(u)' = Rest(u),
           \A i \in 1 .. Len(fs[ServerSees(client[u].query)].list) :
              up = "up" /\ TopAsking(u) /\ i = Done(u) => EntrySaved(u, i)'
    PROVE  TopSound(u)'
<1>1. Done(u)' = Done(u) /\ Entries(client[u].query)' = Entries(client[u].query)
  BY DEF Done, NoLoss, Entries
<1>2. Unbroken(client[u].query)'
  BY DEF TopSound, Unbroken
<1>3. InDirectory(u)'
  BY <1>1 DEF TopSound, InDirectory, NoLoss, IsDir
<1>4. ASSUME up' = "up" PROVE DoneIsSaved(u)'
  <2>1. up = "up" /\ DoneIsSaved(u)
    BY <1>4 DEF NoLoss, TopSound
  <2>2. fs'[ServerSees(client'[u].query)].list = fs[ServerSees(client[u].query)].list
    BY DEF NoLoss
  <2>3. ASSUME NEW i \in 1 .. Len(fs[ServerSees(client[u].query)].list), i <= Done(u)
        PROVE  EntrySaved(u, i)'
    <3>1. CASE TopAsking(u) /\ i = Done(u)
      BY <1>1, <2>1, <3>1
    <3>2. CASE ~(TopAsking(u) /\ i = Done(u))
      BY <2>1, <2>3, <3>2, EntryStaysSaved DEF DoneIsSaved, TopAsking
    <3> QED
      BY <3>1, <3>2
  <2> QED
    BY <1>1, <2>2, <2>3 DEF DoneIsSaved, TopAsking
<1> QED
  BY <1>2, <1>3, <1>4 DEF TopSound

\* A user's request.
LEMMA TopStarted ==
    ASSUME Types, NEW u \in Users, OneClient, NEW path \in Queries, Start(u, path)
    PROVE  TopSound(u)'
<1>1. /\ client'[u].state = "waiting" /\ client'[u].query = path
      /\ client'[u].stack = client[u].stack
      /\ client[u].stack = <<>>
  BY DEF Start, OneClient, Types, ClientType
<1>2. Depth(u)' = 0
  BY <1>1 DEF Depth
<1>3. Unbroken(path)
  BY QueryAssumption DEF Unbroken
<1> QED
  BY <1>1, <1>2, <1>3 DEF TopSound, Unbroken

\* The next entry, of the user's directory or of one within.
LEMMA TopNextFrame ==
    ASSUME Types, Types', NEW u \in Users, NoLoss, TopSound(u), AtEntry(u),
           client'[u].stack = NextFrame(u).stack,
           client'[u].query = client[u].query,
           client'[u].newquery = NewQuery(u),
           \/ client'[u].state = "waiting"
           \/ client'[u].state = "walking" /\ up' # "up"
    PROVE  TopSound(u)'
<1>1. client[u].state = "walking"
  BY DEF AtEntry
<1>2. Depth(u) \in Nat /\ Depth(u) # 0 /\ Depth(u)' = Depth(u)
  BY NextFrameIs DEF Depth
<1>3. CASE Depth(u) # 1
  <2>1. Rest(u)' = Rest(u)
    BY <1>2, <1>3, NextFrameIs DEF Rest
  <2> QED
    BY <1>1, <1>2, <1>3, <2>1, TopBelow DEF TopAsking
<1>4. CASE Depth(u) = 1
  <2> DEFINE q == client[u].query
             e == Entries(q)
             list == fs[ServerSees(q)].list
             r == Rest(u)
             n == Done(u)
  <2>1. /\ r = client[u].stack[1] /\ r # <<>> /\ r \in Seq(Names)
        /\ Rest(u)' = Tail(r)
        /\ client'[u].newquery = Append(q, r[1])
    BY <1>2, <1>4, NextFrameIs DEF Rest, Paths
  <2>2. /\ Unbroken(q) /\ IsDir(ServerSees(q))
        /\ Len(r) <= Len(e)
        /\ \A i \in 1 .. Len(r) : r[i] = e[n + i]
    BY <1>2 DEF TopSound, InDirectory
  <2>3. q \in Paths
    BY DEF Types, ClientType
  <2>4. Len(e) \in Nat /\ Len(list) \in Nat /\ Len(list) <= Len(e)
    BY <2>2, <2>3, EntriesAre DEF Types
  <2>5. n = Len(e) - Len(r)
    BY DEF Done
  <2>6. /\ q' = q /\ e' = e
        /\ fs'[ServerSees(client'[u].query)].list = list
        /\ IsDir(ServerSees(q))' = IsDir(ServerSees(q))
    BY DEF NoLoss, Entries, IsDir
  <2>7. Done(u)' = Len(e) - Len(Tail(r))
    BY <2>1, <2>6 DEF Done
  <2>8. up = "up" => \A i \in 1 .. Len(list) : i <= n => EntrySaved(u, i)
    BY <1>1, <1>2 DEF TopSound, DoneIsSaved
  <2> HIDE DEF q, e, list, r, n
  <2>9. /\ Len(r) \in Nat /\ Len(r) # 0
        /\ Len(Tail(r)) = Len(r) - 1
        /\ \A i \in 1 .. Len(r) - 1 : Tail(r)[i] = r[i + 1]
    BY <2>1, PoppedIs
  <2>10. Done(u)' = n + 1 /\ n \in Nat
    BY <2>2, <2>4, <2>5, <2>7, <2>9
  <2>11. r[1] = e[n + 1]
    <3>1. 1 \in 1 .. Len(r)
      BY <2>9
    <3> QED
      BY <2>2, <3>1
  <2>12. \A i \in 1 .. Len(Tail(r)) : Tail(r)[i] = e[(n + 1) + i]
    <3> SUFFICES ASSUME NEW i \in 1 .. Len(r) - 1
                 PROVE  Tail(r)[i] = e[(n + 1) + i]
      BY <2>9
    <3>1. i + 1 \in 1 .. Len(r) /\ n + (i + 1) = (n + 1) + i
      BY <2>9, <2>10
    <3>2. r[i + 1] = e[n + (i + 1)]
      BY <2>2, <3>1
    <3> QED
      BY <2>9, <3>1, <3>2
  <2>13. InDirectory(u)'
    <3>1. Len(Tail(r)) <= Len(e)
      BY <2>2, <2>4, <2>9
    <3>2. IsDir(ServerSees(client[u].query))'
      BY <2>2, <2>6 DEF q
    <3>3. Rest(u)' = Tail(r) /\ Entries(client[u].query)' = e
      BY <2>1, <2>6 DEF q, e
    <3> QED
      BY <2>10, <2>12, <3>1, <3>2, <3>3 DEF InDirectory
  <2>14. ASSUME up' = "up" PROVE DoneIsSaved(u)'
    <3>1. ASSUME NEW i \in 1 .. Len(list), i <= n + 1, i # n + 1
          PROVE  EntrySaved(u, i)'
      <4>1. i <= n
        BY <2>10, <3>1
      <4>2. EntrySaved(u, i)
        BY <1>1, <2>8, <2>14, <4>1 DEF NoLoss
      <4> QED
        BY <4>2, EntryStaysSaved
    <3>2. Done(u)' # 0
      BY <2>10
    <3>3. (client[u].newquery = Append(client[u].query, Entries(client[u].query)[Done(u)]))'
      BY <2>1, <2>6, <2>10, <2>11 DEF q, e
    <3>4. client'[u].state = "waiting" /\ Depth(u)' = 1
      BY <1>2, <1>4, <2>14
    <3> QED
      BY <2>6, <2>10, <3>1, <3>2, <3>3, <3>4 DEF DoneIsSaved
  <2>15. Unbroken(client[u].query)'
    BY <2>2, <2>6 DEF q, Unbroken
  <2> QED
    BY <1>2, <2>13, <2>14, <2>15 DEF TopSound
<1> QED
  BY <1>3, <1>4

\* The entry a client waits for is answered as a file if it is one.
LEMMA EntryPending ==
    ASSUME Types, NEW u \in Users, NoLoss, TopSound(u), up = "up", TopAsking(u),
           client'[u].query = client[u].query,
           NEW i \in 1 .. Len(fs[ServerSees(client[u].query)].list),
           i = Done(u),
           \A path \in Paths : path = OldQuery(u) /\ Served(path).code = "ok"
                                  => IsSaved(path)'
    PROVE  EntrySaved(u, i)'
<1> DEFINE q == client[u].query
           names == ServerSees(q)
           list == fs[names].list
<1>1. Depth(u) # 0 /\ client[u].stack # <<>>
  <2>1. Len(client[u].stack) = 1
    BY DEF TopAsking, Depth
  <2>2. Len(<<>>) = 0
    OBVIOUS
  <2>3. 1 # 0
    OBVIOUS
  <2> QED
    BY <2>1, <2>2, <2>3, Zenon DEF Depth
<1> PICK longer : longer = Append(q, Entries(q)[i])
  OBVIOUS
<1>2. /\ Unbroken(q) /\ IsDir(names)
      /\ client[u].newquery = longer
  <2>1. Unbroken(q) /\ InDirectory(u) /\ DoneIsSaved(u)
    BY <1>1 DEF TopSound, TopAsking
  <2>2. client[u].newquery = Append(q, Entries(q)[Done(u)])
    BY <2>1 DEF DoneIsSaved, TopAsking
  <2>3. IsDir(names)
    BY <2>1 DEF InDirectory
  <2> QED
    BY <2>1, <2>2, <2>3
<1>3. OldQuery(u) = longer
  BY <1>1, <1>2 DEF OldQuery
<1>4. q \in Paths
  BY DEF Types, ClientType
<1>5. i \in 1 .. Len(list) /\ NetType
  BY DEF Types
<1>6. EntrySaved(u, i)' <=> (fs[Append(names, list[i])].kind = "file" => IsSaved(longer)')
  <2>1. Entries(client[u].query)' = Entries(q) /\ client'[u].query = q
    BY DEF NoLoss, Entries
  <2> QED
    BY <2>1 DEF EntrySaved, NoLoss
<1> HIDE DEF q
<1>7. /\ longer \in Paths
      /\ ServerSees(longer) = Append(names, list[i])
  BY <1>2, <1>4, <1>5, EntryAsked
<1>8. Append(names, list[i]) \in DOMAIN fs
  BY <1>2, <1>4, <1>5, EntriesAre
<1>9. ASSUME fs[Append(names, list[i])].kind = "file"
      PROVE  IsSaved(longer)'
  <2>1. longer # <<>>
    <3>1. Entries(q)[i] \in Names
      <4>1. /\ Len(list) \in Nat /\ Len(Entries(q)) \in Nat
            /\ Len(list) <= Len(Entries(q))
            /\ \A j \in 1 .. Len(Entries(q)) : Entries(q)[j] \in Names
        BY <1>2, <1>4, <1>5, EntriesAre
      <4>2. i \in 1 .. Len(Entries(q))
        BY <1>5, <4>1
      <4> QED
        BY <4>1, <4>2
    <3> QED
      BY <1>4, <3>1, AppendIs
  <2>2. Served(longer).code = "ok"
    BY <1>7, <1>8, <1>9, <2>1, ServedIs
  <2> QED
    BY <1>3, <1>7, <2>2
<1> QED
  BY <1>6, <1>9

\* The end of a call that reads no listing.
LEMMA TopReturned ==
    ASSUME Types, NEW u \in Users, NoLoss, TopSound(u),
           client[u].state = "waiting",
           client' = [client EXCEPT ![u] = Return(u)],
           up = "up" => Served(OldQuery(u)).code # "directory",
           \A path \in Paths :
              up = "up" /\ path = OldQuery(u) /\ Served(path).code = "ok"
                 => IsSaved(path)'
    PROVE  TopSound(u)'
<1>1. /\ client'[u] = Return(u)
      /\ client'[u].query = client[u].query
      /\ client'[u].stack = client[u].stack
      /\ client'[u].state \in {"done", "walking"}
      /\ client'[u].state = "walking" <=> client[u].stack # <<>>
  BY ReturnIs DEF Types, ClientType
<1>2. /\ Depth(u)' = Depth(u) /\ Rest(u)' = Rest(u)
      /\ Depth(u) = 0 <=> client[u].stack = <<>>
  <2>1. client[u].stack \in Seq(Paths)
    BY DEF Types, ClientType
  <2>2. Len(client[u].stack) = 0 <=> client[u].stack = <<>>
    BY <2>1, EmptySeq
  <2> QED
    BY <1>1, <2>2 DEF Depth, Rest
<1>3. CASE Depth(u) # 0
  <2>1. client'[u].state = "walking"
    BY <1>1, <1>2, <1>3
  <2>2. \A i \in 1 .. Len(fs[ServerSees(client[u].query)].list) :
           up = "up" /\ TopAsking(u) /\ i = Done(u) => EntrySaved(u, i)'
    BY <1>1, EntryPending
  <2> QED
    BY <1>1, <1>2, <1>3, <2>1, <2>2, TopBelow DEF TopAsking
<1>4. CASE Depth(u) = 0
  <2>1. OldQuery(u) = client[u].query /\ client[u].query \in Paths
    BY <1>2, <1>4 DEF OldQuery, Types, ClientType
  <2>2. ASSUME up' = "up", ServerSees(client[u].query) \in DOMAIN fs
        PROVE  Len(fs[ServerSees(client[u].query)].list) = 0
    <3>1. client[u].query # <<>>
      <4> SUFFICES ASSUME client[u].query = <<>> PROVE FALSE
        OBVIOUS
      <4>1. ServerSees(<<>>) = <<>>
        <5>1. Len(<<>>) = 0 /\ <<>> \in Paths
          BY DEF Paths
        <5> QED
          BY <5>1, ServerSeesIs, SeesIs
      <4>2. <<>> \in DOMAIN fs
        BY <2>2, <4>1
      <4> QED
        BY <4>2, DirectoryIs DEF Types
    <3>2. up = "up" /\ Served(client[u].query).code # "directory"
      BY <2>1, <2>2 DEF NoLoss
    <3>3. fs[ServerSees(client[u].query)].kind # "dir"
      BY <2>1, <2>2, <3>1, <3>2, ServedIs
    <3>4. fs[ServerSees(client[u].query)].list = <<>>
      BY <2>2, <3>3, DirectoryIs DEF Types
    <3> QED
      BY <3>4
  <2>3. ServerSees(client[u].query)' = ServerSees(client[u].query) /\ fs' = fs
    BY <1>1 DEF NoLoss
  <2>4. Unbroken(client[u].query)'
    BY <1>1 DEF TopSound, Unbroken
  <2>5. client'[u].state = "done" /\ Depth(u)' = 0
    BY <1>1, <1>2, <1>4
  <2>6. ASSUME up' = "up", ServerSees(client[u].query)' \in DOMAIN fs'
        PROVE  \A i \in 1 .. Len(fs[ServerSees(client[u].query)].list)' : EntrySaved(u, i)'
    BY <2>2, <2>3, <2>6
  <2> QED
    BY <2>4, <2>5, <2>6 DEF TopSound
<1> QED
  BY <1>3, <1>4

\* A listing is read, the user's own or one within.
LEMMA TopBegun ==
    ASSUME Types, NEW u \in Users, NoLoss, TopSound(u),
           client[u].state = "waiting",
           Served(OldQuery(u)).code = "directory", OldQuery(u) \in Paths,
           client'[u].query = client[u].query,
           client'[u].stack = <<Entries(OldQuery(u))>> \o client[u].stack,
           client'[u].state = "walking"
    PROVE  TopSound(u)'
<1>1. IsDir(ServerSees(OldQuery(u)))
  BY ServedIs DEF IsDir
<1>2. Entries(OldQuery(u)) \in Paths /\ Len(Entries(OldQuery(u))) \in Nat
  BY <1>1, EntriesAre DEF Types
<1>3. /\ Depth(u)' = Depth(u) + 1 /\ Depth(u) \in Nat /\ Depth(u)' # 0
      /\ Depth(u) = 0 => Rest(u)' = Entries(OldQuery(u))
      /\ Depth(u) # 0 => Rest(u)' = Rest(u)
  <2>1. /\ Len(client'[u].stack) = Depth(u) + 1 /\ Depth(u) \in Nat
        /\ Depth(u) = 0 => client'[u].stack[1] = Entries(OldQuery(u))
        /\ Depth(u) # 0 => client'[u].stack[Depth(u) + 1] = Rest(u)
    BY <1>2, BegunFrameIs
  <2>2. Depth(u)' = Depth(u) + 1 /\ Depth(u)' # 0
    BY <2>1 DEF Depth
  <2>3. Depth(u) = 0 => Depth(u)' = 1
    BY <2>2
  <2> QED
    BY <2>1, <2>2, <2>3 DEF Rest
<1>4. CASE Depth(u) # 0
  <2>1. \A i \in 1 .. Len(fs[ServerSees(client[u].query)].list) :
           up = "up" /\ TopAsking(u) /\ i = Done(u) => EntrySaved(u, i)'
    <3>1. "directory" # "ok"
      OBVIOUS
    <3>2. \A path \in Paths : path = OldQuery(u) /\ Served(path).code = "ok"
                                 => IsSaved(path)'
      BY <3>1
    <3> QED
      BY <3>2, EntryPending
  <2> QED
    BY <1>3, <1>4, <2>1, TopBelow DEF TopAsking
<1>5. CASE Depth(u) = 0
  <2> DEFINE q == client[u].query
  <2>1. OldQuery(u) = q
    <3>1. client[u].stack = <<>>
      <4>1. client[u].stack \in Seq(Paths) /\ Len(client[u].stack) = 0
        BY <1>5 DEF Types, ClientType, Depth
      <4> QED
        BY <4>1, EmptySeq
    <3> QED
      BY <3>1 DEF OldQuery
  <2>2. /\ Rest(u)' = Entries(q) /\ Entries(q)' = Entries(q) /\ q' = q
        /\ IsDir(ServerSees(q))'
    BY <1>1, <1>3, <1>5, <2>1 DEF NoLoss, Entries, IsDir
  <2>3. Done(u)' = 0
    <3>1. Done(u)' = Len(Entries(q)) - Len(Entries(q))
      BY <2>2 DEF Done
    <3> QED
      BY <1>2, <2>1, <3>1
  <2>4. \A i \in 1 .. Len(Entries(q)) : Entries(q)[i] = Entries(q)[0 + i]
    OBVIOUS
  <2>5. Len(Entries(q)) <= Len(Entries(q))
    BY <1>2, <2>1
  <2>6. InDirectory(u)'
    BY <2>2, <2>3, <2>4, <2>5 DEF InDirectory
  <2>7. \A i \in 1 .. Len(fs[ServerSees(client[u].query)].list)' : ~(i <= Done(u)')
    BY <2>3
  <2>8. DoneIsSaved(u)'
    BY <2>7 DEF DoneIsSaved
  <2>9. Unbroken(client[u].query)'
    BY <2>2 DEF TopSound, Unbroken
  <2> QED
    BY <1>3, <2>6, <2>8, <2>9 DEF TopSound
<1> QED
  BY <1>4, <1>5

\* The end of a listing, the user's own or one within.
LEMMA TopEnded ==
    ASSUME Types, NEW u \in Users, NoLoss, TopSound(u), EndFrame(u)
    PROVE  TopSound(u)'
<1>1. /\ client[u].state = "walking" /\ Head(client[u].stack) = <<>>
      /\ client'[u].stack = Tail(client[u].stack)
      /\ client'[u].query = client[u].query
      /\ client'[u].state = IF Depth(u) = 1 THEN "done" ELSE "walking"
  BY DEF EndFrame, Types, ClientType, Depth
<1>2. /\ Depth(u) \in Nat /\ Depth(u) # 0 /\ Depth(u)' = Depth(u) - 1
      /\ Depth(u) # 1 => Rest(u)' = Rest(u)
      /\ Depth(u) = 1 => Rest(u) = <<>>
  <2>1. /\ Depth(u) \in Nat /\ Depth(u) # 0
        /\ Len(Tail(client[u].stack)) = Depth(u) - 1
        /\ Depth(u) # 1 => Tail(client[u].stack)[Depth(u) - 1] = Rest(u)
        /\ Head(client[u].stack) = client[u].stack[1]
    BY <1>1, EndedFrameIs
  <2>2. Depth(u)' = Depth(u) - 1
    BY <1>1, <2>1 DEF Depth
  <2> QED
    BY <1>1, <2>1, <2>2 DEF Rest
<1>3. CASE Depth(u) # 1
  <2>1. Depth(u)' # 0
    BY <1>2, <1>3
  <2> QED
    BY <1>1, <1>2, <1>3, <2>1, TopBelow DEF TopAsking
<1>4. CASE Depth(u) = 1
  <2> DEFINE q == client[u].query
             list == fs[ServerSees(q)].list
  <2>1. client'[u].state = "done" /\ Depth(u)' = 0
    BY <1>1, <1>2, <1>4
  <2>2. IsDir(ServerSees(q)) /\ q \in Paths
    BY <1>2 DEF TopSound, InDirectory, Types, ClientType
  <2>3. Len(list) \in Nat /\ Len(list) <= Done(u)
    <3>1. Len(list) \in Nat /\ Len(Entries(q)) \in Nat /\ Len(list) <= Len(Entries(q))
      BY <2>2, EntriesAre DEF Types
    <3>2. Done(u) = Len(Entries(q)) - Len(<<>>)
      BY <1>2, <1>4 DEF Done
    <3> QED
      BY <3>1, <3>2
  <2>4. up = "up" => \A i \in 1 .. Len(list) : i <= Done(u) => EntrySaved(u, i)
    BY <1>1, <1>2 DEF TopSound, DoneIsSaved
  <2>5. ASSUME up = "up", NEW i \in 1 .. Len(list) PROVE EntrySaved(u, i)'
    <3> HIDE DEF list
    <3>1. i <= Done(u)
      <4>1. Done(u) \in Int
        <5>1. Done(u) = Len(Entries(q)) - Len(<<>>)
          BY <1>2, <1>4 DEF Done
        <5>2. Len(Entries(q)) \in Nat
          BY <2>2, EntriesAre DEF Types
        <5> QED
          BY <5>1, <5>2
      <4> QED
        BY <2>3, <4>1
    <3> QED
      BY <1>1, <2>4, <2>5, <3>1, EntryStaysSaved
  <2>6. fs[ServerSees(client[u].query)].list' = list
    BY <1>1 DEF NoLoss
  <2>7. Unbroken(client[u].query)'
    BY <1>1 DEF TopSound, Unbroken
  <2>8. up' = "up" => up = "up"
    BY DEF NoLoss
  <2> QED
    BY <2>1, <2>5, <2>6, <2>7, <2>8 DEF TopSound
<1> QED
  BY <1>3, <1>4

\* A client that crashes.
LEMMA TopCrashed ==
    ASSUME Types, NEW u \in Users, NoLoss, TopSound(u), Crashed(u)
    PROVE  TopSound(u)'
<1>1. /\ client'[u].query = client[u].query /\ client'[u].stack = client[u].stack
      /\ client'[u].state = "crashed"
  BY DEF Crashed, Types, ClientType
<1>2. /\ Depth(u)' = Depth(u) /\ Rest(u)' = Rest(u) /\ Done(u)' = Done(u)
      /\ InDirectory(u)' = InDirectory(u)
  BY <1>1 DEF Depth, Rest, Done, InDirectory, NoLoss, IsDir, Entries
<1>3. Unbroken(client[u].query)'
  BY <1>1 DEF TopSound, Unbroken
<1> QED
  BY <1>1, <1>2, <1>3 DEF TopSound

\* No step takes back a file or starts the server again.
LEMMA NothingLost ==
    ASSUME Types, [Next]_vars
    PROVE  NoLoss
<1>1. fs' = fs
  BY DEF Next, vars, netVars, ServerStep, AcceptorStep, Accept, WriteFd,
         WriteQuery, TestRear, SetFront, LinkRear, SetRear, WorkerStep,
         TakeFront, ReadNext, AdvanceFront, ClearRear, ReadFd, RespondNone,
         RespondOpen, RespondNoFd, RespondCrash, Crash, Close, Interrupt,
         Start, ClientStep, ReceiveError, ReceiveDirectory, ReceiveFile,
         ReceiveNoRoom, ReceiveNothing, AskEntry, SkipEntry, Overflow, EndFrame
<1>2. up' = "up" => up = "up"
  BY DEF Next, vars, netVars, Start, ClientStep, ReceiveError,
         ReceiveDirectory, ReceiveFile, ReceiveNoRoom, ReceiveNothing,
         AskEntry, SkipEntry, Overflow, EndFrame
<1>3. \/ saved' = saved
      \/ \E u \in Users : ReceiveFile(u)
  BY DEF Next, vars, clientVars, Start, ClientStep, ReceiveError,
         ReceiveDirectory, ReceiveNoRoom, ReceiveNothing,
         AskEntry, SkipEntry, Overflow, EndFrame
<1>4. ASSUME NEW u \in Users, ReceiveFile(u)
      PROVE  \A path : IsSaved(path) => IsSaved(path)'
  <2>1. PICK a : saved' = {s \in saved : s.at # OldQuery(u)}
                            \cup {[at |-> OldQuery(u), content |-> a]}
    BY <1>4 DEF ReceiveFile
  <2> SUFFICES ASSUME NEW s \in saved PROVE \E x \in saved' : x.at = s.at
    BY DEF IsSaved
  <2> DEFINE r == [at |-> OldQuery(u), content |-> a]
  <2>4. r \in saved' /\ r.at = OldQuery(u)
    BY <2>1
  <2> HIDE DEF r
  <2>2. CASE s.at = OldQuery(u)
    BY <2>2, <2>4
  <2>3. CASE s.at # OldQuery(u)
    BY <2>1, <2>3
  <2> QED
    BY <2>2, <2>3
<1>5. \A path : IsSaved(path) => IsSaved(path)'
  BY <1>3, <1>4 DEF IsSaved
<1> QED
  BY <1>1, <1>2, <1>5 DEF NoLoss

\* What a client does when it has read its response to the end.
LEMMA TopReceived ==
    ASSUME Types, OneClient, AnswersSound, NEW u \in Users, NoLoss, TopSound(u),
           \/ ReceiveError(u) \/ ReceiveDirectory(u) \/ ReceiveFile(u)
           \/ ReceiveNoRoom(u) \/ ReceiveNothing(u)
    PROVE  TopSound(u)'
<1>1. Waiting(u) /\ client[u].state = "waiting"
  BY DEF ReceiveError, ReceiveDirectory, ReceiveFile, ReceiveNoRoom,
         ReceiveNothing, Waiting
<1>2. /\ OldQuery(u) \in Paths
      /\ \A a \in Responses(u) : a = Served(OldQuery(u))
      /\ up = "up" => Responses(u) # {}
  BY <1>1, ResponseIs
<1>3. CASE ReceiveError(u)
  <2>1. Served(OldQuery(u)).code \notin {"ok", "directory"}
    BY <1>2, <1>3 DEF ReceiveError
  <2> QED
    BY <1>1, <1>3, <2>1, TopReturned DEF ReceiveError
<1>4. CASE ReceiveDirectory(u)
  <2>1. PICK a \in Responses(u) :
           /\ a.code = "directory"
           /\ client' = [client EXCEPT ![u].state = "walking",
                            ![u].stack = <<Tokens(fs[a.of].list)>> \o @]
    BY <1>4 DEF ReceiveDirectory
  <2>2. a = Served(OldQuery(u)) /\ a.of = ServerSees(OldQuery(u))
    BY <1>2, <2>1, ServedIs
  <2>3. /\ client'[u].query = client[u].query
        /\ client'[u].state = "walking"
        /\ client'[u].stack = <<Tokens(fs[a.of].list)>> \o client[u].stack
    BY <2>1 DEF Types, ClientType
  <2>4. Tokens(fs[a.of].list) = Entries(OldQuery(u))
    BY <2>2 DEF Entries
  <2> QED
    BY <1>1, <1>2, <2>1, <2>2, <2>3, <2>4, TopBegun
<1>5. CASE ReceiveFile(u)
  <2>1. /\ Served(OldQuery(u)).code = "ok"
        /\ \E s \in saved' : s.at = OldQuery(u)
    <3>1. PICK a \in Responses(u) :
             /\ a.code = "ok"
             /\ saved' = {s \in saved : s.at # OldQuery(u)}
                           \cup {[at |-> OldQuery(u), content |-> a.of]}
      BY <1>5 DEF ReceiveFile
    <3> DEFINE r == [at |-> OldQuery(u), content |-> a.of]
    <3>2. r \in saved' /\ r.at = OldQuery(u)
      BY <3>1
    <3> HIDE DEF r
    <3> QED
      BY <1>2, <3>1, <3>2
  <2>2. \A path \in Paths : path = OldQuery(u) => IsSaved(path)'
    BY <2>1 DEF IsSaved
  <2>3. Served(OldQuery(u)).code # "directory"
    BY <2>1
  <2> QED
    BY <1>1, <1>5, <2>2, <2>3, TopReturned DEF ReceiveFile
<1>6. CASE ReceiveNoRoom(u)
  BY <1>6, TopCrashed DEF ReceiveNoRoom
<1>7. CASE ReceiveNothing(u)
  <2>1. up # "up"
    BY <1>2, <1>7 DEF ReceiveNothing
  <2>2. CASE client' = [client EXCEPT ![u] = Return(u)]
    BY <1>1, <2>1, <2>2, TopReturned
  <2>3. CASE Crashed(u)
    BY <2>3, TopCrashed
  <2> QED
    BY <1>7, <2>2, <2>3 DEF ReceiveNothing
<1> QED
  BY <1>3, <1>4, <1>5, <1>6, <1>7

\* What a client does in a listing.
LEMMA TopWalked ==
    ASSUME Types, Types', NEW u \in Users, NoLoss, TopSound(u),
           AskEntry(u) \/ SkipEntry(u) \/ Overflow(u) \/ EndFrame(u)
    PROVE  TopSound(u)'
<1>1. AtEntry(u) => /\ client[u] \in ClientSet /\ NextFrame(u) \in ClientSet
                    /\ NextFrame(u).state = "walking"
                    /\ NextFrame(u).query = client[u].query
                    /\ NextFrame(u).newquery = NewQuery(u)
  BY FrameTypes DEF AtEntry
<1>2. CASE AskEntry(u)
  <2>1. client'[u] = Asking(NextFrame(u), Len(asked) + 1)
    BY <1>2 DEF AskEntry, Asking, Types, ClientType
  <2>2. Len(asked) + 1 \in Nat
    BY DEF Types, NetType
  <2>3. AtEntry(u)
    BY <1>2 DEF AskEntry
  <2>4. /\ client'[u].state = "waiting" /\ client'[u].query = client[u].query
        /\ client'[u].newquery = NewQuery(u)
        /\ client'[u].stack = NextFrame(u).stack
    BY <1>1, <2>1, <2>2, <2>3, AskingIs
  <2> QED
    BY <2>3, <2>4, TopNextFrame
<1>3. CASE SkipEntry(u)
  <2>1. AtEntry(u) /\ client'[u] = NextFrame(u) /\ up' # "up"
    BY <1>3 DEF SkipEntry, Types, ClientType, netVars
  <2> QED
    BY <1>1, <2>1, TopNextFrame
<1>4. CASE Overflow(u)
  BY <1>4, TopCrashed DEF Overflow
<1>5. CASE EndFrame(u)
  BY <1>5, TopEnded
<1> QED
  BY <1>2, <1>3, <1>4, <1>5

\* With the environment its discipline stays.
LEMMA SameDiscipline == [Next]_vars => (Disciplined' <=> Disciplined)
BY EnvKept DEF Disciplined

\* Only its own steps change a client.
LEMMA ClientChanges ==
    ASSUME Types, [Next]_vars, NEW u \in Users
    PROVE  \/ client'[u] = client[u]
           \/ \E path \in Queries : Start(u, path)
           \/ ClientStep(u)
<1>1. ASSUME NEW v \in Users, v # u,
             (\E path \in Queries : Start(v, path)) \/ ClientStep(v)
      PROVE  client'[u] = client[u]
  <2>1. CASE \E path \in Queries : Start(v, path)
    BY <1>1, <2>1 DEF Start, Types, ClientType
  <2>2. CASE AskEntry(v)
    BY <1>1, <2>2 DEF AskEntry, Types, ClientType
  <2>3. CASE ClientStep(v) /\ ~AskEntry(v)
    BY <1>1, <2>3, AloneIs
  <2> QED
    BY <1>1, <2>1, <2>2, <2>3
<1>2. \/ UNCHANGED client
      \/ \E v \in Users : (\E path \in Queries : Start(v, path)) \/ ClientStep(v)
  BY DEF Next, vars, clientVars
<1> QED
  BY <1>1, <1>2

\* Every step keeps what is known of the directory the user named.
LEMMA TopStep == Types /\ DisciplinedInv /\ TopInv /\ [Next]_vars => TopInv'
<1> SUFFICES ASSUME Types, Types', DisciplinedInv, TopInv, [Next]_vars, Disciplined'
             PROVE  \A u \in Users : TopSound(u)'
  BY TypesStep DEF TopInv
<1>1. Disciplined /\ OneClient /\ AnswersSound /\ \A u \in Users : TopSound(u)
  BY SameDiscipline DEF DisciplinedInv, TopInv
<1>2. NoLoss
  BY NothingLost
<1> TAKE u \in Users
<1>3. CASE client'[u] = client[u]
  BY <1>1, <1>2, <1>3, TopKept
<1>4. ASSUME NEW path \in Queries, Start(u, path)
      PROVE  TopSound(u)'
  BY <1>1, <1>4, TopStarted
<1>5. CASE ClientStep(u)
  BY <1>1, <1>2, <1>5, TopReceived, TopWalked DEF ClientStep
<1> QED
  BY <1>1, <1>3, <1>4, <1>5, ClientChanges

-----------------------------------------------------------------------------
(* The directories within, step by step                                     *)

\* Steps of others.
LEMMA DepthKept ==
    ASSUME NEW u \in Users, NoLoss, client'[u] = client[u], DepthSound(u)
    PROVE  DepthSound(u)'
<1>1. /\ Depth(u)' = Depth(u) /\ OldQuery(u)' = OldQuery(u)
      /\ \A path : /\ IsDir(ServerSees(path))' <=> IsDir(ServerSees(path))
                   /\ DeadEnd(path)' <=> DeadEnd(path)
                   /\ \A n : Live(path, n)' <=> Live(path, n)
                   /\ Entries(path)' = Entries(path)
  BY DEF Depth, OldQuery, NoLoss, IsDir, DeadEnd, Live, Unbroken, Entries
<1> QED
  BY <1>1 DEF DepthSound, NoLoss

\* A step that leaves the depth as it is or makes it less, and nothing to
\* wait for or to walk on through.
LEMMA DepthLess ==
    ASSUME NEW u \in Users, NoLoss, DepthSound(u),
           Depth(u) \in Nat, Depth(u)' \in Nat, Depth(u)' <= Depth(u),
           NetType,
           client'[u].state # "waiting",
           \/ client'[u].state # "walking" \/ up' # "up"
           \/ Depth(u)' <= 1 \/ DeadEnd(client[u].newquery)'
    PROVE  DepthSound(u)'
<1>1. Depth(u)' # 0 => \E names \in DOMAIN fs' : Depth(u)' <= Len(names)
  <2> SUFFICES ASSUME Depth(u)' # 0
               PROVE  \E names \in DOMAIN fs : Depth(u)' <= Len(names)
    BY DEF NoLoss
  <2>1. Depth(u) # 0
    OBVIOUS
  <2>2. PICK names \in DOMAIN fs : Depth(u) <= Len(names)
    BY <2>1 DEF DepthSound
  <2>3. Len(names) \in Nat
    BY DirectoryIs
  <2> QED
    BY <2>2, <2>3
<1>2. Depth(u)' > 1 => ~(Depth(u)' <= 1)
  OBVIOUS
<1> QED
  BY <1>1, <1>2 DEF DepthSound

\* An entry that is asked for is a directory with the way to it unbroken, or
\* the end of the way.
LEMMA EntryLeads ==
    ASSUME NetType, WellOrdered, NEW path \in Paths, Unbroken(path),
           IsDir(ServerSees(path)), NEW i \in 1 .. Len(Entries(path))
    PROVE  LET longer == Append(path, Entries(path)[i])
           IN  /\ longer \in Paths
               /\ \/ Live(longer, Len(ServerSees(path)) + 1)
                  \/ DeadEnd(longer)
<1> DEFINE names == ServerSees(path)
           list == fs[names].list
           longer == Append(path, Entries(path)[i])
<1>1. /\ names \in DOMAIN fs /\ list \in Seq(Words) /\ Len(list) \in Nat
      /\ list # <<>> => Len(Entries(path)) = Len(list)
  BY EntriesAre
<1>2. list # <<>> /\ fs[Append(names, Last(list))].kind # "dir"
  BY <1>1 DEF WellOrdered, IsDir
<1>3. i \in 1 .. Len(list)
  BY <1>1, <1>2
<1>4. /\ longer \in Paths
      /\ ServerSees(longer) = Append(names, list[i])
      /\ Len(ServerSees(longer)) = Len(names) + 1
      /\ i # Len(list) => Unbroken(longer)
  BY <1>3, EntryAsked
<1>5. names \in Seq(Words) /\ Len(names) \in Nat
  BY <1>1, DirectoryIs
<1> HIDE DEF names, list, longer
<1>6. CASE IsDir(ServerSees(longer))
  <2>1. i # Len(list)
    <3> SUFFICES ASSUME i = Len(list) PROVE FALSE
      OBVIOUS
    <3>1. Last(list) = list[i]
      BY DEF Last
    <3> QED
      BY <1>2, <1>4, <1>6, <3>1 DEF IsDir
  <2>2. Len(names) + 1 <= Len(ServerSees(longer))
    BY <1>4, <1>5
  <2> QED
    BY <1>4, <1>6, <2>1, <2>2 DEF Live, names, longer
<1>7. CASE ~IsDir(ServerSees(longer))
  <2>1. ServerSees(longer) # <<>>
    <3>1. Len(<<>>) = 0 /\ Len(ServerSees(longer)) # 0
      BY <1>4, <1>5
    <3> QED
      BY <3>1
  <2> QED
    BY <1>4, <1>7, <2>1 DEF DeadEnd, longer
<1> QED
  BY <1>6, <1>7

\* A user's request.
LEMMA DepthStarted ==
    ASSUME Types, NEW u \in Users, OneClient, NoLoss, NEW path \in Queries,
           Start(u, path)
    PROVE  DepthSound(u)'
<1>1. /\ client'[u].state = "waiting" /\ client'[u].query = path
      /\ client'[u].stack = client[u].stack
      /\ client[u].stack = <<>>
  BY DEF Start, OneClient, Types, ClientType
<1>2. Depth(u)' = 0 /\ OldQuery(u)' = path
  BY <1>1 DEF Depth, OldQuery
<1>3. path \in Paths /\ Unbroken(path)
  BY QueryAssumption DEF Unbroken
<1>4. IsDir(ServerSees(path)) => Live(path, 0)
  <2>1. ServerSees(path) \in Seq(Words)
    BY <1>3, SeesType
  <2>2. 0 <= Len(ServerSees(path))
    BY <2>1
  <2> QED
    BY <1>3, <2>2 DEF Live
<1>5. Live(path, 0)' \/ ~IsDir(ServerSees(path))'
  BY <1>4 DEF NoLoss, Live, IsDir, Unbroken
<1> QED
  BY <1>1, <1>2, <1>5 DEF DepthSound

\* The entry a client asks for next.
LEMMA DepthAsked ==
    ASSUME Types, NEW u \in Users, NoLoss, TopSound(u), DepthSound(u),
           WellOrdered, AtEntry(u), up = "up",
           client'[u].stack = NextFrame(u).stack,
           client'[u].newquery = NewQuery(u),
           client'[u].state = "waiting"
    PROVE  DepthSound(u)'
<1>1. /\ Depth(u) \in Nat /\ Depth(u) # 0 /\ Depth(u)' = Depth(u)
      /\ client'[u].stack # <<>>
  <2>1. Depth(u) \in Nat /\ Depth(u) # 0 /\ Len(client'[u].stack) = Depth(u)
    BY NextFrameIs
  <2>2. Len(<<>>) = 0
    OBVIOUS
  <2>3. Len(client'[u].stack) # Len(<<>>)
    BY <2>1, <2>2
  <2> QED
    BY <2>1, <2>3 DEF Depth
<1>2. OldQuery(u)' = NewQuery(u)
  BY <1>1 DEF OldQuery
<1>3. \E names \in DOMAIN fs : Depth(u) <= Len(names)
  BY <1>1 DEF DepthSound
<1>4. Live(NewQuery(u), Depth(u)) \/ DeadEnd(NewQuery(u))
  <2>1. CASE Depth(u) = 1
    <3> DEFINE q == client[u].query
               r == Rest(u)
    <3>1. /\ r = client[u].stack[1] /\ r # <<>> /\ r \in Seq(Names)
          /\ NewQuery(u) = Append(q, r[1])
      BY <2>1, NextFrameIs DEF Rest, Paths
    <3>2. /\ Unbroken(q) /\ IsDir(ServerSees(q)) /\ q \in Paths
          /\ Len(r) <= Len(Entries(q))
          /\ \A i \in 1 .. Len(r) : r[i] = Entries(q)[Done(u) + i]
      BY <1>1 DEF TopSound, InDirectory, Types, ClientType
    <3>3. Done(u) = Len(Entries(q)) - Len(r)
      BY DEF Done
    <3>4. Len(Entries(q)) \in Nat /\ ServerSees(q) \in Seq(Words)
      BY <3>2, EntriesAre, SeesType DEF Types
    <3> HIDE DEF q, r
    <3>5. Len(r) \in Nat /\ Len(r) # 0
      BY <3>1, PoppedIs
    <3>6. Done(u) + 1 \in 1 .. Len(Entries(q)) /\ 1 \in 1 .. Len(r)
      BY <3>2, <3>3, <3>4, <3>5
    <3>7. NewQuery(u) = Append(q, Entries(q)[Done(u) + 1])
      BY <3>1, <3>2, <3>6
    <3>8. Live(NewQuery(u), Len(ServerSees(q)) + 1) \/ DeadEnd(NewQuery(u))
      BY <3>2, <3>6, <3>7, EntryLeads DEF Types
    <3>9. Live(NewQuery(u), Len(ServerSees(q)) + 1) => Live(NewQuery(u), 1)
      <4>1. NewQuery(u) \in Paths
        BY <3>2, <3>6, <3>7, EntryLeads DEF Types
      <4>2. Len(ServerSees(NewQuery(u))) \in Nat /\ Len(ServerSees(q)) \in Nat
        BY <3>4, <4>1, SeesType
      <4> QED
        BY <4>2 DEF Live
    <3> QED
      BY <2>1, <3>8, <3>9
  <2>2. CASE Depth(u) # 1
    <3> DEFINE q == client[u].newquery
               f == Head(client[u].stack)
    <3>1. NewQuery(u) = Append(q, f[1]) /\ q \in Paths
      BY <2>2, NextFrameIs DEF Types, ClientType
    <3>2. \/ DeadEnd(q)
          \/ Live(q, Depth(u) - 1) /\ f = Entries(q)
      BY <1>1, <2>2 DEF DepthSound, AtEntry
    <3>3. f # <<>> /\ f \in Seq(Names)
      BY FrameTypes DEF AtEntry, Paths
    <3> HIDE DEF q, f
    <3>4. Len(f) \in Nat /\ Len(f) # 0 /\ 1 \in 1 .. Len(f) /\ f[1] \in Names
      <4>1. Len(f) \in Nat /\ Len(f) # 0
        BY <3>3, PoppedIs
      <4>2. 1 \in 1 .. Len(f)
        BY <4>1
      <4> QED
        BY <3>3, <4>1, <4>2
    <3>5. CASE DeadEnd(q)
      BY <3>1, <3>4, <3>5, DeadEndStays DEF Types
    <3>6. CASE Live(q, Depth(u) - 1) /\ f = Entries(q)
      <4>1. /\ NewQuery(u) \in Paths
            /\ Live(NewQuery(u), Len(ServerSees(q)) + 1) \/ DeadEnd(NewQuery(u))
        BY <3>1, <3>4, <3>6, EntryLeads DEF Live, Types
      <4>2. Len(ServerSees(q)) \in Nat /\ Len(ServerSees(NewQuery(u))) \in Nat
        BY <3>1, <4>1, SeesType
      <4>3. Depth(u) - 1 <= Len(ServerSees(q))
        BY <3>6 DEF Live
      <4>4. Live(NewQuery(u), Len(ServerSees(q)) + 1) => Live(NewQuery(u), Depth(u))
        BY <1>1, <4>2, <4>3 DEF Live
      <4> QED
        BY <4>1, <4>4
    <3> QED
      BY <3>2, <3>5, <3>6
  <2> QED
    BY <2>1, <2>2
<1> PICK path : path = NewQuery(u)
  OBVIOUS
<1>5. Live(path, Depth(u)) \/ DeadEnd(path)
  BY <1>4
<1>6. Live(path, Depth(u)') \/ (~IsDir(ServerSees(path)) /\ DeadEnd(path))
  BY <1>1, <1>5 DEF DeadEnd
<1>7. /\ Live(path, Depth(u)') <=> Live(path, Depth(u))'
      /\ IsDir(ServerSees(path)) <=> IsDir(ServerSees(path))'
      /\ DeadEnd(path) <=> DeadEnd(path)'
  BY DEF NoLoss, Live, IsDir, DeadEnd, Unbroken
<1>8. OldQuery(u)' = path
  BY <1>2
<1>9. \E names \in DOMAIN fs' : Depth(u)' <= Len(names)
  BY <1>1, <1>3 DEF NoLoss
<1>10. \/ Live(OldQuery(u), Depth(u))'
       \/ ~IsDir(ServerSees(OldQuery(u)))' /\ DeadEnd(OldQuery(u))'
  BY <1>6, <1>7, <1>8 DEF NoLoss, Live, IsDir, DeadEnd, Unbroken
<1> QED
  BY <1>9, <1>10 DEF DepthSound

\* The end of a call that reads no listing.
LEMMA DepthReturned ==
    ASSUME Types, NEW u \in Users, NoLoss, DepthSound(u),
           client[u].state = "waiting",
           client' = [client EXCEPT ![u] = Return(u)],
           up = "up" => Served(OldQuery(u)).code # "directory"
    PROVE  DepthSound(u)'
<1>1. /\ client'[u].newquery = client[u].newquery
      /\ client'[u].stack = client[u].stack
      /\ client'[u].state \in {"done", "walking"}
  BY ReturnIs DEF Types, ClientType
<1>2. Depth(u)' = Depth(u) /\ Depth(u) \in Nat
  <2>1. client[u].stack \in Seq(Paths)
    BY DEF Types, ClientType
  <2>2. Len(client[u].stack) \in Nat
    BY <2>1
  <2> QED
    BY <1>1, <2>2 DEF Depth
<1>3. Depth(u)' <= Depth(u)
  BY <1>2
<1>4. up' # "up" \/ Depth(u)' <= 1 \/ DeadEnd(client[u].newquery)'
  <2> SUFFICES ASSUME up' = "up", ~(Depth(u) <= 1)
               PROVE  DeadEnd(client[u].newquery)'
    BY <1>2
  <2>1. Depth(u) # 0
    BY <1>2
  <2>2. client[u].stack # <<>>
    <3>1. Len(<<>>) = 0
      OBVIOUS
    <3> QED
      BY <2>1, <3>1 DEF Depth
  <2>3. OldQuery(u) = client[u].newquery /\ OldQuery(u) \in Paths
    BY <2>2 DEF OldQuery, Types, ClientType
  <2>4. ~Live(OldQuery(u), Depth(u))
    <3> SUFFICES ASSUME IsDir(ServerSees(OldQuery(u))), Depth(u) <= Len(ServerSees(OldQuery(u)))
                 PROVE  FALSE
      BY DEF Live
    <3>1. OldQuery(u) # <<>>
      <4> SUFFICES ASSUME OldQuery(u) = <<>> PROVE FALSE
        OBVIOUS
      <4>1. ServerSees(<<>>) = <<>>
        <5>1. Len(<<>>) = 0 /\ <<>> \in Paths
          BY DEF Paths
        <5> QED
          BY <5>1, ServerSeesIs, SeesIs
      <4>2. <<>> \in DOMAIN fs
        BY <4>1 DEF IsDir
      <4> QED
        BY <4>2, DirectoryIs DEF Types
    <3>2. Served(OldQuery(u)).code = "directory"
      BY <2>3, <3>1, ServedIs DEF IsDir
    <3> QED
      BY <3>2 DEF NoLoss
  <2>5. DeadEnd(client[u].newquery)
    BY <2>1, <2>3, <2>4 DEF DepthSound
  <2> QED
    BY <1>1, <2>5 DEF DeadEnd, NoLoss, IsDir
<1> QED
  BY <1>1, <1>2, <1>3, <1>4, DepthLess DEF Types

\* A listing is read, the user's own or one within.
LEMMA DepthBegun ==
    ASSUME Types, NEW u \in Users, NoLoss, DepthSound(u), WellOrdered,
           client[u].state = "waiting",
           Served(OldQuery(u)).code = "directory", OldQuery(u) \in Paths,
           client'[u].newquery = client[u].newquery,
           client'[u].stack = <<Entries(OldQuery(u))>> \o client[u].stack,
           client'[u].state = "walking"
    PROVE  DepthSound(u)'
<1> DEFINE q == OldQuery(u)
           names == ServerSees(q)
<1>1. IsDir(names)
  BY ServedIs DEF IsDir
<1>2. Live(q, Depth(u)) /\ Depth(u) <= Len(names) /\ Unbroken(q)
  BY <1>1 DEF DepthSound, Live
<1>3. /\ Entries(q) \in Paths
      /\ names \in DOMAIN fs
      /\ fs[names].list \in Seq(Words)
      /\ \A i \in 1 .. Len(fs[names].list) :
            /\ fs[names].list[i] \in Words
            /\ Append(names, fs[names].list[i]) \in DOMAIN fs
  BY <1>1, EntriesAre DEF Types
<1>4. /\ Depth(u)' = Depth(u) + 1 /\ Depth(u) \in Nat
      /\ Head(client'[u].stack) = Entries(q)
  BY <1>3, BegunFrameIs DEF Depth
<1>5. \E longer \in DOMAIN fs : Depth(u) + 1 <= Len(longer)
  <2> DEFINE list == fs[names].list
  <2>1. list # <<>>
    BY <1>1 DEF WellOrdered, IsDir
  <2>2. names \in Seq(Words)
    BY SeesType
  <2> HIDE DEF list, names
  <2>3. 1 \in 1 .. Len(list)
    <3>1. Len(list) \in Nat /\ Len(list) # 0
      BY <1>3, <2>1, PoppedIs DEF list
    <3> QED
      BY <3>1
  <2>4. Append(names, list[1]) \in DOMAIN fs /\ list[1] \in Words
    BY <1>3, <2>3 DEF list
  <2>5. Len(Append(names, list[1])) = Len(names) + 1 /\ Len(names) \in Nat
    BY <2>2, <2>4, FrontOfAppend
  <2>6. Depth(u) + 1 <= Len(Append(names, list[1]))
    BY <1>2, <1>4, <2>5
  <2> QED
    BY <2>4, <2>6
<1>6. ASSUME Depth(u)' > 1
      PROVE  /\ Live(client[u].newquery, Depth(u) - 1)'
             /\ (Head(client[u].stack) = Entries(client[u].newquery))'
  <2>1. Depth(u) # 0 /\ Depth(u)' - 1 = Depth(u)
    BY <1>4, <1>6
  <2>2. client[u].stack # <<>>
    <3>1. Len(<<>>) = 0
      OBVIOUS
    <3> QED
      BY <2>1, <3>1 DEF Depth
  <2>3. q = client[u].newquery
    BY <2>2 DEF OldQuery
  <2>4. Live(q, Depth(u)' - 1)
    BY <1>2, <2>1
  <2> QED
    BY <1>4, <2>3, <2>4 DEF Live, IsDir, Unbroken, NoLoss, Entries
<1>7. \E longer \in DOMAIN fs' : Depth(u)' <= Len(longer)
  BY <1>4, <1>5 DEF NoLoss
<1> QED
  BY <1>6, <1>7 DEF DepthSound

\* The end of a listing.  The one read last in a live directory has an entry
\* left.
LEMMA DepthEnded ==
    ASSUME Types, NEW u \in Users, NoLoss, DepthSound(u), EndFrame(u)
    PROVE  DepthSound(u)'
<1>1. /\ client[u].state = "walking" /\ Head(client[u].stack) = <<>>
      /\ client'[u].stack = Tail(client[u].stack)
      /\ client'[u].newquery = client[u].newquery
      /\ client'[u].state = IF Depth(u) = 1 THEN "done" ELSE "walking"
  BY DEF EndFrame, Types, ClientType, Depth
<1>2. Depth(u) \in Nat /\ Depth(u) # 0 /\ Depth(u)' = Depth(u) - 1
  <2>1. /\ Depth(u) \in Nat /\ Depth(u) # 0
        /\ Len(Tail(client[u].stack)) = Depth(u) - 1
    BY <1>1, EndedFrameIs
  <2> QED
    BY <1>1, <2>1 DEF Depth
<1>3. Depth(u)' \in Nat /\ Depth(u)' <= Depth(u)
  BY <1>2
<1>4. up' # "up" \/ Depth(u)' <= 1 \/ DeadEnd(client[u].newquery)'
  <2> SUFFICES ASSUME up' = "up", ~(Depth(u)' <= 1)
               PROVE  DeadEnd(client[u].newquery)'
    OBVIOUS
  <2>1. Depth(u) > 1
    BY <1>2
  <2>2. client[u].newquery \in Paths
    BY DEF Types, ClientType
  <2>3. ~(Live(client[u].newquery, Depth(u) - 1) /\ <<>> = Entries(client[u].newquery))
    BY <2>2, EntriesAre DEF Live, Types
  <2>4. DeadEnd(client[u].newquery)
    BY <1>1, <2>1, <2>3 DEF DepthSound, NoLoss
  <2> QED
    BY <1>1, <2>4 DEF DeadEnd, NoLoss, IsDir
<1>5. client'[u].state # "waiting"
  BY <1>1
<1> QED
  BY <1>2, <1>3, <1>4, <1>5, DepthLess DEF Types

\* A client that crashes.
LEMMA DepthCrashed ==
    ASSUME Types, NEW u \in Users, NoLoss, DepthSound(u), Crashed(u)
    PROVE  DepthSound(u)'
<1>1. client'[u].stack = client[u].stack /\ client'[u].state = "crashed"
  BY DEF Crashed, Types, ClientType
<1>2. Depth(u)' = Depth(u) /\ Depth(u) \in Nat /\ Depth(u) <= Depth(u)
  <2>1. client[u].stack \in Seq(Paths)
    BY DEF Types, ClientType
  <2>2. Len(client[u].stack) \in Nat
    BY <2>1
  <2> QED
    BY <1>1, <2>2 DEF Depth
<1> QED
  BY <1>1, <1>2, DepthLess DEF Types

\* What a client does when it has read its response to the end.
LEMMA DepthReceived ==
    ASSUME Types, OneClient, AnswersSound, NEW u \in Users, NoLoss,
           DepthSound(u), WellOrdered,
           \/ ReceiveError(u) \/ ReceiveDirectory(u) \/ ReceiveFile(u)
           \/ ReceiveNoRoom(u) \/ ReceiveNothing(u)
    PROVE  DepthSound(u)'
<1>1. Waiting(u) /\ client[u].state = "waiting"
  BY DEF ReceiveError, ReceiveDirectory, ReceiveFile, ReceiveNoRoom,
         ReceiveNothing, Waiting
<1>2. /\ OldQuery(u) \in Paths
      /\ \A a \in Responses(u) : a = Served(OldQuery(u))
      /\ up = "up" => Responses(u) # {}
  BY <1>1, ResponseIs
<1>3. CASE ReceiveError(u)
  <2>1. Served(OldQuery(u)).code \notin {"ok", "directory"}
    BY <1>2, <1>3 DEF ReceiveError
  <2> QED
    BY <1>1, <1>3, <2>1, DepthReturned DEF ReceiveError
<1>4. CASE ReceiveDirectory(u)
  <2>1. PICK a \in Responses(u) :
           /\ a.code = "directory"
           /\ client' = [client EXCEPT ![u].state = "walking",
                            ![u].stack = <<Tokens(fs[a.of].list)>> \o @]
    BY <1>4 DEF ReceiveDirectory
  <2>2. a = Served(OldQuery(u)) /\ a.of = ServerSees(OldQuery(u))
    BY <1>2, <2>1, ServedIs
  <2>3. /\ client'[u].newquery = client[u].newquery
        /\ client'[u].state = "walking"
        /\ client'[u].stack = <<Tokens(fs[a.of].list)>> \o client[u].stack
    BY <2>1 DEF Types, ClientType
  <2>4. Tokens(fs[a.of].list) = Entries(OldQuery(u))
    BY <2>2 DEF Entries
  <2> QED
    BY <1>1, <1>2, <2>1, <2>2, <2>3, <2>4, DepthBegun
<1>5. CASE ReceiveFile(u)
  <2>1. Served(OldQuery(u)).code # "directory"
    <3>1. Served(OldQuery(u)).code = "ok"
      BY <1>2, <1>5 DEF ReceiveFile
    <3> QED
      BY <3>1
  <2> QED
    BY <1>1, <1>5, <2>1, DepthReturned DEF ReceiveFile
<1>6. CASE ReceiveNoRoom(u)
  BY <1>6, DepthCrashed DEF ReceiveNoRoom
<1>7. CASE ReceiveNothing(u)
  <2>1. up # "up"
    BY <1>2, <1>7 DEF ReceiveNothing
  <2>2. CASE client' = [client EXCEPT ![u] = Return(u)]
    BY <1>1, <2>1, <2>2, DepthReturned
  <2>3. CASE Crashed(u)
    BY <2>3, DepthCrashed
  <2> QED
    BY <1>7, <2>2, <2>3 DEF ReceiveNothing
<1> QED
  BY <1>3, <1>4, <1>5, <1>6, <1>7

\* What a client does in a listing.
LEMMA DepthWalked ==
    ASSUME Types, NEW u \in Users, NoLoss, TopSound(u), DepthSound(u),
           WellOrdered,
           AskEntry(u) \/ SkipEntry(u) \/ Overflow(u) \/ EndFrame(u)
    PROVE  DepthSound(u)'
<1>1. AtEntry(u) => /\ client[u] \in ClientSet /\ NextFrame(u) \in ClientSet
                    /\ NextFrame(u).state = "walking"
                    /\ NextFrame(u).newquery = NewQuery(u)
  BY FrameTypes DEF AtEntry
<1>2. CASE AskEntry(u)
  <2>1. client'[u] = Asking(NextFrame(u), Len(asked) + 1)
    BY <1>2 DEF AskEntry, Asking, Types, ClientType
  <2>2. Len(asked) + 1 \in Nat
    BY DEF Types, NetType
  <2>3. AtEntry(u) /\ up = "up"
    BY <1>2 DEF AskEntry
  <2>4. /\ client'[u].state = "waiting"
        /\ client'[u].newquery = NewQuery(u)
        /\ client'[u].stack = NextFrame(u).stack
    BY <1>1, <2>1, <2>2, <2>3, AskingIs
  <2> QED
    BY <2>3, <2>4, DepthAsked
<1>3. CASE SkipEntry(u)
  <2>1. AtEntry(u) /\ client'[u] = NextFrame(u) /\ up' # "up"
    BY <1>3 DEF SkipEntry, Types, ClientType, netVars
  <2>2. Depth(u)' = Depth(u) /\ Depth(u) \in Nat /\ Depth(u) <= Depth(u)
    <3>1. Len(NextFrame(u).stack) = Depth(u) /\ Depth(u) \in Nat
      BY <2>1, NextFrameIs
    <3> QED
      BY <2>1, <3>1 DEF Depth
  <2>3. client'[u].state # "waiting"
    BY <1>1, <2>1
  <2> QED
    BY <2>1, <2>2, <2>3, DepthLess DEF Types
<1>4. CASE Overflow(u)
  BY <1>4, DepthCrashed DEF Overflow
<1>5. CASE EndFrame(u)
  BY <1>5, DepthEnded
<1> QED
  BY <1>2, <1>3, <1>4, <1>5

\* Every step keeps what is known of the directories within.
LEMMA DepthStep ==
    Types /\ DisciplinedInv /\ TopInv /\ DepthInv /\ [Next]_vars => DepthInv'
<1> SUFFICES ASSUME Types, DisciplinedInv, TopInv, DepthInv, [Next]_vars,
                    Disciplined', WellOrdered'
             PROVE  \A u \in Users : DepthSound(u)'
  BY DEF DepthInv
<1>1. NoLoss
  BY NothingLost
<1>2. WellOrdered
  BY <1>1 DEF WellOrdered, NoLoss
<1>3. /\ Disciplined /\ OneClient /\ AnswersSound
      /\ \A u \in Users : TopSound(u) /\ DepthSound(u)
  BY <1>2, SameDiscipline DEF DisciplinedInv, TopInv, DepthInv
<1> TAKE u \in Users
<1>4. CASE client'[u] = client[u]
  BY <1>1, <1>3, <1>4, DepthKept
<1>5. ASSUME NEW path \in Queries, Start(u, path)
      PROVE  DepthSound(u)'
  BY <1>1, <1>3, <1>5, DepthStarted
<1>6. CASE ClientStep(u)
  BY <1>1, <1>2, <1>3, <1>6, DepthReceived, DepthWalked DEF ClientStep
<1> QED
  BY <1>4, <1>5, <1>6, ClientChanges

\* At first no client walks.
LEMMA WalkInit == Init => TopInv /\ DepthInv
<1> SUFFICES ASSUME Init, NEW u \in Users PROVE TopSound(u) /\ DepthSound(u)
  BY DEF TopInv, DepthInv
<1>1. /\ client[u].state = "off" /\ client[u].query = <<>>
      /\ client[u].stack = <<>>
  BY DEF Init, ClientInit
<1>2. Depth(u) = 0
  BY <1>1 DEF Depth
<1>3. Unbroken(client[u].query)
  BY <1>1 DEF Unbroken
<1>4. TopSound(u)
  BY <1>1, <1>2, <1>3 DEF TopSound
<1>5. DepthSound(u)
  BY <1>1, <1>2 DEF DepthSound
<1> QED
  BY <1>4, <1>5

\* All parts of the invariant of Http together.
LEMMA WalkAlways ==
    Spec /\ [](FreeFds # {}) => [](Types /\ DisciplinedInv /\ TopInv /\ DepthInv)
BY DisciplinedAlways, WalkInit, TopStep, DepthStep, PTL DEF Spec

-----------------------------------------------------------------------------
(* What the client promises its user                                        *)

\* As long as descriptors last and the server is up, a client that comes to
\* its end has saved every file that lies directly in the directory its user
\* named (client.h:142-150), with the content the server has for it.
THEOREM TopLevelIsSaved == Spec /\ [](FreeFds # {}) => []TopLevelSaved
<1>1. Types /\ DisciplinedInv /\ TopInv => TopLevelSaved
  <2> SUFFICES ASSUME Types, DisciplinedInv, TopInv, Disciplined, up = "up",
                      NEW u \in Users, client[u].state = "done",
                      ServerSees(client[u].query) \in DOMAIN fs,
                      NEW i \in DOMAIN fs[ServerSees(client[u].query)].list,
                      fs[Append(ServerSees(client[u].query),
                                fs[ServerSees(client[u].query)].list[i])].kind = "file"
               PROVE  SavedBelow(client[u].query, fs[ServerSees(client[u].query)].list[i])
    BY DEF TopLevelSaved
  <2> DEFINE q == client[u].query
             names == ServerSees(q)
             list == fs[names].list
  <2>1. /\ Unbroken(q) /\ q \in Paths /\ SavedIsServed
        /\ \A j \in 1 .. Len(list) : EntrySaved(u, j)
    BY DEF TopInv, TopSound, DisciplinedInv, Types, ClientType
  <2>2. names \in DOMAIN fs /\ list \in Seq(Words) /\ i \in 1 .. Len(list)
    <3>1. list \in Seq(Words)
      BY DirectoryIs DEF Types
    <3> QED
      BY <3>1
  <2>3. IsDir(names)
    <3> SUFFICES ASSUME fs[names].kind # "dir" PROVE FALSE
      BY <2>2 DEF IsDir
    <3>1. list = <<>>
      BY <2>2, DirectoryIs DEF Types
    <3> QED
      BY <2>2, <3>1
  <2>4. /\ Entries(q)[i] = [name |-> list[i], nl |-> i = Len(list)]
        /\ ServerSees(Append(q, Entries(q)[i])) = Append(names, list[i])
    BY <2>1, <2>2, <2>3, EntriesAre, EntryAsked DEF Types
  <2>5. PICK s \in saved : s.at = Append(q, Entries(q)[i])
    BY <2>1, <2>2 DEF EntrySaved, IsSaved
  <2>6. s.content = Append(names, list[i])
    BY <2>1, <2>4, <2>5 DEF SavedIsServed
  <2> DEFINE nl == i = Len(list)
  <2>7. nl \in BOOLEAN /\ Entries(q)[i] = [name |-> list[i], nl |-> nl]
    BY <2>4
  <2> HIDE DEF q, names, list, nl
  <2>8. s.at = Append(q, [name |-> list[i], nl |-> nl])
    BY <2>5, <2>7
  <2> QED
    BY <2>6, <2>7, <2>8 DEF SavedBelow, q, names, list
<1> QED
  BY <1>1, WalkAlways, PTL

\* As long as descriptors last, in a tree whose directories end with a file a
\* client goes no deeper than the tree does (client.h:103, 148).
THEOREM DepthIsBounded == Spec /\ [](FreeFds # {}) => []Bounded
<1>1. Types /\ DepthInv => Bounded
  <2> SUFFICES ASSUME Types, DepthInv, Disciplined, WellOrdered, NEW u \in Users
               PROVE  Depth(u) <= Max({0} \cup {Len(names) : names \in DOMAIN fs})
    BY DEF Bounded, Depth
  <2>1. CASE Depth(u) = 0
    BY <2>1, DepthOfTree DEF Types
  <2>2. CASE Depth(u) # 0
    <3>1. PICK names \in DOMAIN fs : Depth(u) <= Len(names)
      BY <2>2 DEF DepthInv, DepthSound
    <3>2. /\ Len(names) \in Nat
          /\ Max({0} \cup {Len(n) : n \in DOMAIN fs}) \in Nat
          /\ Len(names) <= Max({0} \cup {Len(n) : n \in DOMAIN fs})
      BY DepthOfTree DEF Types
    <3>3. Depth(u) \in Nat
      <4>1. client[u].stack \in Seq(Paths)
        BY DEF Types, ClientType
      <4> QED
        BY <4>1 DEF Depth
    <3> QED
      BY <3>1, <3>2, <3>3
  <2> QED
    BY <2>1, <2>2
<1> QED
  BY <1>1, WalkAlways, PTL

=============================================================================
