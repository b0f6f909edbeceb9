----------------------------- MODULE DbPromises -----------------------------
(***************************************************************************)
(* What the library promises, for any number of processes, keys, chains and *)
(* records: the lists of the index file are sound, the files hold the map   *)
(* that the completed calls have built, no index record is lost, and the    *)
(* calls behave as calls of the map.                                        *)
(***************************************************************************)
EXTENDS DbMapProofs, DbCallProofs, FiniteSetTheorems, WellFoundedInduction

\* Most leaves are first-order: Zenon first, the others go to the SMT solver.
USE ZenonT(3), SMT

-----------------------------------------------------------------------------
(* Walks along a list.                                                      *)

LEMMA UpTo ==
  ASSUME NEW m \in Nat, NEW S, 0 \in S, \A n \in 0 .. m - 1 : n \in S => n + 1 \in S
  PROVE  0 .. m \subseteq S
<1> DEFINE T == (0 .. m) \ S
<1> SUFFICES ASSUME T # {} PROVE FALSE
  OBVIOUS
<1>1. T \subseteq Nat
  OBVIOUS
<1> HIDE DEF T
<1>2. PICK x \in T : \A z \in T : ~(<<z, x>> \in OpToRel(<, Nat))
  BY <1>1, NatLessThanWellFounded, WFMin
<1> USE DEF T
<1>3. x \in 0 .. m /\ x \notin S /\ x # 0
  BY <1>2
<1>4. x - 1 \in 0 .. m - 1 /\ x - 1 \in 0 .. m /\ x - 1 \in Nat /\ x \in Nat /\ x - 1 < x /\ x = (x - 1) + 1
  BY <1>3
<1>5. x - 1 \notin S
  BY <1>3, <1>4
<1>6. <<x - 1, x>> \in OpToRel(<, Nat)
  BY <1>4 DEF OpToRel
<1> QED BY <1>2, <1>4, <1>5, <1>6

\* Where one more hop leads.
Hop(v) == IF v = 0 THEN 0 ELSE ptr[v]

LEMMA PathStep ==
  ASSUME FileType, NEW a \in Offsets
  PROVE  /\ Path(a) \in [0 .. IdxCap -> Offsets]
         /\ Path(a)[0] = ptr[a]
         /\ \A i \in 0 .. IdxCap - 1 : Path(a)[i + 1] = Hop(Path(a)[i])
<1> DEFINE N == IdxCap
           Good(n, f) == /\ f \in [0 .. n -> Offsets] /\ f[0] = ptr[a]
                         /\ \A i \in 0 .. n - 1 : f[i + 1] = Hop(f[i])
           S == {n \in 0 .. N : \E f : Good(n, f)}
<1>1. N \in Nat /\ ptr \in [Offsets -> Offsets] /\ 0 \in Offsets /\ \A v \in Offsets : Hop(v) \in Offsets
  BY Sizes, Places DEF FileType, Hop
<1>2. 0 \in S
  <2> DEFINE f == [i \in 0 .. 0 |-> ptr[a]]
  <2>1. Good(0, f) /\ 0 \in 0 .. N
    BY <1>1
  <2> HIDE DEF f, Good
  <2> QED BY <2>1
<1>3. ASSUME NEW n \in 0 .. N - 1, n \in S PROVE n + 1 \in S
  <2>1. PICK f : Good(n, f)
    BY <1>3
  <2> DEFINE g == [i \in 0 .. n + 1 |-> IF i = n + 1 THEN Hop(f[n]) ELSE f[i]]
  <2>2. /\ n \in Nat /\ n \in 0 .. n /\ n + 1 \in 0 .. N /\ n + 1 \in 0 .. n + 1 /\ 0 \in 0 .. n
        /\ \A i \in 0 .. n : i \in 0 .. n + 1 /\ i # n + 1
        /\ \A i \in 0 .. n + 1 : i # n + 1 => i \in 0 .. n
        /\ \A i \in 0 .. (n + 1) - 1 : i \in 0 .. n /\ (i # n => i \in 0 .. n - 1 /\ i + 1 \in 0 .. n)
    BY <1>1, <1>3
  <2>3. g \in [0 .. n + 1 -> Offsets]
    BY <1>1, <2>1, <2>2
  <2>4. g[n + 1] = Hop(f[n]) /\ \A i \in 0 .. n : g[i] = f[i]
    BY <2>2
  <2> HIDE DEF g
  <2>5. ASSUME NEW i \in 0 .. (n + 1) - 1 PROVE g[i + 1] = Hop(g[i])
    <3>1. CASE i = n
      BY <2>2, <2>4, <3>1
    <3>2. CASE i # n
      BY <2>1, <2>2, <2>4, <3>2
    <3> QED BY <3>1, <3>2
  <2>6. Good(n + 1, g)
    BY <2>1, <2>2, <2>3, <2>4, <2>5
  <2> QED BY <2>2, <2>6
<1> HIDE DEF S
<1>4. N \in S
  BY <1>1, <1>2, <1>3, UpTo
<1> USE DEF S
<1>5. PICK f : Good(N, f)
  BY <1>4
<1> DEFINE Rec(g) == [i \in 0 .. N |-> IF i = 0 THEN ptr[a] ELSE IF g[i - 1] = 0 THEN 0 ELSE ptr[g[i - 1]]]
<1>6. f = Rec(f)
  <2>1. \A i \in 0 .. N : i # 0 => i - 1 \in 0 .. N - 1 /\ (i - 1) + 1 = i
    BY <1>1
  <2>2. \A i \in 0 .. N : f[i] = IF i = 0 THEN ptr[a] ELSE IF f[i - 1] = 0 THEN 0 ELSE ptr[f[i - 1]]
    BY <1>5, <2>1 DEF Hop
  <2> QED BY <1>5, <2>2
<1>7. Path(a) = Rec(Path(a))
  BY <1>6 DEF Path
<1> DEFINE g == Path(a)
<1>8. g = Rec(g)
  BY <1>7
<1> HIDE DEF g
<1>9. g[0] = ptr[a] /\ \A i \in 0 .. N - 1 : g[i + 1] = Hop(g[i])
  <2>1. \A i \in 0 .. N - 1 : i + 1 \in 0 .. N /\ i + 1 # 0 /\ (i + 1) - 1 = i
    BY <1>1
  <2> QED BY <1>1, <1>8, <2>1 DEF Hop
<1>10. g \in [0 .. N -> Offsets]
  <2> DEFINE I == {i \in 0 .. N : g[i] \in Offsets}
  <2>1. 0 \in I
    BY <1>1, <1>9
  <2>2. \A n \in 0 .. N - 1 : n \in I => n + 1 \in I
    BY <1>1, <1>9
  <2> HIDE DEF I
  <2>3. 0 .. N \subseteq I
    BY <1>1, <2>1, <2>2, UpTo
  <2>4. \A i \in 0 .. N : g[i] \in Offsets
    BY <2>3 DEF I
  <2> QED BY <1>8, <2>4
<1> QED BY <1>9, <1>10 DEF g

\* A walk cannot go down for ever: there are only IdxCap places to be at.
LEMMA Endless ==
  ASSUME NEW rank \in [Offsets -> Nat], NEW f \in [0 .. IdxCap -> Offsets],
         \A i \in 0 .. IdxCap : f[i] # 0,
         \A i \in 0 .. IdxCap - 1 : rank[f[i + 1]] < rank[f[i]]
  PROVE  FALSE
<1> DEFINE N == IdxCap
           S == {n \in 0 .. N : \A i \in 0 .. N : i < n => rank[f[n]] < rank[f[i]]}
<1>1. N \in Nat
  BY Sizes
<1>2. 0 \in S
  BY <1>1
<1>3. ASSUME NEW n \in 0 .. N - 1, n \in S PROVE n + 1 \in S
  <2>1. n + 1 \in 0 .. N /\ n \in 0 .. N /\ rank[f[n + 1]] < rank[f[n]]
    BY <1>1
  <2>2. ASSUME NEW i \in 0 .. N, i < n + 1 PROVE rank[f[n + 1]] < rank[f[i]]
    <3>1. i = n \/ i < n
      BY <1>1, <2>2
    <3>2. f[n + 1] \in Offsets /\ f[n] \in Offsets /\ f[i] \in Offsets
      BY <2>1
    <3>3. rank[f[n + 1]] \in Nat /\ rank[f[n]] \in Nat /\ rank[f[i]] \in Nat
      BY <3>2
    <3> QED BY <1>3, <2>1, <3>1, <3>3
  <2> QED BY <2>1, <2>2
<1> HIDE DEF S
<1>4. 0 .. N \subseteq S
  BY <1>1, <1>2, <1>3, UpTo
<1> USE DEF S
<1>5. ASSUME NEW i \in 0 .. N, NEW j \in 0 .. N, i # j PROVE f[i] # f[j]
  <2>1. \A x, y \in 0 .. N : x < y => f[x] # f[y]
    <3> SUFFICES ASSUME NEW x \in 0 .. N, NEW y \in 0 .. N, x < y PROVE f[x] # f[y]
      OBVIOUS
    <3>1. rank[f[y]] < rank[f[x]]
      BY <1>4
    <3>2. f[x] \in Offsets /\ rank[f[x]] \in Nat
      OBVIOUS
    <3> QED BY <3>1, <3>2
  <2>2. i < j \/ j < i
    BY <1>1, <1>5
  <2> QED BY <2>1, <2>2
<1>6. f \in [0 .. N -> 1 .. N]
  <2>1. \A v \in Offsets : v # 0 => v \in 1 .. N
    BY <1>1 DEF Offsets
  <2>2. \A i \in 0 .. N : f[i] \in Offsets /\ f[i] # 0
    OBVIOUS
  <2> QED BY <2>1, <2>2
<1>7. /\ IsFiniteSet(0 .. N) /\ IsFiniteSet(1 .. N)
      /\ Cardinality(0 .. N) = N + 1 /\ Cardinality(1 .. N) = N
  BY <1>1, FS_Interval
<1>8. Cardinality(1 .. N) < Cardinality(0 .. N)
  BY <1>1, <1>7
<1>9. \E x, y \in 0 .. N : x # y /\ f[x] = f[y]
  <2> HIDE DEF N
  <2> QED BY <1>6, <1>7, <1>8, FS_PigeonHole
<1> QED BY <1>5, <1>9

\* A walk that has reached the end stays there.
LEMMA EndStays ==
  ASSUME FileType, NEW x \in Offsets, NEW k \in 0 .. IdxCap, Path(x)[k] = 0
  PROVE  Path(x)[IdxCap] = 0
<1> DEFINE N == IdxCap
           S == {n \in 0 .. N : n < k \/ Path(x)[n] = 0}
<1>1. N \in Nat
  BY Sizes
<1>2. 0 \in S
  BY <1>1
<1>3. ASSUME NEW n \in 0 .. N - 1, n \in S PROVE n + 1 \in S
  <2>1. n + 1 \in 0 .. N /\ (n < k => n + 1 < k \/ n + 1 = k)
    BY <1>1
  <2>2. Path(x)[n] = 0 => Path(x)[n + 1] = 0
    BY PathStep DEF Hop
  <2> QED BY <1>3, <2>1, <2>2
<1> HIDE DEF S
<1>4. 0 .. N \subseteq S
  BY <1>1, <1>2, <1>3, UpTo
<1>5. N \in S
  BY <1>1, <1>4
<1>6. ~(N < k)
  BY <1>1
<1> QED BY <1>5, <1>6 DEF S

\* A walk from the head of a list that is on the file as it is meant stays on it and ends.
LEMMA WalkStays ==
  ASSUME FileType, NEW own, NEW nx, NEW rank, Shape(own, nx, rank), NEW a \in 0 .. NHash,
         \A o \in Offsets : own[o] = a => ptr[o] = nx[o]
  PROVE  Ends(a) /\ \A o \in OnList(a) : o \in Records /\ own[o] = a
<1> DEFINE N == IdxCap
           f == Path(a)
           S == {n \in 0 .. N : f[n] # 0 => f[n] \in Records /\ own[f[n]] = a}
<1>1. N \in Nat /\ a \in Offsets /\ own[a] = a /\ rank \in [Offsets -> Nat]
  BY Sizes, Places DEF Shape
<1>2. f \in [0 .. N -> Offsets] /\ f[0] = ptr[a] /\ \A i \in 0 .. N - 1 : f[i + 1] = Hop(f[i])
  BY <1>1, PathStep
<1> HIDE DEF f
<1>3. ASSUME NEW z \in Offsets, own[z] = a, ptr[z] # 0
      PROVE  ptr[z] \in Records /\ own[ptr[z]] = a /\ rank[ptr[z]] < rank[z]
  BY <1>3, Following
<1>4. 0 \in S
  BY <1>1, <1>2, <1>3
<1>5. ASSUME NEW n \in 0 .. N - 1, n \in S PROVE n + 1 \in S
  <2>1. n + 1 \in 0 .. N /\ n \in 0 .. N /\ f[n] \in Offsets /\ f[n + 1] = Hop(f[n])
    BY <1>1, <1>2
  <2>2. f[n + 1] # 0 => f[n] # 0 /\ f[n + 1] = ptr[f[n]]
    BY <2>1 DEF Hop
  <2> QED BY <1>3, <1>5, <2>1, <2>2
<1> HIDE DEF S
<1>6. 0 .. N \subseteq S
  BY <1>1, <1>4, <1>5, UpTo
<1>7. \A n \in 0 .. N : f[n] # 0 => f[n] \in Records /\ own[f[n]] = a
  BY <1>6 DEF S
<1>8. f[N] = 0
  <2> SUFFICES ASSUME f[N] # 0 PROVE FALSE
    OBVIOUS
  <2>1. \A i \in 0 .. N : f[i] # 0
    BY <1>1, EndStays DEF f
  <2>2. ASSUME NEW i \in 0 .. N - 1 PROVE rank[f[i + 1]] < rank[f[i]]
    <3>1. i \in 0 .. N /\ i + 1 \in 0 .. N /\ f[i] \in Offsets /\ f[i + 1] = Hop(f[i])
      BY <1>1, <1>2
    <3>2. f[i] # 0 /\ f[i + 1] # 0 /\ own[f[i]] = a
      BY <1>7, <2>1, <3>1
    <3>3. f[i + 1] = ptr[f[i]]
      BY <3>1, <3>2 DEF Hop
    <3> QED BY <1>3, <3>1, <3>2, <3>3
  <2> QED BY <1>1, <1>2, <2>1, <2>2, Endless
<1>9. Ends(a)
  BY <1>8 DEF Ends, f
<1>10. \A o \in OnList(a) : o \in Records /\ own[o] = a
  BY <1>7 DEF OnList, f
<1> QED BY <1>9, <1>10

\* A walk that starts before a place of its list reaches it, when the file has the
\* list as it is meant that far.
LEMMA WalkReaches ==
  ASSUME FileType, NEW own, NEW nx, NEW rank, Shape(own, nx, rank), NEW a \in 0 .. NHash,
         NEW x \in Offsets, own[x] = a, NEW o \in Records, own[o] = a, rank[o] < rank[x],
         \A z \in Offsets : own[z] = a /\ rank[o] < rank[z] /\ rank[z] <= rank[x] => ptr[z] = nx[z]
  PROVE  \E i \in 0 .. IdxCap - 1 : Path(x)[i] = o
<1> DEFINE N == IdxCap
           f == Path(x)
           At(v) == v \in Records /\ own[v] = a /\ rank[o] < rank[v] /\ rank[v] <= rank[x]
           S == {n \in 0 .. N - 1 : At(f[n])}
<1>1. /\ N \in Nat /\ N - 1 \in Nat /\ o \in Offsets /\ o # 0 /\ rank \in [Offsets -> Nat]
      /\ a # NoList
  BY DbConstants, Places DEF Shape
<1>2. f \in [0 .. N -> Offsets] /\ f[0] = ptr[x] /\ \A i \in 0 .. N - 1 : f[i + 1] = Hop(f[i])
  BY PathStep
<1> HIDE DEF f
<1> SUFFICES ASSUME \A i \in 0 .. N - 1 : f[i] # o PROVE FALSE
  BY DEF f
<1>3. ASSUME NEW z \in Offsets, own[z] = a, rank[o] < rank[z], rank[z] <= rank[x]
      PROVE  /\ ptr[z] # 0 /\ rank[ptr[z]] < rank[z]
             /\ ptr[z] # o => At(ptr[z])
  <2>1. ptr[z] = nx[z]
    BY <1>3
  <2>2. nx[z] # 0
    BY <1>1, <1>3 DEF Shape
  <2>3. /\ nx[z] \in Records /\ own[nx[z]] = a /\ rank[nx[z]] < rank[z] /\ nx[z] \in Offsets
        /\ nx[z] # o => rank[o] < rank[nx[z]]
    BY <1>1, <1>3, <2>2, Following
  <2>4. rank[nx[z]] \in Nat /\ rank[z] \in Nat /\ rank[x] \in Nat
    BY <1>1, <2>3
  <2>5. rank[nx[z]] <= rank[x]
    BY <1>3, <2>3, <2>4
  <2> QED BY <2>1, <2>2, <2>3, <2>5
<1>4. rank[x] <= rank[x]
  BY <1>1
<1>5. 0 \in S
  <2>1. 0 \in 0 .. N - 1
    BY <1>1
  <2> QED BY <1>2, <1>3, <1>4, <2>1
<1>6. ASSUME NEW n \in 0 .. N - 1, At(f[n])
      PROVE  /\ f[n + 1] # 0 /\ rank[f[n + 1]] < rank[f[n]]
             /\ f[n + 1] # o => At(f[n + 1])
  <2>1. n \in 0 .. N /\ f[n + 1] = Hop(f[n])
    BY <1>1, <1>2
  <2>2. f[n] # 0 /\ f[n] \in Offsets
    BY <1>6, Places
  <2>3. f[n + 1] = ptr[f[n]]
    BY <2>1, <2>2 DEF Hop
  <2> QED BY <1>3, <1>6, <2>2, <2>3
<1> HIDE DEF At
<1>7. ASSUME NEW n \in 0 .. (N - 1) - 1, n \in S PROVE n + 1 \in S
  <2>1. n \in 0 .. N - 1 /\ n + 1 \in 0 .. N - 1
    BY <1>1
  <2> QED BY <1>6, <1>7, <2>1
<1> HIDE DEF S
<1>8. 0 .. N - 1 \subseteq S
  BY <1>1, <1>5, <1>7, UpTo
<1>9. \A i \in 0 .. N - 1 : At(f[i])
  BY <1>8 DEF S
<1>10. ASSUME NEW i \in 0 .. N PROVE f[i] # 0
  <2>1. CASE i = 0
    <3>1. 0 \in 0 .. N - 1
      BY <1>1
    <3> QED BY <1>9, <2>1, <3>1, Places DEF At
  <2>2. CASE i # 0
    <3>1. i - 1 \in 0 .. N - 1 /\ (i - 1) + 1 = i
      BY <1>1, <2>2
    <3> QED BY <1>6, <1>9, <3>1
  <2> QED BY <2>1, <2>2
<1>11. \A i \in 0 .. N - 1 : rank[f[i + 1]] < rank[f[i]]
  BY <1>6, <1>9
<1> QED BY <1>1, <1>2, <1>10, <1>11, Endless

\* It can go on from there.
LEMMA ReachedOn ==
  ASSUME FileType, NEW x \in Offsets, NEW o \in Records, \E i \in 0 .. IdxCap - 1 : Path(x)[i] = o
  PROVE  o \in OnList(x) /\ (ptr[o] # 0 => ptr[o] \in OnList(x))
<1>1. PICK i \in 0 .. IdxCap - 1 : Path(x)[i] = o
  OBVIOUS
<1>2. i \in 0 .. IdxCap /\ i + 1 \in 0 .. IdxCap
  BY Sizes
<1>3. o # 0 /\ Path(x)[i + 1] = ptr[o]
  BY <1>1, PathStep, Places DEF Hop
<1> QED BY <1>1, <1>2, <1>3 DEF OnList

-----------------------------------------------------------------------------
(* The lists are sound.                                                     *)

\* A list that nobody has locked is on the file as it is meant.
LEMMA QuietReal ==
  ASSUME LockInv, NEW own, NEW nx, NEW rank, ListInv(own, nx, rank), NEW a \in Quiet,
         NEW o \in Offsets, own[o] = a
  PROVE  ptr[o] = nx[o]
<1>1. a \in 0 .. NHash /\ a # NoList /\ wl[a] = {}
  BY Places DEF Quiet
<1>2. ASSUME NEW q \in Proc, Torn(q) PROVE db[q].ptroff # o
  <2>1. q \in wl[chainoff(q)]
    BY <1>2, TornInChain DEF LockInv, HoldOK
  <2>2. own[db[q].ptroff] = chainoff(q)
    BY <1>2 DEF ListInv, Place, DeletePlace
  <2> QED BY <1>1, <2>1, <2>2
<1> QED BY <1>1, <1>2 DEF ListInv, OnFile

LEMMA QuietWalk ==
  ASSUME LockInv, FileInv, NEW own, NEW nx, NEW rank, ListInv(own, nx, rank), NEW a \in Quiet
  PROVE  /\ Ends(a) /\ a \in 0 .. NHash
         /\ \A o \in OnList(a) : o \in Records /\ own[o] = a
<1>1. a \in 0 .. NHash /\ FileType /\ Shape(own, nx, rank)
  BY DEF Quiet, FileInv, ListInv
<1>2. \A o \in Offsets : own[o] = a => ptr[o] = nx[o]
  BY QuietReal
<1> QED BY <1>1, <1>2, WalkStays

LEMMA ListsGiveSound == DbIInv /\ Lists => ListsSound
<1> SUFFICES ASSUME LockInv, FileInv, NEW own, NEW nx, NEW rank, ListInv(own, nx, rank) PROVE ListsSound
  BY DEF DbIInv, Lists
<1>1. OnFile(own, nx)
  BY DEF ListInv
<1>2. \A a \in Quiet : Ends(a)
  BY QuietWalk
<1>3. ASSUME NEW c \in Quiet \ {FREE_OFF}, NEW o \in OnList(c)
      PROVE  /\ rec[o].key \in Keys /\ Hash[rec[o].key] = c
             /\ \A o2 \in OnList(c) : rec[o2].key = rec[o].key => o2 = o
  <2>1. c \in Chains /\ \A o2 \in OnList(c) : o2 \in Records /\ own[o2] = c
    BY QuietWalk, Places
  <2> QED BY <1>1, <2>1 DEF OnFile
<1>4. FREE_OFF \in Quiet => \A o \in OnList(FREE_OFF) : rec[o].key = Blank
  BY <1>1, QuietWalk DEF OnFile
<1>5. \A a, b \in Quiet : a # b => OnList(a) \cap OnList(b) = {}
  BY QuietWalk
<1> QED BY <1>2, <1>3, <1>4, <1>5 DEF ListsSound

\* Kills outside the two torn steps are kills.
LEMMA CrashIsKill == CrashNext => KillNext
BY DEF CrashNext, KillNext

LEMMA ListsHold == CrashSpec => [](DbIInv /\ Lists)
<1>1. Init => DbIInv /\ Lists
  BY InitLockInv, InitFileInv, InitLists DEF DbIInv
<1>2. DbIInv /\ Lists /\ [CrashNext]_vars => (DbIInv /\ Lists)'
  <2>1. DbIInv /\ [CrashNext]_vars => DbIInv'
    BY NextLockInv, NextFileInv, CrashIsKill DEF DbIInv
  <2>2. DbIInv /\ Lists /\ [CrashNext]_vars => Lists'
    BY NextLists DEF DbIInv
  <2> QED BY <2>1, <2>2
<1> QED BY <1>1, <1>2, PTL DEF CrashSpec

\* A chain nobody is changing ends and holds only keys that hash to it, each once, a
\* free list nobody is changing ends and holds only blanked records, and no record is
\* on two lists: for any number of processes, keys, chains and records, with processes
\* that are killed anywhere but between the two pointer writes of _db_dodelete.
THEOREM SoundLists == CrashSpec => []ListsSound
BY ListsHold, ListsGiveSound, PTL

-----------------------------------------------------------------------------
(* The files and the map.                                                   *)

LEMMA MapHolds == Spec => [](DbIInv /\ DataInv /\ MapLists)
<1>1. Init => DbIInv /\ DataInv /\ MapLists
  BY InitLockInv, InitFileInv, InitData, InitMap DEF DbIInv
<1>2. DbIInv /\ DataInv /\ MapLists /\ [Next]_vars => (DbIInv /\ DataInv /\ MapLists)'
  <2>1. [Next]_vars => [KillNext]_vars
    BY DEF KillNext
  <2>2. DbIInv /\ [KillNext]_vars => DbIInv'
    BY NextLockInv, NextFileInv DEF DbIInv
  <2> QED BY <2>1, <2>2, NextData, NextMap DEF DbIInv
<1> QED BY <1>1, <1>2, PTL DEF Spec

\* On a chain nobody has locked, every record of the list is met by a walk.
LEMMA QuietReach ==
  ASSUME LockInv, FileInv, NEW own, NEW nx, NEW rank, ListInv(own, nx, rank), NEW a \in Quiet,
         NEW o \in Records, own[o] = a
  PROVE  o \in OnList(a)
<1>1. a \in 0 .. NHash /\ FileType /\ Shape(own, nx, rank)
  BY DEF Quiet, FileInv, ListInv
<1>2. \A z \in Offsets : own[z] = a => ptr[z] = nx[z]
  BY QuietReal
<1>3. a \in Offsets /\ own[a] = a /\ rank[o] < rank[a]
  BY <1>1, Places DEF Shape
<1>4. \E i \in 0 .. IdxCap - 1 : Path(a)[i] = o
  BY <1>1, <1>2, <1>3, WalkReaches
<1> QED BY <1>1, <1>3, <1>4, ReachedOn

LEMMA MapGivesFiles == DbIInv /\ MapLists => FilesHoldMap
<1> SUFFICES ASSUME LockInv, FileInv, NEW own, NEW nx, NEW rank, ListInv(own, nx, rank), MapInv(own),
                    NEW k \in Keys, Hash[k] \in Quiet
             PROVE  /\ kv[k] = None => ~\E o \in OnList(Hash[k]) : rec[o].key = k
                    /\ kv[k] # None => \E o \in OnList(Hash[k]) : rec[o].key = k /\ dat[rec[o].datoff] = kv[k]
  BY DEF DbIInv, MapLists, FilesHoldMap
<1>1. Hash[k] \in Chains /\ wl[Hash[k]] = {}
  BY Places DEF Quiet
<1>2. CASE kv[k] = None
  <2>1. \A o \in OnList(Hash[k]) : o \in Records /\ own[o] = Hash[k]
    BY QuietWalk
  <2> QED BY <1>1, <1>2, <2>1 DEF MapInv, OnMap
<1>3. CASE kv[k] # None
  <2>1. \A p \in Proc : InChain(p) /\ call[p].op # "fetch" => chainoff(p) # Hash[k]
    BY <1>1 DEF LockInv, HoldOK
  <2>2. \A p \in Proc : Between(p) => call[p].key # k
    BY <2>1, BetweenInChain DEF MapInv, chainoff
  <2>3. PICK o \in Records : own[o] = Hash[k] /\ rec[o].key = k
    BY <1>3, <2>2 DEF MapInv, Kept
  <2>4. o \in OnList(Hash[k])
    BY <2>3, QuietReach
  <2>5. ASSUME NEW p \in Proc, pc[p] \in BlankLabels, db[p].idxoff = o PROVE FALSE
    <3>1. pc[p] \in FoundLabels /\ pc[p] \in DelLabels \cup StoreLabels
      BY <2>5 DEF BlankLabels, FoundLabels, DelLabels
    <3>2. rec[o].key = call[p].key /\ InChain(p) /\ call[p].op # "fetch"
      BY <2>5, <3>1, AtWork DEF FindPlace
    <3> QED BY <2>1, <2>3, <3>2 DEF chainoff
  <2>6. dat[rec[o].datoff] = kv[k]
    BY <1>1, <2>3, <2>5 DEF MapInv, OnMap, BlankLabels
  <2> QED BY <1>3, <2>3, <2>4, <2>6
<1> QED BY <1>2, <1>3

\* What a walk of an unlocked chain finds is the map that the completed calls built,
\* for any number of processes, keys, chains and records.
THEOREM MapOnFiles == Spec => []FilesHoldMap
BY MapHolds, MapGivesFiles, PTL

-----------------------------------------------------------------------------
(* No index record is lost.                                                 *)

\* The pointers of the chain of q are as they are meant, but for the one that q has to write.
LEMMA TornReal ==
  ASSUME LockInv, NEW own, NEW nx, NEW rank, ListInv(own, nx, rank), NEW q \in Proc, Torn(q),
         NEW z \in Offsets, own[z] = chainoff(q), z # db[q].ptroff
  PROVE  ptr[z] = nx[z]
<1>1. InChain(q) /\ call[q].op # "fetch" /\ chainoff(q) # NoList
  BY TornInChain, InKeys
<1>2. ASSUME NEW p \in Proc, Torn(p) PROVE db[p].ptroff # z
  <2> SUFFICES ASSUME p # q, db[p].ptroff = z PROVE FALSE
    OBVIOUS
  <2>1. own[z] = chainoff(p) /\ InChain(p)
    BY <1>2, TornInChain DEF ListInv, Place, DeletePlace
  <2> QED BY <1>1, <2>1, LockInvExcludes DEF ChainExclusion
<1> QED BY <1>1, <1>2 DEF ListInv, OnFile

\* From the head, a walk along that chain meets every record up to the torn pointer.
LEMMA TornReach ==
  ASSUME LockInv, FileInv, NEW own, NEW nx, NEW rank, ListInv(own, nx, rank), NEW q \in Proc, Torn(q),
         NEW o \in Records, own[o] = chainoff(q), rank[db[q].ptroff] <= rank[o]
  PROVE  \E i \in 0 .. IdxCap - 1 : Path(chainoff(q))[i] = o
<1>1. Shape(own, nx, rank) /\ FileType /\ chainoff(q) \in 0 .. NHash
  BY TornInChain, InKeys DEF ListInv, FileInv
<1>2. chainoff(q) \in Offsets /\ own[chainoff(q)] = chainoff(q) /\ rank[o] < rank[chainoff(q)]
  BY <1>1, Places DEF Shape
<1>3. rank \in [Offsets -> Nat] /\ db[q].ptroff \in Offsets /\ o \in Offsets
  BY <1>1, Before, Places DEF Shape, Handles
<1>4. ASSUME NEW z \in Offsets, own[z] = chainoff(q), rank[o] < rank[z] PROVE ptr[z] = nx[z]
  <2>1. z # db[q].ptroff
    BY <1>3, <1>4
  <2> QED BY <1>4, <2>1, TornReal
<1> QED BY <1>1, <1>2, <1>4, WalkReaches

LEMMA ListedFound ==
  ASSUME LockInv, FileInv, NEW own, NEW nx, NEW rank, ListInv(own, nx, rank), NEW o \in Records, own[o] # NoList
  PROVE  (\E a \in 0 .. NHash : o \in OnList(a)) \/ (\E p \in Proc : o \in Held(p))
<1>1. Shape(own, nx, rank) /\ FileType /\ OnFile(own, nx) /\ o \in Offsets
  BY Places DEF ListInv, FileInv
<1>2. PICK a : a = own[o]
  OBVIOUS
<1>3. /\ a \in 0 .. NHash /\ a \in Offsets /\ own[a] = a /\ rank[o] < rank[a] /\ rank \in [Offsets -> Nat]
      /\ a # NoList
  <2>1. own \in [Offsets -> NoList .. NHash]
    BY <1>1 DEF Shape
  <2>2. a \in NoList .. NHash
    BY <1>1, <1>2, <2>1
  <2>3. a \in 0 .. NHash
    BY <1>2, <2>2, DbConstants DEF NoList
  <2> QED BY <1>1, <1>2, <2>3, Places DEF Shape
<1>4. CASE \A q \in Proc : Torn(q) => own[db[q].ptroff] # a
  <2>1. \A z \in Offsets : own[z] = a => ptr[z] = nx[z]
    BY <1>1, <1>3, <1>4 DEF OnFile
  <2>2. \E i \in 0 .. IdxCap - 1 : Path(a)[i] = o
    BY <1>1, <1>2, <1>3, <2>1, WalkReaches
  <2> QED BY <1>1, <1>3, <2>2, ReachedOn
<1>5. ASSUME NEW q \in Proc, Torn(q), own[db[q].ptroff] = a
      PROVE  o \in OnList(a) \/ o \in Held(q)
  <2>0. PICK y, s : y = db[q].ptroff /\ s = db[q].save
    OBVIOUS
  <2>1. own[y] = a /\ nx[y] = s /\ y \in Offsets /\ s \in Offsets /\ chainoff(q) = a
    BY <1>5, <2>0, Before DEF ListInv, Place, DeletePlace, Handles
  <2>2. CASE rank[y] <= rank[o]
    <3>1. \E i \in 0 .. IdxCap - 1 : Path(a)[i] = o
      BY <1>2, <1>5, <2>0, <2>1, <2>2, TornReach
    <3> QED BY <1>1, <1>3, <3>1, ReachedOn
  <2>3. CASE rank[o] < rank[y]
    <3>1. s # 0 /\ s \in Records /\ own[s] = a /\ rank[s] < rank[y] /\ (o # s => rank[o] < rank[s])
      <4>1. s # 0
        BY <1>1, <1>2, <1>3, <2>1, <2>3 DEF Shape
      <4> QED BY <1>1, <1>2, <1>3, <2>1, <2>3, <4>1, Following
    <3>2. Held(q) = {s} \cup OnList(s)
      BY <1>5, <2>0, <3>1 DEF Held
    <3>3. CASE o # s
      <4>1. ASSUME NEW z \in Offsets, own[z] = a, rank[z] <= rank[s] PROVE ptr[z] = nx[z]
        <5>1. z # y
          BY <1>3, <2>1, <3>1, <4>1
        <5> QED BY <1>5, <2>0, <2>1, <4>1, <5>1, TornReal
      <4>2. \E i \in 0 .. IdxCap - 1 : Path(s)[i] = o
        BY <1>1, <1>2, <1>3, <2>1, <3>1, <3>3, <4>1, WalkReaches
      <4>3. o \in OnList(s)
        BY <1>1, <2>1, <4>2, ReachedOn
      <4> QED BY <3>2, <4>3
    <3> QED BY <3>2, <3>3
  <2> QED BY <1>1, <1>3, <2>1, <2>2, <2>3
<1> QED BY <1>3, <1>4, <1>5

\* A record that is being deleted is still where its chain leads.
LEMMA DeletedFound ==
  ASSUME LockInv, FileInv, NEW own, NEW nx, NEW rank, ListInv(own, nx, rank), NEW q \in Proc, pc[q] = "delhead"
  PROVE  db[q].idxoff \in OnList(chainoff(q)) /\ chainoff(q) \in 0 .. NHash
<1> DEFINE y == db[q].ptroff
           c == chainoff(q)
<1>1. Torn(q) /\ pc[q] \in RecordLabels
  BY DEF Torn, RecordLabels, DelLabels
<1>2. /\ c \in 0 .. NHash /\ c \in Offsets /\ FileType /\ own[y] = c /\ ptr[y] = db[q].idxoff /\ y \in Offsets
      /\ Shape(own, nx, rank)
  BY <1>1, TornInChain, InKeys, Places, Before DEF ListInv, Place, DeletePlace, Handles
<1>3. db[q].idxoff # 0
  BY <1>1, Before, WrittenOffsets, Places
<1>4. CASE y \in Records
  <2>1. rank[y] <= rank[y]
    BY <1>2 DEF Shape
  <2>2. \E i \in 0 .. IdxCap - 1 : Path(c)[i] = y
    BY <1>1, <1>2, <1>4, <2>1, TornReach
  <2> QED BY <1>2, <1>3, <1>4, <2>2, ReachedOn
<1>5. CASE y \notin Records
  <2>1. y = c
    BY <1>2, <1>5, Places DEF Shape
  <2>2. Path(c)[0] = db[q].idxoff /\ 0 \in 0 .. IdxCap
    BY <1>2, <2>1, PathStep, Sizes
  <2> QED BY <1>2, <1>3, <2>2 DEF OnList
<1> QED BY <1>4, <1>5

\* A pointer can hold every offset of the index file.
Fits == idxsize <= PtrMax + 1

LEMMA MapGivesKept == DbIInv /\ MapLists => (Fits => NoRecordLost)
<1> SUFFICES ASSUME LockInv, FileInv, NEW own, NEW nx, NEW rank, ListInv(own, nx, rank), Whole(own), Fits,
                    NEW o \in Written
             PROVE  (\E a \in 0 .. NHash : o \in OnList(a)) \/ (\E p \in Proc : o \in Held(p))
  BY DEF DbIInv, MapLists, NoRecordLost, Written
<1>1. FileType /\ o \in Records
  BY WrittenOffsets DEF FileInv
<1>2. o <= PtrMax
  BY <1>1, FileSizes, Sizes, DbConstants DEF Fits, Written
<1>3. CASE own[o] # NoList
  BY <1>1, <1>3, ListedFound
<1>4. ASSUME NEW q \in Proc, pc[q] \in HoldLabels, db[q].idxoff = o
      PROVE  (\E a \in 0 .. NHash : o \in OnList(a)) \/ o \in Held(q)
  <2>1. CASE pc[q] = "delhead"
    BY <1>4, <2>1, DeletedFound
  <2>2. CASE pc[q] # "delhead"
    <3>1. pc[q] \in {"freeunlock", "reuse", "idxrewrite", "idxunlock", "link"}
      BY <1>4, <2>2 DEF HoldLabels, TakenLabels, NewLabels
    <3> QED BY <1>4, <3>1 DEF Held, Torn
  <2> QED BY <2>1, <2>2
<1> QED BY <1>2, <1>3, <1>4 DEF Whole

\* Every index record is on a chain, on the free list, or held by a process that is
\* about to link it, as long as the file is not longer than a pointer can say; when it
\* is, _db_writeptr refuses to link a new record and that record is lost.
THEOREM RecordsKept == Spec => [](Fits => NoRecordLost)
BY MapHolds, MapGivesKept, PTL

-----------------------------------------------------------------------------
(* The calls are calls of the map.                                          *)

\* Every behaviour of the library, seen through kv, ret and the calls of the live
\* processes, is a behaviour of the map: db_fetch, db_store, db_delete and db_nextrec
\* each take effect at one instant between start and return.  The index file must stay
\* within what _db_writeptr can write: a record refused there would be met by db_nextrec
\* without ever entering the map.
THEOREM Refinement == IdxCap <= PtrMax => (Spec => ImplementsMap)
<1> SUFFICES ASSUME IdxCap <= PtrMax PROVE Spec => ImplementsMap
  OBVIOUS
<1>1. Init => FullLists /\ Map!Init
  BY InitLockInv, InitFileInv, InitData, InitMap, InitAnswers DEF FullLists, DbIInv
<1>2. FullLists /\ [Next]_vars => FullLists' /\ [Map!Next]_Map!vars
  <2> SUFFICES ASSUME FullLists, [Next]_vars PROVE FullLists' /\ [Map!Next]_Map!vars
    OBVIOUS
  <2>1. [KillNext]_vars
    BY DEF KillNext
  <2>2. DbIInv'
    BY <2>1, NextLockInv, NextFileInv DEF FullLists, DbIInv
  <2>3. DataInv' /\ MapLists'
    BY <2>1, NextData, NextMap DEF FullLists, DbIInv
  <2>4. (\A p \in Proc : AnswerPlace(p))' /\ MapStep
    BY NextAnswers
  <2> QED BY <2>2, <2>3, <2>4 DEF FullLists, MapStep
<1> QED BY <1>1, <1>2, PTL DEF Spec, ImplementsMap, Map!Spec

=============================================================================
