---------------------------- MODULE DbListProofs ----------------------------
(***************************************************************************)
(* Every step leaves lists of the kind that DbLists describes: how own, nx  *)
(* and rank change with the pointers that a process writes, for any number  *)
(* of processes, keys and chains, with processes that are killed outside    *)
(* the two torn steps of _db_dodelete.                                      *)
(***************************************************************************)
EXTENDS DbProofs

\* Most leaves are first-order: Zenon first, the others go to the SMT solver.
USE ZenonT(3), SMT

-----------------------------------------------------------------------------
(* Lists on their own.                                                      *)

\* Taking the record r that follows q out of its list.
LEMMA ShapeRemove ==
  ASSUME NEW own, NEW nx, NEW rank, Shape(own, nx, rank),
         NEW q \in Offsets, NEW r \in Records, own[q] # NoList, nx[q] = r
  PROVE  Shape([own EXCEPT ![r] = NoList], [nx EXCEPT ![q] = nx[r]], rank)
<1> DEFINE own2 == [own EXCEPT ![r] = NoList]
           nx2 == [nx EXCEPT ![q] = nx[r]]
<1>1. /\ own \in [Offsets -> NoList .. NHash] /\ nx \in [Offsets -> Offsets]
      /\ rank \in [Offsets -> Nat] /\ r \in Offsets
      /\ own[r] = own[q] /\ rank[r] < rank[q] /\ r # q /\ r # 0
  BY Places DEF Shape
<1>2. \A o \in Offsets : own2[o] # NoList => o # r /\ own2[o] = own[o]
  BY <1>1
<1>3. \A o \in Offsets : (o # q => nx2[o] = nx[o]) /\ (o = q => nx2[o] = nx[r])
  BY <1>1
<1>4. own2 \in [Offsets -> NoList .. NHash] /\ nx2 \in [Offsets -> Offsets]
  BY <1>1, Places
<1>5. \A a \in 0 .. NHash : own2[a] = a
  BY <1>1, Places DEF Shape
<1>6. \A o \in Records : own2[o] # NoList => rank[o] < rank[own2[o]]
  BY <1>2, Places DEF Shape
<1>7. ASSUME NEW o \in Offsets, own2[o] # NoList, nx2[o] # 0
      PROVE  nx2[o] \in Records /\ own2[nx2[o]] = own2[o] /\ rank[nx2[o]] < rank[o]
  <2>1. own[o] # NoList /\ o # r
    BY <1>2, <1>7
  <2>2. CASE o = q
    <3>1. nx[r] \in Records /\ own[nx[r]] = own[r] /\ rank[nx[r]] < rank[r]
      BY <1>1, <1>3, <1>7, <2>2 DEF Shape
    <3>2. nx[r] # r /\ nx[r] \in Offsets
      BY <1>1, <3>1, Places
    <3>3. own2[nx[r]] = own[r] /\ rank[nx[r]] < rank[q]
      BY <1>1, <3>1, <3>2
    <3> QED BY <1>1, <1>2, <1>3, <1>7, <2>2, <3>1, <3>3
  <2>3. CASE o # q
    <3>1. nx[o] \in Records /\ own[nx[o]] = own[o] /\ rank[nx[o]] < rank[o] /\ nx[o] \in Offsets
      BY <1>1, <1>3, <1>7, <2>1, <2>3 DEF Shape
    <3>2. nx[o] # r
      <4> SUFFICES ASSUME nx[o] = r PROVE FALSE
        OBVIOUS
      <4>1. own[o] = own[q] /\ rank[o] # rank[q]
        BY <1>1, <2>1, <2>3, <3>1 DEF Shape
      <4>2. rank[o] < rank[q] => rank[o] <= rank[r]
        BY <1>1, <4>1 DEF Shape
      <4>3. rank[q] < rank[o] => rank[q] <= rank[r]
        BY <1>1, <2>1, <4>1 DEF Shape
      <4>4. rank[o] \in Nat /\ rank[q] \in Nat /\ rank[r] \in Nat
        BY <1>1
      <4> QED BY <1>1, <3>1, <4>1, <4>2, <4>3, <4>4
    <3> QED BY <1>1, <1>2, <1>3, <1>7, <2>3, <3>1, <3>2
  <2> QED BY <2>2, <2>3
<1>8. ASSUME NEW o \in Offsets, NEW x \in Offsets, own2[o] # NoList, own2[x] = own2[o]
      PROVE  /\ rank[x] < rank[o] => nx2[o] # 0 /\ rank[x] <= rank[nx2[o]]
             /\ rank[x] = rank[o] => x = o
  <2>1. own[o] # NoList /\ own[x] = own[o] /\ x # r /\ o # r
    BY <1>2, <1>8
  <2>2. /\ rank[x] < rank[o] => nx[o] # 0 /\ rank[x] <= rank[nx[o]]
        /\ rank[x] = rank[o] => x = o
    BY <2>1 DEF Shape
  <2>3. CASE o = q /\ rank[x] < rank[o]
    <3>1. rank[x] <= rank[r] /\ own[x] = own[r]
      BY <1>1, <2>1, <2>2, <2>3
    <3>2. rank[x] # rank[r]
      BY <1>1, <2>1, <3>1 DEF Shape
    <3>3. rank[x] < rank[r]
      BY <1>1, <3>1, <3>2
    <3>4. nx[r] # 0 /\ rank[x] <= rank[nx[r]]
      BY <1>1, <2>1, <3>1, <3>3 DEF Shape
    <3> QED BY <1>3, <2>2, <2>3, <3>4
  <2> QED BY <1>3, <2>2, <2>3
<1> HIDE DEF own2, nx2
<1>9. Shape(own2, nx2, rank)
  BY <1>1, <1>4, <1>5, <1>6, <1>7, <1>8 DEF Shape
<1> QED BY <1>9 DEF own2, nx2

\* Putting a record that is on no list at the head of the list a.
LEMMA ShapeInsert ==
  ASSUME NEW own, NEW nx, NEW rank, Shape(own, nx, rank),
         NEW a \in 0 .. NHash, NEW r \in Records, own[r] = NoList
  PROVE  Shape([own EXCEPT ![r] = a], [nx EXCEPT ![a] = r, ![r] = nx[a]],
               [rank EXCEPT ![r] = rank[a], ![a] = rank[a] + 1])
<1> DEFINE own2 == [own EXCEPT ![r] = a]
           nx2 == [nx EXCEPT ![a] = r, ![r] = nx[a]]
           rank2 == [rank EXCEPT ![r] = rank[a], ![a] = rank[a] + 1]
<1>1. /\ own \in [Offsets -> NoList .. NHash] /\ nx \in [Offsets -> Offsets]
      /\ rank \in [Offsets -> Nat] /\ r \in Offsets /\ a \in Offsets /\ a # r /\ r # 0
      /\ own[a] = a /\ a # NoList /\ a \in NoList .. NHash /\ rank[a] \in Nat
  BY Places DEF Shape, NoList
<1>2. /\ own2[r] = a /\ nx2[r] = nx[a] /\ rank2[r] = rank[a]
      /\ own2[a] = a /\ nx2[a] = r /\ rank2[a] = rank[a] + 1
  BY <1>1
<1>3. \A o \in Offsets \ {a, r} : own2[o] = own[o] /\ nx2[o] = nx[o] /\ rank2[o] = rank[o]
  BY <1>1
<1>4. own2 \in [Offsets -> NoList .. NHash] /\ nx2 \in [Offsets -> Offsets] /\ rank2 \in [Offsets -> Nat]
  BY <1>1
<1>5. \A b \in 0 .. NHash : own2[b] = b
  BY <1>1, Places DEF Shape
<1>6. \A o \in Offsets : own[o] = a /\ o # a => rank[o] < rank[a]
  BY Places DEF Shape
<1> HIDE DEF own2, nx2, rank2
<1>7. ASSUME NEW o \in Records, own2[o] # NoList PROVE rank2[o] < rank2[own2[o]]
  <2>1. CASE o = r
    BY <1>1, <1>2, <2>1
  <2>2. CASE o # r
    <3>1. own2[o] = own[o] /\ rank2[o] = rank[o] /\ rank[o] < rank[own[o]] /\ own[o] \in 0 .. NHash
      BY <1>1, <1>3, <1>7, <2>2, Places DEF Shape, NoList
    <3>2. own[o] # r /\ own[o] \in Offsets
      BY <3>1, Places
    <3>3. rank2[own[o]] = rank[own[o]] \/ rank2[own[o]] = rank[own[o]] + 1
      BY <1>2, <1>3, <3>2
    <3> QED BY <1>1, <3>1, <3>2, <3>3, Places
  <2> QED BY <2>1, <2>2
<1>8. ASSUME NEW o \in Offsets, own2[o] # NoList, nx2[o] # 0
      PROVE  nx2[o] \in Records /\ own2[nx2[o]] = own2[o] /\ rank2[nx2[o]] < rank2[o]
  <2>1. CASE o = a
    BY <1>1, <1>2, <2>1
  <2>2. CASE o = r
    <3>1. nx[a] \in Records /\ own[nx[a]] = a /\ rank[nx[a]] < rank[a]
      BY <1>1, <1>2, <1>8, <2>2 DEF Shape
    <3>2. nx[a] # r /\ nx[a] # a /\ nx[a] \in Offsets
      BY <1>1, <3>1, Places
    <3> QED BY <1>2, <1>3, <2>2, <3>1, <3>2
  <2>3. CASE o \notin {a, r}
    <3>1. own[o] # NoList /\ nx[o] # 0
      BY <1>3, <1>8, <2>3
    <3>2. nx[o] \in Records /\ own[nx[o]] = own[o] /\ rank[nx[o]] < rank[o]
      BY <3>1 DEF Shape
    <3>3. nx[o] # r /\ nx[o] # a /\ nx[o] \in Offsets
      BY <1>1, <3>1, <3>2, Places
    <3> QED BY <1>3, <2>3, <3>2, <3>3
  <2> QED BY <2>1, <2>2, <2>3
<1>9. ASSUME NEW o \in Offsets, NEW x \in Offsets, own2[o] # NoList, own2[x] = own2[o]
      PROVE  /\ rank2[x] < rank2[o] => nx2[o] # 0 /\ rank2[x] <= rank2[nx2[o]]
             /\ rank2[x] = rank2[o] => x = o
  <2>1. CASE own2[o] # a
    <3>1. o \notin {a, r} /\ x \notin {a, r}
      BY <1>2, <1>9, <2>1
    <3>2. own[o] # NoList /\ own[x] = own[o]
      BY <1>3, <1>9, <3>1
    <3>3. /\ rank[x] < rank[o] => nx[o] # 0 /\ rank[x] <= rank[nx[o]]
          /\ rank[x] = rank[o] => x = o
      BY <3>2 DEF Shape
    <3>4. nx[o] # 0 => own[nx[o]] = own[o] /\ nx[o] \in Offsets
      BY <3>2, Places DEF Shape
    <3>5. own[o] # a
      BY <1>3, <2>1, <3>1
    <3>6. nx[o] # 0 => nx[o] \notin {a, r}
      BY <1>1, <3>2, <3>4, <3>5
    <3> QED BY <1>3, <3>1, <3>3, <3>4, <3>6
  <2>2. CASE own2[o] = a
    <3>1. \A y \in Offsets : own2[y] = a /\ y \notin {a, r} => own[y] = a /\ rank2[y] = rank[y] /\ rank[y] < rank[a]
      BY <1>3, <1>6
    <3>2. \A y, z \in Offsets : own[y] = a /\ own[z] = a =>
            /\ rank[z] < rank[y] => nx[y] # 0 /\ rank[z] <= rank[nx[y]]
            /\ rank[z] = rank[y] => z = y
      BY <1>1 DEF Shape
    <3>3. ASSUME NEW y \in Offsets, own[y] = a, nx[y] # 0
          PROVE  nx[y] \in Offsets /\ nx[y] # a /\ nx[y] # r /\ rank2[nx[y]] = rank[nx[y]]
      <4>1. nx[y] \in Records /\ own[nx[y]] = a
        BY <1>1, <3>3 DEF Shape
      <4>2. nx[y] \in Offsets /\ nx[y] # a /\ nx[y] # r
        BY <1>1, <4>1, Places
      <4> QED BY <1>3, <4>2
    <3>4. rank[x] \in Nat /\ rank[o] \in Nat
      BY <1>1
    <3>5. CASE o = a
      BY <1>1, <1>2, <1>9, <2>2, <3>1, <3>4, <3>5
    <3>6. CASE o = r
      BY <1>1, <1>2, <1>9, <2>2, <3>1, <3>2, <3>3, <3>4, <3>6
    <3>7. CASE o \notin {a, r}
      BY <1>1, <1>2, <1>3, <1>9, <2>2, <3>1, <3>2, <3>3, <3>4, <3>7
    <3> QED BY <3>5, <3>6, <3>7
  <2> QED BY <2>1, <2>2
<1>10. Shape(own2, nx2, rank2)
  BY <1>4, <1>5, <1>7, <1>8, <1>9 DEF Shape
<1> QED BY <1>10 DEF own2, nx2, rank2

-----------------------------------------------------------------------------
(* The lists a process looks at are on the file as they are meant.          *)

LEMMA ChainReal ==
  ASSUME NEW p \in Proc, LockInv, NEW own, NEW nx, NEW rank, ListInv(own, nx, rank),
         InChain(p), ~Torn(p), NEW o \in Offsets, own[o] = chainoff(p)
  PROVE  ptr[o] = nx[o]
<1>1. ASSUME NEW q \in Proc, Torn(q) PROVE db[q].ptroff # o
  <2> SUFFICES ASSUME db[q].ptroff = o PROVE FALSE
    OBVIOUS
  <2>1. own[o] = chainoff(q)
    BY <1>1 DEF ListInv, Place, DeletePlace
  <2>2. InChain(q) /\ call[q].op # "fetch" /\ p # q
    BY <1>1, TornInChain
  <2> QED BY <2>1, <2>2, LockInvExcludes DEF ChainExclusion
<1>2. own[o] # NoList
  BY InKeys
<1> QED BY <1>1, <1>2 DEF ListInv, OnFile

LEMMA FreeReal ==
  ASSUME LockInv, NEW own, NEW nx, NEW rank, ListInv(own, nx, rank),
         NEW o \in Offsets, own[o] = FREE_OFF
  PROVE  ptr[o] = nx[o]
<1>1. ASSUME NEW q \in Proc, Torn(q) PROVE db[q].ptroff # o
  BY <1>1, TornInChain, InKeys DEF ListInv, Place, DeletePlace
<1>2. own[o] # NoList
  BY Places
<1> QED BY <1>1, <1>2 DEF ListInv, OnFile

-----------------------------------------------------------------------------
(* Steps that leave the index file alone.                                   *)

LEMMA LookLists ==
  ASSUME NEW p \in Proc, NEW l, NEW h, LockInv, FileInv,
         NEW own, NEW nx, NEW rank, ListInv(own, nx, rank),
         pc' = [pc EXCEPT ![p] = l], db' = [db EXCEPT ![p] = h],
         \A q \in Proc \ {p} : call'[q] = call[q],
         ptr' = ptr, rec' = rec, idxsize' = idxsize,
         ~Torn(p), l \notin {"delhead", "delunlink"},
         l \in HoldLabels => pc[p] \in HoldLabels /\ h.idxoff = db[p].idxoff,
         Place(p, own, nx, rank)'
  PROVE  ListInv(own, nx, rank)'
<1>1. pc'[p] = l /\ db'[p] = h /\ \A q \in Proc \ {p} : pc'[q] = pc[q] /\ db'[q] = db[q]
  BY DEF LockInv, LockType, FileInv, HandleType
<1>2. ASSUME NEW q \in Proc \ {p} PROVE Place(q, own, nx, rank)'
  <2>1. Place(q, own, nx, rank) /\ pc'[q] = pc[q] /\ db'[q] = db[q] /\ call'[q] = call[q]
    BY <1>1 DEF ListInv
  <2>2. FindPlace(q, own, nx, rank)'
    <3>1. FindPlace(q, own, nx, rank)
      BY <2>1 DEF Place
    <3>2. chainoff(q)' = chainoff(q)
      BY <2>1 DEF chainoff
    <3> QED BY <2>1, <3>1, <3>2 DEF FindPlace
  <2>3. DeletePlace(q, own, nx)'
    <3>1. DeletePlace(q, own, nx) /\ (Torn(q)' <=> Torn(q)) /\ chainoff(q)' = chainoff(q)
      BY <2>1 DEF Place, Torn, chainoff
    <3> QED BY <2>1, <3>1 DEF DeletePlace
  <2>4. StorePlace(q, own, nx)'
    BY <2>1 DEF Place, StorePlace, chainoff
  <2> QED BY <2>2, <2>3, <2>4 DEF Place
<1>3. HoldApart'
  <2> SUFFICES ASSUME NEW q \in Proc, NEW r \in Proc, q # r,
                      pc'[q] \in HoldLabels, pc'[r] \in HoldLabels
               PROVE  db'[q].idxoff # db'[r].idxoff
    BY DEF HoldApart
  <2>1. /\ pc[q] \in HoldLabels /\ db'[q].idxoff = db[q].idxoff
        /\ pc[r] \in HoldLabels /\ db'[r].idxoff = db[r].idxoff
    BY <1>1
  <2> QED BY <2>1 DEF ListInv, HoldApart
<1>4. \A q \in Proc : (Torn(q)' <=> Torn(q)) /\ (Torn(q) => db'[q] = db[q])
  BY <1>1 DEF Torn
<1>5. OnFile(own, nx)'
  BY <1>4 DEF ListInv, OnFile, Written
<1> QED BY <1>2, <1>3, <1>5 DEF ListInv

\* At the end of a call and outside of one the handle is not tied to a list.
LEMMA FreePlace ==
  ASSUME NEW p \in Proc, NEW own, NEW nx, NEW rank, pc'[p] \in OutLabels \cup {"unlock"}
  PROVE  Place(p, own, nx, rank)'
BY DEF OutLabels, Place, FindPlace, DeletePlace, StorePlace, FoundLabels, MissLabels, HeadLabels,
       TakenLabels, NewLabels, HoldLabels, StoreLabels, Torn

LEMMA OutLists ==
  ASSUME NEW p \in Proc, NEW l \in OutLabels \cup {"unlock"}, NEW h, LockInv, FileInv,
         NEW own, NEW nx, NEW rank, ListInv(own, nx, rank),
         pc' = [pc EXCEPT ![p] = l], db' = [db EXCEPT ![p] = h],
         \A q \in Proc \ {p} : call'[q] = call[q],
         ptr' = ptr, rec' = rec, idxsize' = idxsize, ~Torn(p)
  PROVE  ListInv(own, nx, rank)'
<1>1. pc'[p] = l
  BY DEF LockInv, LockType
<1>2. l \notin HoldLabels /\ l \notin {"delhead", "delunlink"}
  BY DEF OutLabels, HoldLabels, TakenLabels, NewLabels
<1>3. Place(p, own, nx, rank)'
  BY <1>1, FreePlace
<1> QED BY <1>2, <1>3, LookLists

LEMMA ExitLists ==
  ASSUME NEW p \in Proc, LockInv, FileInv, NEW own, NEW nx, NEW rank, ListInv(own, nx, rank),
         ~Torn(p), Exit(p), UNCHANGED files
  PROVE  ListInv(own, nx, rank)'
BY OutLists DEF Exit, Goto, files, OutLabels

-----------------------------------------------------------------------------
(* _db_find_and_lock, and the end of a call.                                *)

LEMMA FindLists ==
  ASSUME NEW p \in Proc, LockInv, FileInv, NEW own, NEW nx, NEW rank, ListInv(own, nx, rank),
         FindStep(p)
  PROVE  ListInv(own, nx, rank)'
<1>1. /\ call' = call /\ ptr' = ptr /\ rec' = rec /\ idxsize' = idxsize /\ ~Torn(p)
      /\ \A q \in Proc \ {p} : call'[q] = call[q]
  BY DEF FindStep, FindLock, FindPtr, FindNext, Found, NotFound, files, ReadPtr, Torn
<1>2. /\ Shape(own, nx, rank) /\ Place(p, own, nx, rank) /\ FileType
      /\ db \in [Proc -> Handles] /\ pc \in [Proc -> Labels] /\ db[p] \in Handles
  BY DEF ListInv, FileInv, HandleType, LockInv, LockType
<1>3. chainoff(p)' = chainoff(p)
  BY <1>1 DEF chainoff
<1>4. CASE FindLock(p)
  <2> DEFINE h == [db[p] EXCEPT !.ptroff = chainoff(p)]
  <2>1. pc' = [pc EXCEPT ![p] = "findptr"] /\ db' = [db EXCEPT ![p] = h]
    BY <1>4 DEF FindLock, Goto
  <2>2. pc'[p] = "findptr" /\ db'[p].ptroff = chainoff(p)
    BY <1>2, <2>1 DEF Handles
  <2> HIDE DEF h
  <2>3. Place(p, own, nx, rank)'
    BY <1>3, <2>2 DEF Place, FindPlace, DeletePlace, StorePlace, FoundLabels, MissLabels, HeadLabels,
          TakenLabels, NewLabels, HoldLabels, StoreLabels, Torn
  <2>4. "findptr" \notin HoldLabels /\ "findptr" \notin {"delhead", "delunlink"}
    BY DEF HoldLabels, TakenLabels, NewLabels
  <2> QED BY <1>1, <2>1, <2>3, <2>4, LookLists
<1>5. CASE pc[p] \in {"findptr", "findrec"}
  <2>1. InChain(p)
    BY <1>5 DEF InChain, OutLabels
  <2>2. /\ chainoff(p) \in 0 .. NHash /\ chainoff(p) \in Chains /\ chainoff(p) # NoList
        /\ chainoff(p) \in Offsets /\ own[chainoff(p)] = chainoff(p)
    BY <1>2, <2>1, InKeys, Places DEF Shape
  <2>3. \A o \in Offsets : own[o] = chainoff(p) => ptr[o] = nx[o]
    BY <1>1, <2>1, ChainReal
  <2>4. pc[p] = "findptr" => db[p].ptroff = chainoff(p)
    BY <1>2 DEF Place, FindPlace
  <2>5. db[p].ptroff \in Offsets /\ db[p].offset \in Offsets
    BY <1>2 DEF Handles
  <2>6. pc[p] = "findrec" =>
          /\ own[db[p].ptroff] = chainoff(p) /\ nx[db[p].ptroff] = db[p].offset
          /\ \A o \in Records : own[o] = chainoff(p) /\ rec[o].key = call[p].key
                               => rank[o] < rank[db[p].ptroff]
    BY <1>2 DEF Place, FindPlace
  <2>7. CASE FindPtr(p)
    <3> DEFINE h == [db[p] EXCEPT !.offset = ptr[chainoff(p)]]
    <3>1. pc' = [pc EXCEPT ![p] = "findrec"] /\ db' = [db EXCEPT ![p] = h]
      BY <2>7 DEF FindPtr, Goto
    <3>2. pc'[p] = "findrec" /\ db'[p].ptroff = chainoff(p) /\ db'[p].offset = nx[chainoff(p)]
      BY <1>2, <2>2, <2>3, <2>4, <2>7, <3>1 DEF Handles, FindPtr
    <3> HIDE DEF h
    <3>3. \A o \in Records : own[o] = chainoff(p) => rank[o] < rank[chainoff(p)]
      BY <1>2, <2>2 DEF Shape
    <3>4. FindPlace(p, own, nx, rank)'
      BY <1>1, <1>3, <2>2, <3>2, <3>3 DEF FindPlace, FoundLabels, MissLabels, StoreLabels
    <3>5. Place(p, own, nx, rank)'
      BY <3>2, <3>4 DEF Place, DeletePlace, StorePlace, HeadLabels,
            TakenLabels, NewLabels, HoldLabels, StoreLabels, Torn
    <3>6. "findrec" \notin HoldLabels /\ "findrec" \notin {"delhead", "delunlink"}
      BY DEF HoldLabels, TakenLabels, NewLabels
    <3> QED BY <1>1, <3>1, <3>5, <3>6, LookLists
  <2>8. CASE pc[p] = "findrec" /\ db[p].offset # 0
    <3>1. /\ db[p].offset \in Records /\ own[db[p].offset] = chainoff(p)
          /\ rank[db[p].offset] < rank[db[p].ptroff]
          /\ \A x \in Offsets : own[x] = chainoff(p) /\ rank[x] < rank[db[p].ptroff] /\ x # db[p].offset
               => rank[x] < rank[db[p].offset]
      BY <1>2, <2>2, <2>5, <2>6, <2>8, Following
    <3>2. ptr[db[p].offset] = nx[db[p].offset]
      BY <2>3, <2>5, <3>1
    <3>3. CASE FindNext(p)
      <4> DEFINE h == [ReadIdx(p, db[p].offset) EXCEPT !.ptroff = db[p].offset, !.offset = ptr[db[p].offset]]
      <4>1. db' = [db EXCEPT ![p] = h] /\ pc' = pc /\ rec[db[p].offset].key # call[p].key
        BY <3>3 DEF FindNext
      <4>2. h.ptroff = db[p].offset /\ h.offset = nx[db[p].offset]
        BY <1>2, <3>2 DEF ReadIdx, Handles
      <4> HIDE DEF h
      <4>3. pc'[p] = "findrec" /\ db'[p] = h /\ pc' = [pc EXCEPT ![p] = "findrec"]
        BY <1>2, <2>8, <4>1
      <4>4. \A o \in Records : own[o] = chainoff(p) /\ rec[o].key = call[p].key
                                 => rank[o] < rank[db[p].offset]
        BY <2>6, <2>8, <3>1, <4>1, Places
      <4>5. FindPlace(p, own, nx, rank)'
        BY <1>1, <1>3, <3>1, <4>2, <4>3, <4>4 DEF FindPlace, FoundLabels, MissLabels, StoreLabels
      <4>6. Place(p, own, nx, rank)'
        BY <4>3, <4>5 DEF Place, DeletePlace, StorePlace, HeadLabels,
              TakenLabels, NewLabels, HoldLabels, StoreLabels, Torn
      <4> QED BY <1>1, <4>1, <4>3, <4>6, LookLists DEF HoldLabels, TakenLabels, NewLabels
    <3>4. CASE Found(p)
      <4> DEFINE h == ReadIdx(p, db[p].offset)
      <4>1. /\ db' = [db EXCEPT ![p] = h] /\ rec[db[p].offset].key = call[p].key
            /\ pc' = [pc EXCEPT ![p] = AfterFound(p)]
        BY <3>4 DEF Found, Goto
      <4>2. h.ptroff = db[p].ptroff /\ h.idxoff = db[p].offset /\ h.ptrval = nx[db[p].offset]
        BY <1>2, <3>2 DEF ReadIdx, Handles
      <4> HIDE DEF h
      <4>3. AfterFound(p) \in {"readdat", "dellock", "overwrite", "unlock"}
        BY DEF AfterFound
      <4>4. pc'[p] = AfterFound(p) /\ db'[p] = h
        BY <1>2, <4>1
      <4>5. FindPlace(p, own, nx, rank)'
        BY <1>1, <1>3, <2>6, <2>8, <4>1, <4>2, <4>3, <4>4 DEF FindPlace, FoundLabels, MissLabels, StoreLabels
      <4>6. Place(p, own, nx, rank)'
        BY <4>3, <4>4, <4>5 DEF Place, DeletePlace, StorePlace, HeadLabels,
              TakenLabels, NewLabels, HoldLabels, StoreLabels, Torn
      <4> QED BY <1>1, <4>1, <4>3, <4>6, LookLists DEF HoldLabels, TakenLabels, NewLabels
    <3> QED BY <2>8, <3>3, <3>4 DEF FindStep, FindLock, FindPtr, NotFound
  <2>9. CASE NotFound(p)
    <3>1. /\ pc' = [pc EXCEPT ![p] = "readhead"] \/ pc' = [pc EXCEPT ![p] = "unlock"]
          /\ db' = db /\ pc[p] = "findrec" /\ db[p].offset = 0
      BY <2>9 DEF NotFound, Goto
    <3>2. \A o \in Records : own[o] = chainoff(p) => rec[o].key # call[p].key
      BY <1>2, <2>2, <2>5, <2>6, <3>1, Places DEF Shape
    <3>3. db' = [db EXCEPT ![p] = db[p]] /\ pc'[p] \in {"readhead", "unlock"} /\ pc' = [pc EXCEPT ![p] = pc'[p]]
      BY <1>2, <3>1
    <3>4. FindPlace(p, own, nx, rank)'
      BY <1>1, <1>3, <3>2, <3>3 DEF FindPlace, FoundLabels, MissLabels, StoreLabels
    <3>5. Place(p, own, nx, rank)'
      BY <3>3, <3>4 DEF Place, DeletePlace, StorePlace, HeadLabels,
            TakenLabels, NewLabels, HoldLabels, StoreLabels, Torn
    <3> QED BY <1>1, <3>3, <3>5, LookLists DEF HoldLabels, TakenLabels, NewLabels
  <2> QED BY <1>5, <2>7, <2>8, <2>9 DEF FindStep, FindLock, FindNext, Found, NotFound
<1> QED BY <1>4, <1>5 DEF FindStep, FindPtr, FindNext, Found, NotFound

-----------------------------------------------------------------------------
(* Other steps that leave the index file alone.                             *)

LEMMA OutStepLists ==
  ASSUME NEW p \in Proc, LockInv, FileInv, NEW own, NEW nx, NEW rank, ListInv(own, nx, rank),
         Begin(p) \/ Reopen(p) \/ UnlockChain(p) \/ ScanStep(p) \/ FetchData(p) \/ Overwrite(p)
  PROVE  ListInv(own, nx, rank)'
<1>1. db \in [Proc -> Handles] /\ pc \in [Proc -> Labels] /\ call \in [Proc -> Calls]
  BY DEF FileInv, HandleType, LockInv, LockType
<1>2. ~Torn(p)
  BY DEF Begin, Call, StoreCall, StoreBadFlag, StoreBadLength, Rewind, Reopen, UnlockChain, ScanStep,
         ScanLock, ScanRecord, ScanEof, ScanMisaligned, ScanData, ScanUnlock, FetchData, Overwrite, Torn
<1>3. CASE \/ ScanMisaligned(p) \/ \E c \in Menu[p] : StoreBadLength(p, c)
  BY <1>2, <1>3, ExitLists DEF ScanMisaligned, StoreBadLength
<1>4. ASSUME NEW l \in OutLabels \cup {"unlock"}, NEW h, pc' = [pc EXCEPT ![p] = l],
             db' = [db EXCEPT ![p] = h], \A q \in Proc \ {p} : call'[q] = call[q],
             ptr' = ptr, rec' = rec, idxsize' = idxsize
      PROVE  ListInv(own, nx, rank)'
  BY <1>2, <1>4, OutLists
<1>5. db = [db EXCEPT ![p] = db[p]] /\ pc = [pc EXCEPT ![p] = pc[p]]
  BY <1>1
<1>6. CASE \E c \in Menu[p] : Call(p, c) \/ StoreCall(p, c) \/ StoreBadFlag(p, c) \/ Rewind(p, c)
  <2>1. /\ db' = db /\ ptr' = ptr /\ rec' = rec /\ idxsize' = idxsize
        /\ \A q \in Proc \ {p} : call'[q] = call[q]
        /\ (pc' = pc /\ pc[p] = "idle") \/ \E l \in {"scanlock", "findlock"} : pc' = [pc EXCEPT ![p] = l]
    BY <1>1, <1>6 DEF Call, StoreCall, StoreBadFlag, Rewind, files, Goto
  <2>2. \E l \in OutLabels \cup {"unlock"} : pc' = [pc EXCEPT ![p] = l]
    BY <1>5, <2>1 DEF OutLabels
  <2> QED BY <1>4, <1>5, <2>1, <2>2
<1>7. CASE Reopen(p)
  BY <1>1, <1>4, <1>5, <1>7 DEF Reopen, files, Goto, OutLabels
<1>8. CASE UnlockChain(p)
  BY <1>1, <1>4, <1>8 DEF UnlockChain, files, Goto, OutLabels
<1>9. CASE FetchData(p)
  BY <1>1, <1>4, <1>5, <1>9 DEF FetchData, files, Goto
<1>10. CASE Overwrite(p)
  BY <1>1, <1>4, <1>5, <1>10 DEF Overwrite, WriteDat, Goto
<1>11. CASE ScanLock(p)
  BY <1>1, <1>4, <1>5, <1>11 DEF ScanLock, files, Goto, OutLabels
<1>12. CASE ScanRecord(p)
  <2>1. pc' = [pc EXCEPT ![p] = "scanrec"] \/ pc' = [pc EXCEPT ![p] = "scandat"]
    BY <1>12 DEF ScanRecord, Goto
  <2>2. \E l \in OutLabels \cup {"unlock"} : pc' = [pc EXCEPT ![p] = l]
    BY <2>1 DEF OutLabels
  <2> QED BY <1>4, <1>12, <2>2 DEF ScanRecord, files
<1>13. CASE ScanEof(p)
  BY <1>1, <1>4, <1>5, <1>13 DEF ScanEof, files, Goto, OutLabels
<1>14. CASE ScanData(p)
  BY <1>1, <1>4, <1>5, <1>14 DEF ScanData, files, Goto, OutLabels
<1>15. CASE ScanUnlock(p)
  BY <1>1, <1>4, <1>15 DEF ScanUnlock, files, Goto, OutLabels
<1> QED BY <1>3, <1>6, <1>7, <1>8, <1>9, <1>10, <1>11, <1>12, <1>13, <1>14, <1>15 DEF Begin, ScanStep

\* Labels of db_store at which it knows that the key is missing, and the chain head.
PlainLabels == {"freelock", "freeptr", "datlock", "datseek", "datwrite", "datunlock",
                "idxlock", "idxseek", "idxwrite"}

LEMMA PlainLists ==
  ASSUME NEW p \in Proc, NEW l \in PlainLabels, NEW h, LockInv, FileInv,
         NEW own, NEW nx, NEW rank, ListInv(own, nx, rank),
         pc' = [pc EXCEPT ![p] = l], db' = [db EXCEPT ![p] = h], call' = call,
         ptr' = ptr, rec' = rec, idxsize' = idxsize, pc[p] \in MissLabels, ~Torn(p),
         h.head = nx[chainoff(p)]
  PROVE  ListInv(own, nx, rank)'
<1>1. pc'[p] = l /\ db'[p] = h /\ chainoff(p)' = chainoff(p)
  BY DEF LockInv, LockType, FileInv, HandleType, chainoff
<1>2. \A o \in Records : own[o] = chainoff(p) => rec[o].key # call[p].key
  BY DEF ListInv, Place, FindPlace
<1>3. FindPlace(p, own, nx, rank)'
  BY <1>1, <1>2 DEF FindPlace, FoundLabels, PlainLabels
<1>4. DeletePlace(p, own, nx)'
  BY <1>1 DEF DeletePlace, PlainLabels, Torn
<1>5. StorePlace(p, own, nx)'
  BY <1>1 DEF StorePlace, PlainLabels, TakenLabels, NewLabels, HoldLabels
<1>6. l \notin HoldLabels /\ l \notin {"delhead", "delunlink"}
  BY DEF PlainLabels, HoldLabels, TakenLabels, NewLabels
<1> QED BY <1>3, <1>4, <1>5, <1>6, LookLists DEF Place

LEMMA StoreLookLists ==
  ASSUME NEW p \in Proc, LockInv, FileInv, NEW own, NEW nx, NEW rank, ListInv(own, nx, rank),
         \/ ReadHead(p) \/ FreeLock(p) \/ (FreeUnlock(p) /\ pc[p] = "freerec")
         \/ DatLock(p) \/ DatSeek(p) \/ DatAppend(p) \/ DatUnlock(p) \/ IdxLock(p) \/ IdxSeek(p)
  PROVE  ListInv(own, nx, rank)'
<1>1. /\ db \in [Proc -> Handles] /\ pc \in [Proc -> Labels] /\ db[p] \in Handles
      /\ Place(p, own, nx, rank) /\ Shape(own, nx, rank)
  BY DEF FileInv, HandleType, LockInv, LockType, ListInv
<1>2. pc[p] \in {"readhead", "freelock", "freerec", "datlock", "datseek", "datwrite", "datunlock", "idxlock", "idxseek"}
  BY DEF ReadHead, FreeLock, FreeUnlock, DatLock, DatSeek, DatAppend, DatUnlock, IdxLock, IdxSeek
<1>3. pc[p] \in MissLabels /\ ~Torn(p) /\ InChain(p) /\ (pc[p] # "readhead" => pc[p] \in HeadLabels)
  BY <1>2 DEF MissLabels, HeadLabels, StoreLabels, Torn, InChain, OutLabels
<1>4. pc[p] # "readhead" => db[p].head = nx[chainoff(p)]
  BY <1>1, <1>3 DEF Place, StorePlace
<1>5. ASSUME NEW l \in PlainLabels, NEW h, pc' = [pc EXCEPT ![p] = l], db' = [db EXCEPT ![p] = h],
             call' = call, ptr' = ptr, rec' = rec, idxsize' = idxsize, h.head = nx[chainoff(p)]
      PROVE  ListInv(own, nx, rank)'
  BY <1>3, <1>5, PlainLists
<1>6. db = [db EXCEPT ![p] = db[p]]
  BY <1>1
<1>7. CASE ReadHead(p)
  <2> DEFINE h == [db[p] EXCEPT !.head = ptr[chainoff(p)]]
  <2>1. chainoff(p) \in Offsets /\ own[chainoff(p)] = chainoff(p)
    BY <1>1, <1>3, InKeys, Places DEF Shape
  <2>2. ptr[chainoff(p)] = nx[chainoff(p)]
    BY <1>3, <2>1, ChainReal
  <2>3. h.head = nx[chainoff(p)]
    BY <1>1, <2>2 DEF Handles
  <2>4. db' = [db EXCEPT ![p] = h] /\ call' = call /\ ptr' = ptr /\ rec' = rec /\ idxsize' = idxsize
    BY <1>7 DEF ReadHead, ReadPtr, files
  <2>5. pc' = [pc EXCEPT ![p] = "datlock"] \/ pc' = [pc EXCEPT ![p] = "freelock"]
    BY <1>7 DEF ReadHead, Goto
  <2>6. \E l \in PlainLabels : pc' = [pc EXCEPT ![p] = l]
    BY <2>5 DEF PlainLabels
  <2> HIDE DEF h
  <2> QED BY <1>5, <2>3, <2>4, <2>6
<1>8. CASE FreeLock(p)
  BY <1>2, <1>4, <1>5, <1>6, <1>8 DEF FreeLock, files, Goto, PlainLabels
<1>9. CASE FreeUnlock(p) /\ pc[p] = "freerec"
  <2>1. /\ pc' = [pc EXCEPT ![p] = "datlock"] /\ db' = db
        /\ call' = call /\ ptr' = ptr /\ rec' = rec /\ idxsize' = idxsize
    BY <1>9 DEF FreeUnlock, files, Goto
  <2> QED BY <1>4, <1>5, <1>6, <1>9, <2>1 DEF PlainLabels
<1>10. CASE DatLock(p)
  BY <1>2, <1>4, <1>5, <1>6, <1>10 DEF DatLock, files, Goto, PlainLabels
<1>11. CASE DatSeek(p)
  <2> DEFINE h == [db[p] EXCEPT !.datoff = datsize, !.datlen = DatLen[call[p].data]]
  <2>1. db' = [db EXCEPT ![p] = h] /\ h.head = db[p].head
    BY <1>1, <1>11 DEF DatSeek, Handles
  <2> HIDE DEF h
  <2> QED BY <1>2, <1>4, <1>5, <1>11, <2>1 DEF DatSeek, files, Goto, PlainLabels
<1>12. CASE DatAppend(p)
  BY <1>2, <1>4, <1>5, <1>6, <1>12 DEF DatAppend, WriteDat, Goto, PlainLabels
<1>13. CASE DatUnlock(p)
  BY <1>2, <1>4, <1>5, <1>6, <1>13 DEF DatUnlock, files, Goto, PlainLabels
<1>14. CASE IdxLock(p)
  BY <1>2, <1>4, <1>5, <1>6, <1>14 DEF IdxLock, files, Goto, PlainLabels
<1>15. CASE IdxSeek(p)
  <2> DEFINE h == [db[p] EXCEPT !.idxoff = idxsize]
  <2>1. db' = [db EXCEPT ![p] = h] /\ h.head = db[p].head
    BY <1>1, <1>15 DEF IdxSeek, Handles
  <2> HIDE DEF h
  <2> QED BY <1>2, <1>4, <1>5, <1>15, <2>1 DEF IdxSeek, files, Goto, PlainLabels
<1> QED BY <1>7, <1>8, <1>9, <1>10, <1>11, <1>12, <1>13, <1>14, <1>15

\* The end of a call by err_dump or err_quit inside db_store.
LEMMA StoreExitLists ==
  ASSUME NEW p \in Proc, LockInv, FileInv, NEW own, NEW nx, NEW rank, ListInv(own, nx, rank),
         DatFull(p) \/ IdxFull(p) \/ LinkRefused(p)
  PROVE  ListInv(own, nx, rank)'
BY ExitLists DEF DatFull, IdxFull, LinkRefused, Torn

\* _db_dodelete and _db_findfree as far as they only read the index file.
LEMMA DeleteLookLists ==
  ASSUME NEW p \in Proc, LockInv, FileInv, NEW own, NEW nx, NEW rank, ListInv(own, nx, rank),
         DelLock(p) \/ DelBlank(p) \/ DelFree(p) \/ DelUnlock(p)
  PROVE  ListInv(own, nx, rank)'
<1>1. /\ db \in [Proc -> Handles] /\ pc \in [Proc -> Labels] /\ db[p] \in Handles
      /\ Place(p, own, nx, rank) /\ Shape(own, nx, rank)
  BY DEF FileInv, HandleType, LockInv, LockType, ListInv
<1>2. /\ call' = call /\ ptr' = ptr /\ rec' = rec /\ idxsize' = idxsize /\ ~Torn(p)
      /\ \A q \in Proc \ {p} : call'[q] = call[q] /\ chainoff(p)' = chainoff(p)
  BY DEF DelLock, DelBlank, DelFree, DelUnlock, WriteDat, ReadPtr, files, Torn, chainoff
<1>3. chainoff(p)' = chainoff(p) /\ db = [db EXCEPT ![p] = db[p]]
  BY <1>1, <1>2 DEF chainoff
<1>4. CASE DelUnlock(p)
  <2>1. pc' = [pc EXCEPT ![p] = "unlock"] \/ pc' = [pc EXCEPT ![p] = "readhead"]
    BY <1>4 DEF DelUnlock, Goto
  <2>2. pc'[p] \in {"unlock", "readhead"} /\ db' = [db EXCEPT ![p] = db[p]]
        /\ pc' = [pc EXCEPT ![p] = pc'[p]] /\ pc[p] = "delunlock"
    BY <1>1, <1>3, <1>4, <2>1 DEF DelUnlock
  <2>3. \A o \in Records : own[o] = chainoff(p) => rec[o].key # call[p].key
    BY <1>1, <2>2 DEF Place, FindPlace, MissLabels
  <2>4. FindPlace(p, own, nx, rank)'
    BY <1>2, <1>3, <2>2, <2>3 DEF FindPlace, FoundLabels, MissLabels, StoreLabels
  <2>5. DeletePlace(p, own, nx)' /\ StorePlace(p, own, nx)'
    BY <2>2 DEF DeletePlace, StorePlace, HeadLabels, TakenLabels, NewLabels, HoldLabels, StoreLabels, Torn
  <2>6. pc'[p] \notin HoldLabels /\ pc'[p] \notin {"delhead", "delunlink"}
    BY <2>2 DEF HoldLabels, TakenLabels, NewLabels
  <2> QED BY <1>2, <2>2, <2>4, <2>5, <2>6, LookLists DEF Place
<1>5. CASE DelLock(p) \/ DelBlank(p) \/ DelFree(p)
  <2>1. pc[p] \in {"dellock", "delblank", "delfree"} /\ pc[p] \in FoundLabels
    BY <1>5 DEF DelLock, DelBlank, DelFree, FoundLabels
  <2>2. /\ own[db[p].ptroff] = chainoff(p) /\ nx[db[p].ptroff] = db[p].idxoff
        /\ db[p].ptrval = nx[db[p].idxoff] /\ rec[db[p].idxoff].key = call[p].key
    BY <1>1, <2>1 DEF Place, FindPlace
  <2>3. FREE_OFF \in Offsets /\ own[FREE_OFF] = FREE_OFF
    BY <1>1, Places DEF Shape
  <2>4. ptr[FREE_OFF] = nx[FREE_OFF]
    BY <2>3, FreeReal
  <2>5. \E l \in {"delblank", "delfree", "delidx"} : pc' = [pc EXCEPT ![p] = l]
    BY <1>5 DEF DelLock, DelBlank, DelFree, Goto
  <2>6. pc'[p] \in {"delblank", "delfree", "delidx"} /\ pc' = [pc EXCEPT ![p] = pc'[p]]
    BY <1>1, <2>5
  <2>7. \E h : /\ db' = [db EXCEPT ![p] = h] /\ db'[p] = h
               /\ h.ptroff = db[p].ptroff /\ h.idxoff = db[p].idxoff /\ h.ptrval = db[p].ptrval
               /\ pc'[p] = "delidx" => h.save = h.ptrval /\ h.head = nx[FREE_OFF]
    <3>1. CASE DelFree(p)
      <4> DEFINE h == [db[p] EXCEPT !.head = ptr[FREE_OFF], !.save = db[p].ptrval]
      <4>1. db' = [db EXCEPT ![p] = h] /\ db'[p] = h
        BY <1>1, <3>1 DEF DelFree
      <4>2. /\ h.ptroff = db[p].ptroff /\ h.idxoff = db[p].idxoff /\ h.ptrval = db[p].ptrval
            /\ h.save = h.ptrval /\ h.head = nx[FREE_OFF]
        BY <1>1, <2>4 DEF Handles
      <4> HIDE DEF h
      <4> QED BY <4>1, <4>2
    <3>2. CASE DelLock(p) \/ DelBlank(p)
      <4>1. pc'[p] # "delidx" /\ db' = db
        BY <1>1, <3>2 DEF DelLock, DelBlank, Goto
      <4> QED BY <1>3, <4>1
    <3> QED BY <1>5, <3>1, <3>2
  <2>8. PICK h : /\ db' = [db EXCEPT ![p] = h] /\ db'[p] = h
                 /\ h.ptroff = db[p].ptroff /\ h.idxoff = db[p].idxoff /\ h.ptrval = db[p].ptrval
                 /\ pc'[p] = "delidx" => h.save = h.ptrval /\ h.head = nx[FREE_OFF]
    BY <2>7
  <2>9. FindPlace(p, own, nx, rank)'
    BY <1>2, <1>3, <2>2, <2>6, <2>8 DEF FindPlace, FoundLabels, MissLabels, StoreLabels
  <2>10. DeletePlace(p, own, nx)'
    BY <2>6, <2>8 DEF DeletePlace, Torn
  <2>11. StorePlace(p, own, nx)'
    BY <2>6 DEF StorePlace, HeadLabels, TakenLabels, NewLabels, HoldLabels, StoreLabels
  <2>12. pc'[p] \notin HoldLabels /\ pc'[p] \notin {"delhead", "delunlink"}
    BY <2>6 DEF HoldLabels, TakenLabels, NewLabels
  <2> QED BY <1>2, <2>6, <2>8, <2>9, <2>10, <2>11, <2>12, LookLists DEF Place
<1> QED BY <1>4, <1>5

LEMMA FreeLookLists ==
  ASSUME NEW p \in Proc, LockInv, FileInv, NEW own, NEW nx, NEW rank, ListInv(own, nx, rank),
         FreePtr(p) \/ FreeNext(p) \/ FreeFound(p)
  PROVE  ListInv(own, nx, rank)'
<1>1. /\ db \in [Proc -> Handles] /\ pc \in [Proc -> Labels] /\ db[p] \in Handles
      /\ Place(p, own, nx, rank) /\ Shape(own, nx, rank)
  BY DEF FileInv, HandleType, LockInv, LockType, ListInv
<1>2. /\ call' = call /\ ptr' = ptr /\ rec' = rec /\ idxsize' = idxsize /\ ~Torn(p)
      /\ \A q \in Proc \ {p} : call'[q] = call[q]
  BY DEF FreePtr, FreeNext, FreeFound, ReadPtr, files, Torn
<1>3. chainoff(p)' = chainoff(p)
  BY <1>2 DEF chainoff
<1>4. pc[p] \in {"freeptr", "freerec"} /\ pc[p] \in MissLabels /\ pc[p] \in HeadLabels
  BY DEF FreePtr, FreeNext, FreeFound, MissLabels, HeadLabels, StoreLabels
<1>5. db[p].head = nx[chainoff(p)] /\ \A o \in Records : own[o] = chainoff(p) => rec[o].key # call[p].key
  BY <1>1, <1>4 DEF Place, FindPlace, StorePlace
<1>6. FREE_OFF \in Offsets /\ own[FREE_OFF] = FREE_OFF /\ FREE_OFF \in 0 .. NHash
  BY <1>1, Places DEF Shape
<1>7. pc[p] = "freerec" => own[db[p].save] = FREE_OFF /\ nx[db[p].save] = db[p].offset
  BY <1>1 DEF Place, StorePlace
<1>8. ASSUME NEW l \in {"freerec", "freetake"}, NEW h, pc' = [pc EXCEPT ![p] = l], db' = [db EXCEPT ![p] = h],
             h.head = db[p].head, own[h.save] = FREE_OFF, nx[h.save] = h.offset,
             l = "freetake" => h.offset = h.idxoff /\ h.ptrval = nx[h.idxoff]
      PROVE  ListInv(own, nx, rank)'
  <2>1. pc'[p] = l /\ db'[p] = h
    BY <1>1, <1>8
  <2>2. FindPlace(p, own, nx, rank)'
    BY <1>2, <1>3, <1>5, <2>1 DEF FindPlace, FoundLabels
  <2>3. DeletePlace(p, own, nx)'
    BY <2>1 DEF DeletePlace, Torn
  <2>4. StorePlace(p, own, nx)'
    BY <1>3, <1>5, <1>8, <2>1 DEF StorePlace, TakenLabels, NewLabels, HoldLabels
  <2>5. l \notin HoldLabels /\ l \notin {"delhead", "delunlink"}
    BY DEF HoldLabels, TakenLabels, NewLabels
  <2> QED BY <1>2, <1>8, <2>2, <2>3, <2>4, <2>5, LookLists DEF Place
<1>9. CASE FreePtr(p)
  <2> DEFINE h == [db[p] EXCEPT !.offset = ptr[FREE_OFF], !.save = FREE_OFF]
  <2>1. pc' = [pc EXCEPT ![p] = "freerec"] /\ db' = [db EXCEPT ![p] = h]
    BY <1>9 DEF FreePtr, Goto
  <2>2. ptr[FREE_OFF] = nx[FREE_OFF]
    BY <1>6, FreeReal
  <2>3. h.head = db[p].head /\ h.save = FREE_OFF /\ h.offset = nx[FREE_OFF]
    BY <1>1, <2>2 DEF Handles
  <2>4. own[h.save] = FREE_OFF /\ nx[h.save] = h.offset
    BY <1>6, <2>3
  <2> HIDE DEF h
  <2> QED BY <1>8, <2>1, <2>3, <2>4
<1>10. CASE FreeNext(p) \/ FreeFound(p)
  <2>1. pc[p] = "freerec" /\ db[p].offset # 0 /\ db[p].save \in Offsets /\ db[p].offset \in Offsets
    BY <1>1, <1>10 DEF FreeNext, FreeFound, Handles
  <2>2. own[db[p].save] = FREE_OFF /\ nx[db[p].save] = db[p].offset
    BY <1>7, <2>1
  <2>3. Shape(own, nx, rank) /\ FREE_OFF \in 0 .. NHash
    BY <1>1, <1>6
  <2>4. own[db[p].offset] = FREE_OFF
    BY <2>1, <2>2, <2>3, FollowingOne
  <2>5. ptr[db[p].offset] = nx[db[p].offset]
    BY <2>1, <2>4, FreeReal
  <2>6. CASE FreeNext(p)
    <3> DEFINE h == [ReadIdx(p, db[p].offset) EXCEPT !.save = db[p].offset, !.offset = ptr[db[p].offset]]
    <3>1. db' = [db EXCEPT ![p] = h] /\ pc' = [pc EXCEPT ![p] = "freerec"]
      BY <1>1, <2>1, <2>6 DEF FreeNext
    <3>2. h.head = db[p].head /\ h.save = db[p].offset /\ h.offset = nx[db[p].offset]
      BY <1>1, <2>5 DEF ReadIdx, Handles
    <3> HIDE DEF h
    <3>3. own[h.save] = FREE_OFF /\ nx[h.save] = h.offset
      BY <2>4, <3>2
    <3> QED BY <1>8, <3>1, <3>2, <3>3
  <2>7. CASE FreeFound(p)
    <3> DEFINE h == ReadIdx(p, db[p].offset)
    <3>1. db' = [db EXCEPT ![p] = h] /\ pc' = [pc EXCEPT ![p] = "freetake"]
      BY <2>7 DEF FreeFound, Goto
    <3>2. /\ h.head = db[p].head /\ h.save = db[p].save /\ h.offset = db[p].offset
          /\ h.idxoff = db[p].offset /\ h.ptrval = nx[db[p].offset]
      BY <1>1, <2>5 DEF ReadIdx, Handles
    <3> HIDE DEF h
    <3>3. /\ own[h.save] = FREE_OFF /\ nx[h.save] = h.offset
          /\ h.offset = h.idxoff /\ h.ptrval = nx[h.idxoff]
      BY <2>2, <3>2
    <3> QED BY <1>8, <3>1, <3>2, <3>3
  <2> QED BY <1>10, <2>6, <2>7
<1> QED BY <1>9, <1>10

\* Steps of db_store with a record it has taken or appended.
LEMMA HoldLookLists ==
  ASSUME NEW p \in Proc, LockInv, FileInv, NEW own, NEW nx, NEW rank, ListInv(own, nx, rank),
         (FreeUnlock(p) /\ pc[p] = "freeunlock") \/ Reuse(p) \/ IdxUnlock(p)
  PROVE  ListInv(own, nx, rank)'
<1>1. /\ db \in [Proc -> Handles] /\ pc \in [Proc -> Labels] /\ db[p] \in Handles
      /\ Place(p, own, nx, rank)
  BY DEF FileInv, HandleType, LockInv, LockType, ListInv
<1>2. /\ call' = call /\ ptr' = ptr /\ rec' = rec /\ idxsize' = idxsize /\ ~Torn(p) /\ db' = db
      /\ \A q \in Proc \ {p} : call'[q] = call[q]
  BY DEF FreeUnlock, Reuse, IdxUnlock, WriteDat, files, Torn
<1>3. chainoff(p)' = chainoff(p) /\ db' = [db EXCEPT ![p] = db[p]]
  BY <1>1, <1>2 DEF chainoff
<1>4. pc[p] = "freeunlock" => db[p].offset # 0
  BY <1>1 DEF Place, StorePlace
<1>5. \/ pc[p] = "freeunlock" /\ pc' = [pc EXCEPT ![p] = "reuse"]
      \/ pc[p] = "reuse" /\ pc' = [pc EXCEPT ![p] = "idxrewrite"]
      \/ pc[p] = "idxunlock" /\ pc' = [pc EXCEPT ![p] = "link"]
  BY <1>4 DEF FreeUnlock, Reuse, IdxUnlock, Goto
<1>6. /\ pc[p] \in HoldLabels /\ pc[p] \in MissLabels /\ pc[p] \in HeadLabels
      /\ pc[p] \in TakenLabels \/ pc[p] = "idxunlock"
  BY <1>5 DEF HoldLabels, TakenLabels, NewLabels, MissLabels, HeadLabels, StoreLabels
<1>7. /\ pc' = [pc EXCEPT ![p] = pc'[p]]
      /\ \/ pc[p] \in TakenLabels /\ pc'[p] \in {"reuse", "idxrewrite"}
         \/ pc[p] \in NewLabels /\ pc'[p] = "link"
  BY <1>1, <1>5 DEF TakenLabels, NewLabels
<1>8. FindPlace(p, own, nx, rank)'
  BY <1>1, <1>2, <1>3, <1>6, <1>7 DEF Place, FindPlace, FoundLabels
<1>9. DeletePlace(p, own, nx)'
  BY <1>7 DEF DeletePlace, Torn
<1>10. StorePlace(p, own, nx)'
  BY <1>1, <1>2, <1>3, <1>6, <1>7 DEF Place, StorePlace, TakenLabels, NewLabels
<1>11. pc'[p] \notin {"delhead", "delunlink"}
  BY <1>7
<1> QED BY <1>2, <1>3, <1>6, <1>7, <1>8, <1>9, <1>10, <1>11, LookLists DEF Place

-----------------------------------------------------------------------------
(* Steps that change lists.  A process that is not at work on a list that   *)
(* changes, and holds a record that does not, notices nothing.              *)

Same(a, own, nx, rank, own2, nx2, rank2) ==
  \A o \in Offsets :
    /\ own2[o] = a <=> own[o] = a
    /\ own[o] = a => /\ nx2[o] = nx[o] /\ rank2[o] = rank[o] /\ ptr'[o] = ptr[o]
                     /\ o \in Records => rec'[o] = rec[o]

Spared(q, own, nx, rank, own2, nx2, rank2) ==
  /\ pc'[q] = pc[q] /\ db'[q] = db[q] /\ call'[q] = call[q]
  /\ InChain(q) => Same(chainoff(q), own, nx, rank, own2, nx2, rank2)
  /\ ChangesFree(q) => Same(FREE_OFF, own, nx, rank, own2, nx2, rank2)
  /\ pc[q] \in HoldLabels => /\ own2[db[q].idxoff] = NoList
                             /\ rec'[db[q].idxoff] = rec[db[q].idxoff]
                             /\ ptr'[db[q].idxoff] = ptr[db[q].idxoff]

LEMMA SparedPlace ==
  ASSUME NEW q \in Proc, LockInv, FileInv,
         NEW own, NEW nx, NEW rank, NEW own2, NEW nx2, NEW rank2,
         Shape(own, nx, rank), Place(q, own, nx, rank), Spared(q, own, nx, rank, own2, nx2, rank2)
  PROVE  Place(q, own2, nx2, rank2)'
<1>1. /\ pc'[q] = pc[q] /\ db'[q] = db[q] /\ call'[q] = call[q] /\ chainoff(q)' = chainoff(q)
      /\ db[q] \in Handles /\ db[q].ptroff \in Offsets /\ db[q].save \in Offsets
  BY DEF Spared, chainoff, FileInv, HandleType, Handles
<1>2. pc[q] \in RecordLabels => db[q].idxoff \in Records /\ db[q].idxoff \in Offsets /\ db[q].idxoff # 0
  BY WrittenOffsets, Places DEF FileInv, HandleOK
<1>3. FindPlace(q, own2, nx2, rank2)'
  <2>1. FindPlace(q, own, nx, rank)
    BY DEF Place
  <2>2. CASE ~InChain(q)
    BY <1>1, <2>2 DEF InChain, OutLabels, FindPlace, FoundLabels, MissLabels, StoreLabels
  <2>3. CASE InChain(q)
    <3>1. Same(chainoff(q), own, nx, rank, own2, nx2, rank2) /\ chainoff(q) \in 0 .. NHash
      BY <2>3, InKeys DEF Spared
    <3>2. pc[q] = "findrec" =>
            /\ own2[db[q].ptroff] = chainoff(q) /\ nx2[db[q].ptroff] = db[q].offset
            /\ \A o \in Records : own2[o] = chainoff(q) /\ rec'[o].key = call[q].key
                               => rank2[o] < rank2[db[q].ptroff]
      <4> SUFFICES ASSUME pc[q] = "findrec"
                   PROVE  /\ own2[db[q].ptroff] = chainoff(q) /\ nx2[db[q].ptroff] = db[q].offset
                          /\ \A o \in Records : own2[o] = chainoff(q) /\ rec'[o].key = call[q].key
                                                => rank2[o] < rank2[db[q].ptroff]
        OBVIOUS
      <4>1. /\ own[db[q].ptroff] = chainoff(q) /\ nx[db[q].ptroff] = db[q].offset
            /\ \A o \in Records : own[o] = chainoff(q) /\ rec[o].key = call[q].key
                                  => rank[o] < rank[db[q].ptroff]
        BY <2>1 DEF FindPlace
      <4>2. /\ own2[db[q].ptroff] = chainoff(q) /\ nx2[db[q].ptroff] = nx[db[q].ptroff]
            /\ rank2[db[q].ptroff] = rank[db[q].ptroff]
        BY <1>1, <3>1, <4>1 DEF Same
      <4>3. ASSUME NEW o \in Records, own2[o] = chainoff(q)
            PROVE  own[o] = chainoff(q) /\ rec'[o] = rec[o] /\ rank2[o] = rank[o]
        BY <3>1, <4>3, Places DEF Same
      <4> QED BY <4>1, <4>2, <4>3
    <3>3. pc[q] \in FoundLabels =>
            /\ own2[db[q].ptroff] = chainoff(q) /\ nx2[db[q].ptroff] = db[q].idxoff
            /\ db[q].ptrval = nx2[db[q].idxoff] /\ rec'[db[q].idxoff].key = call[q].key
      <4> SUFFICES ASSUME pc[q] \in FoundLabels
                   PROVE  /\ own2[db[q].ptroff] = chainoff(q) /\ nx2[db[q].ptroff] = db[q].idxoff
                          /\ db[q].ptrval = nx2[db[q].idxoff] /\ rec'[db[q].idxoff].key = call[q].key
        OBVIOUS
      <4>1. /\ own[db[q].ptroff] = chainoff(q) /\ nx[db[q].ptroff] = db[q].idxoff
            /\ db[q].ptrval = nx[db[q].idxoff] /\ rec[db[q].idxoff].key = call[q].key
        BY <2>1 DEF FindPlace
      <4>2. db[q].idxoff \in Records /\ db[q].idxoff \in Offsets /\ db[q].idxoff # 0
        BY <1>2 DEF FoundLabels, RecordLabels, DelLabels
      <4>3. own[db[q].idxoff] = chainoff(q)
        BY <1>1, <3>1, <4>1, <4>2, FollowingOne
      <4> QED BY <1>1, <3>1, <4>1, <4>2, <4>3 DEF Same
    <3>4. pc[q] \in MissLabels => \A o \in Records : own2[o] = chainoff(q) => rec'[o].key # call[q].key
      <4>1. ASSUME NEW o \in Records, own2[o] = chainoff(q)
            PROVE  own[o] = chainoff(q) /\ rec'[o] = rec[o]
        BY <3>1, <4>1, Places DEF Same
      <4>2. pc[q] \in MissLabels => \A o \in Records : own[o] = chainoff(q) => rec[o].key # call[q].key
        BY <2>1 DEF FindPlace
      <4> QED BY <4>1, <4>2
    <3> QED BY <1>1, <2>1, <3>2, <3>3, <3>4 DEF FindPlace
  <2> QED BY <2>2, <2>3
<1>4. FREE_OFF \in Offsets /\ own[FREE_OFF] = FREE_OFF
  BY Places DEF Shape
<1>5. DeletePlace(q, own2, nx2)'
  <2>1. DeletePlace(q, own, nx)
    BY DEF Place
  <2>2. CASE ~ChangesFree(q)
    BY <1>1, <2>2 DEF ChangesFree, FreeLabels, DeletePlace, Torn
  <2>3. CASE ChangesFree(q)
    <3>1. InChain(q)
      BY <2>3 DEF ChangesFree, FreeLabels, InChain, OutLabels
    <3>2. Same(chainoff(q), own, nx, rank, own2, nx2, rank2)
      BY <3>1 DEF Spared
    <3>3. nx2[FREE_OFF] = nx[FREE_OFF]
      BY <1>4, <2>3 DEF Spared, Same
    <3>4. Torn(q) => own2[db[q].ptroff] = chainoff(q) /\ nx2[db[q].ptroff] = db[q].save
                     /\ ptr'[db[q].ptroff] = db[q].idxoff
      BY <1>1, <2>1, <3>2 DEF DeletePlace, Same
    <3>5. pc[q] = "delhead" => ptr'[db[q].idxoff] = db[q].head /\ rec'[db[q].idxoff].key = Blank
      BY <2>1 DEF DeletePlace, Spared, HoldLabels
    <3> QED BY <1>1, <2>1, <3>3, <3>4, <3>5 DEF DeletePlace, Torn
  <2> QED BY <2>2, <2>3
<1>6. StorePlace(q, own2, nx2)'
  <2>1. StorePlace(q, own, nx)
    BY DEF Place
  <2>2. pc[q] \in HeadLabels => db[q].head = nx2[chainoff(q)]
    <3> SUFFICES ASSUME pc[q] \in HeadLabels PROVE db[q].head = nx2[chainoff(q)]
      OBVIOUS
    <3>1. InChain(q)
      BY DEF HeadLabels, StoreLabels, InChain, OutLabels
    <3>2. chainoff(q) \in Offsets /\ own[chainoff(q)] = chainoff(q)
      BY <3>1, InKeys, Places DEF Shape
    <3> QED BY <2>1, <3>1, <3>2 DEF StorePlace, Spared, Same
  <2>3. pc[q] \in {"freerec", "freetake"} =>
          own2[db[q].save] = FREE_OFF /\ nx2[db[q].save] = db[q].offset
    BY <1>1, <2>1 DEF StorePlace, Spared, Same, ChangesFree, FreeLabels
  <2>4. pc[q] = "freetake" => db[q].offset = db[q].idxoff /\ db[q].ptrval = nx2[db[q].idxoff]
    <3> SUFFICES ASSUME pc[q] = "freetake" PROVE db[q].offset = db[q].idxoff /\ db[q].ptrval = nx2[db[q].idxoff]
      OBVIOUS
    <3>1. /\ own[db[q].save] = FREE_OFF /\ nx[db[q].save] = db[q].idxoff
          /\ db[q].offset = db[q].idxoff /\ db[q].ptrval = nx[db[q].idxoff]
      BY <2>1 DEF StorePlace
    <3>2. db[q].idxoff \in Offsets /\ db[q].idxoff # 0
      BY <1>2 DEF RecordLabels
    <3>3. own[db[q].idxoff] = FREE_OFF
      <4>1. FREE_OFF \in 0 .. NHash
        BY Places
      <4> QED BY <1>1, <3>1, <3>2, <4>1, FollowingOne
    <3> QED BY <3>1, <3>2, <3>3 DEF Spared, Same, ChangesFree, FreeLabels
  <2>5. pc[q] \in HoldLabels => /\ own2[db[q].idxoff] = NoList
                                /\ rec'[db[q].idxoff] = rec[db[q].idxoff]
                                /\ ptr'[db[q].idxoff] = ptr[db[q].idxoff]
    BY DEF Spared
  <2>6. pc[q] \in TakenLabels \cup NewLabels => pc[q] \in HoldLabels
    BY DEF HoldLabels
  <2> QED BY <1>1, <2>1, <2>2, <2>3, <2>4, <2>5, <2>6 DEF StorePlace
<1> QED BY <1>3, <1>5, <1>6 DEF Place

\* The record that a process holds.
LEMMA HoldRecord ==
  ASSUME NEW q \in Proc, FileInv, pc[q] \in HoldLabels
  PROVE  db[q].idxoff \in Written /\ db[q].idxoff \in Records /\ db[q].idxoff \in Offsets
<1>1. pc[q] \in RecordLabels
  BY DEF HoldLabels, TakenLabels, NewLabels, RecordLabels, DelLabels
<1>2. db[q].idxoff \in Written
  BY <1>1 DEF FileInv, HandleOK
<1> QED BY <1>2, WrittenOffsets DEF FileInv

\* A step of p with its record r and the pointer at y, both on the list a or on none.
Change(p, l, h, r, y, a) ==
  /\ r \in Offsets /\ y \in Offsets /\ a \in 0 .. NHash
  /\ pc' = [pc EXCEPT ![p] = l] /\ db' = [db EXCEPT ![p] = h] /\ call' = call
  /\ InChain(p) /\ call[p].op # "fetch"
  /\ a = chainoff(p) \/ (a = FREE_OFF /\ ChangesFree(p))
  /\ Written \subseteq Written'
  /\ \A o \in Offsets \ {r, y} : ptr'[o] = ptr[o]
  /\ \A o \in Records \ {r} : rec'[o] = rec[o]
  /\ \A q \in Proc \ {p} : pc[q] \in HoldLabels =>
       db[q].idxoff \notin {r, y} /\ (l \in HoldLabels => db[q].idxoff # h.idxoff)
  /\ Torn(p) => db[p].ptroff \in {r, y} \/ (l = "delunlink" /\ h.ptroff = db[p].ptroff)

\* How the lists differ after it.
ListChange(r, y, a, own, nx, rank, own2, nx2, rank2) ==
  /\ \A o \in Offsets \ {r, y} : own2[o] = own[o] /\ nx2[o] = nx[o] /\ rank2[o] = rank[o]
  /\ {own[r], own[y], own2[r], own2[y]} \subseteq {NoList, a}
  /\ y = r \/ own2[y] = own[y]

\* What the file has of r and y after it.
FileChange(l, h, r, y, own, own2, nx2) ==
  /\ \A o \in {r, y} : own2[o] # NoList =>
       ptr'[o] = nx2[o] \/ (l \in {"delhead", "delunlink"} /\ h.ptroff = o)
  /\ r \in Records /\ own2[r] # NoList =>
       /\ r \in Written'
       /\ \/ own2[r] = own[r] /\ rec'[r] = rec[r]
          \/ own2[r] = FREE_OFF /\ rec'[r].key = Blank
          \/ /\ own2[r] \in Chains /\ rec'[r].key \in Keys /\ Hash[rec'[r].key] = own2[r]
             /\ \A o \in Records : own[o] = own2[r] => rec[o].key # rec'[r].key

LEMMA ChangeSpares ==
  ASSUME NEW p \in Proc, NEW l, NEW h, NEW r, NEW y, NEW a, LockInv, FileInv,
         NEW own, NEW nx, NEW rank, NEW own2, NEW nx2, NEW rank2, ListInv(own, nx, rank),
         Change(p, l, h, r, y, a), ListChange(r, y, a, own, nx, rank, own2, nx2, rank2),
         NEW q \in Proc \ {p}
  PROVE  Spared(q, own, nx, rank, own2, nx2, rank2)
<1>1. pc'[q] = pc[q] /\ db'[q] = db[q] /\ call'[q] = call[q]
  BY DEF Change, LockInv, LockType, FileInv, HandleType
<1>2. ASSUME NEW d \in 0 .. NHash, d # a PROVE Same(d, own, nx, rank, own2, nx2, rank2)
  <2>1. d # NoList
    BY Places
  <2>2. own[r] # d /\ own[y] # d /\ own2[r] # d /\ own2[y] # d
    BY <1>2, <2>1 DEF ListChange
  <2> SUFFICES ASSUME NEW o \in Offsets
               PROVE  /\ own2[o] = d <=> own[o] = d
                      /\ own[o] = d => /\ nx2[o] = nx[o] /\ rank2[o] = rank[o] /\ ptr'[o] = ptr[o]
                                       /\ o \in Records => rec'[o] = rec[o]
    BY DEF Same
  <2>3. CASE o \in {r, y}
    BY <2>2, <2>3
  <2>4. CASE o \notin {r, y}
    BY <2>4 DEF Change, ListChange
  <2> QED BY <2>3, <2>4
<1>3. InChain(q) => chainoff(q) \in 0 .. NHash /\ chainoff(q) # a
  <2> SUFFICES ASSUME InChain(q) PROVE chainoff(q) \in 0 .. NHash /\ chainoff(q) # a
    OBVIOUS
  <2>1. chainoff(q) \in 0 .. NHash /\ chainoff(q) # FREE_OFF
    BY InKeys
  <2>2. chainoff(q) # chainoff(p)
    BY LockInvExcludes DEF ChainExclusion, Change
  <2> QED BY <2>1, <2>2 DEF Change
<1>4. ChangesFree(q) => FREE_OFF \in 0 .. NHash /\ FREE_OFF # a
  <2> SUFFICES ASSUME ChangesFree(q) PROVE FREE_OFF # a
    BY Places
  <2>1. ~ChangesFree(p)
    BY LockInvExcludes DEF FreeExclusion
  <2>2. InChain(p) => chainoff(p) # FREE_OFF
    BY InKeys
  <2> QED BY <2>1, <2>2 DEF Change
<1>5. pc[q] \in HoldLabels => /\ own2[db[q].idxoff] = NoList
                              /\ rec'[db[q].idxoff] = rec[db[q].idxoff]
                              /\ ptr'[db[q].idxoff] = ptr[db[q].idxoff]
  <2> SUFFICES ASSUME pc[q] \in HoldLabels
               PROVE  /\ own2[db[q].idxoff] = NoList
                      /\ rec'[db[q].idxoff] = rec[db[q].idxoff]
                      /\ ptr'[db[q].idxoff] = ptr[db[q].idxoff]
    OBVIOUS
  <2>1. db[q].idxoff \in Records /\ db[q].idxoff \in Offsets
    BY HoldRecord
  <2>2. own[db[q].idxoff] = NoList
    BY DEF ListInv, Place, StorePlace
  <2>3. db[q].idxoff \notin {r, y}
    BY DEF Change
  <2> QED BY <2>1, <2>2, <2>3 DEF Change, ListChange
<1> QED BY <1>1, <1>2, <1>3, <1>4, <1>5 DEF Spared

LEMMA ChangeOnFile ==
  ASSUME NEW p \in Proc, NEW l, NEW h, NEW r, NEW y, NEW a, LockInv, FileInv,
         NEW own, NEW nx, NEW rank, NEW own2, NEW nx2, NEW rank2, ListInv(own, nx, rank),
         Change(p, l, h, r, y, a), ListChange(r, y, a, own, nx, rank, own2, nx2, rank2),
         FileChange(l, h, r, y, own, own2, nx2)
  PROVE  OnFile(own2, nx2)'
<1>1. pc'[p] = l /\ db'[p] = h /\ \A q \in Proc \ {p} : pc'[q] = pc[q] /\ db'[q] = db[q]
  BY DEF Change, LockInv, LockType, FileInv, HandleType
<1>2. OnFile(own, nx)
  BY DEF ListInv
<1>3. ASSUME NEW o \in Offsets, own2[o] # NoList, \A q \in Proc : Torn(q)' => db'[q].ptroff # o
      PROVE  ptr'[o] = nx2[o]
  <2>1. CASE o \in {r, y}
    <3>1. l \in {"delhead", "delunlink"} => h.ptroff # o
      BY <1>1, <1>3 DEF Torn
    <3> QED BY <1>3, <2>1, <3>1 DEF FileChange
  <2>2. CASE o \notin {r, y}
    <3>1. own[o] # NoList /\ nx2[o] = nx[o] /\ ptr'[o] = ptr[o]
      BY <1>3, <2>2 DEF ListChange, Change
    <3>2. \A q \in Proc \ {p} : Torn(q) => db[q].ptroff # o
      BY <1>1, <1>3 DEF Torn
    <3>3. Torn(p) => db[p].ptroff # o
      BY <1>1, <1>3, <2>2 DEF Change, Torn
    <3>4. \A q \in Proc : Torn(q) => db[q].ptroff # o
      BY <3>2, <3>3
    <3> QED BY <1>2, <3>1, <3>4 DEF OnFile
  <2> QED BY <2>1, <2>2
<1>4. ASSUME NEW o \in Records, own2[o] # NoList, o # r
      PROVE  own2[o] = own[o] /\ rec'[o] = rec[o]
  <2>1. own2[o] = own[o]
    BY <1>4, Places DEF ListChange
  <2> QED BY <1>4, <2>1 DEF Change
<1>5. \A o \in Records : own2[o] # NoList => o \in Written'
  BY <1>2, <1>4 DEF OnFile, Change, FileChange
<1>6. \A o \in Records : own2[o] = FREE_OFF => rec'[o].key = Blank
  <2> SUFFICES ASSUME NEW o \in Records, own2[o] = FREE_OFF PROVE rec'[o].key = Blank
    OBVIOUS
  <2>1. own2[o] # NoList /\ own2[o] \notin Chains
    BY Places
  <2>2. CASE o # r
    BY <1>2, <1>4, <2>1, <2>2 DEF OnFile
  <2>3. CASE o = r
    BY <1>2, <2>1, <2>3 DEF OnFile, FileChange
  <2> QED BY <2>2, <2>3
<1>7. \A o \in Records : own2[o] \in Chains => rec'[o].key \in Keys /\ Hash[rec'[o].key] = own2[o]
  <2> SUFFICES ASSUME NEW o \in Records, own2[o] \in Chains
               PROVE  rec'[o].key \in Keys /\ Hash[rec'[o].key] = own2[o]
    OBVIOUS
  <2>1. own2[o] # NoList /\ own2[o] # FREE_OFF
    BY Places
  <2>2. CASE o # r
    BY <1>2, <1>4, <2>1, <2>2 DEF OnFile
  <2>3. CASE o = r
    BY <1>2, <2>1, <2>3 DEF OnFile, FileChange
  <2> QED BY <2>2, <2>3
<1>8. ASSUME NEW o \in Records, NEW q \in Records, own2[o] \in Chains, own2[q] = own2[o],
             rec'[q].key = rec'[o].key
      PROVE  q = o
  <2>1. own2[o] # NoList /\ own2[o] # FREE_OFF
    BY <1>8, Places
  <2>2. ASSUME NEW x \in Records, NEW z \in Records, x # r, own2[x] = own2[o], own2[z] = own2[o],
               rec'[z].key = rec'[x].key
        PROVE  z = x
    <3>1. own2[x] = own[x] /\ rec'[x] = rec[x]
      BY <1>4, <2>1, <2>2
    <3>2. CASE own2[z] = own[z] /\ rec'[z] = rec[z]
      <4>1. \A s, k \in Records : own[s] \in Chains /\ own[k] = own[s] /\ rec[k].key = rec[s].key => k = s
        BY <1>2 DEF OnFile
      <4> QED BY <1>8, <2>2, <3>1, <3>2, <4>1
    <3>3. CASE z = r /\ \A k \in Records : own[k] = own2[r] => rec[k].key # rec'[r].key
      BY <2>2, <3>1, <3>3
    <3>4. z # r => own2[z] = own[z] /\ rec'[z] = rec[z]
      BY <1>4, <2>1, <2>2
    <3> QED BY <2>1, <2>2, <3>2, <3>3, <3>4 DEF FileChange
  <2> QED BY <1>8, <2>2
<1> QED BY <1>3, <1>5, <1>6, <1>7, <1>8 DEF OnFile

LEMMA ChangeLists ==
  ASSUME NEW p \in Proc, NEW l, NEW h, NEW r, NEW y, NEW a, LockInv, FileInv,
         NEW own, NEW nx, NEW rank, NEW own2, NEW nx2, NEW rank2, ListInv(own, nx, rank),
         Change(p, l, h, r, y, a), ListChange(r, y, a, own, nx, rank, own2, nx2, rank2),
         FileChange(l, h, r, y, own, own2, nx2),
         Shape(own2, nx2, rank2), Place(p, own2, nx2, rank2)'
  PROVE  ListInv(own2, nx2, rank2)'
<1>1. pc'[p] = l /\ db'[p] = h /\ \A q \in Proc \ {p} : pc'[q] = pc[q] /\ db'[q] = db[q]
  BY DEF Change, LockInv, LockType, FileInv, HandleType
<1>2. ASSUME NEW q \in Proc \ {p} PROVE Place(q, own2, nx2, rank2)'
  <2>1. Spared(q, own, nx, rank, own2, nx2, rank2)
    BY ChangeSpares
  <2> QED BY <2>1, SparedPlace DEF ListInv
<1>3. HoldApart'
  <2>1. ASSUME NEW q \in Proc, NEW s \in Proc \ {p}, q # s, pc'[q] \in HoldLabels, pc'[s] \in HoldLabels
        PROVE  db'[q].idxoff # db'[s].idxoff
    <3>1. CASE q = p
      <4>1. pc[s] \in HoldLabels /\ l \in HoldLabels => db[s].idxoff # h.idxoff
        BY DEF Change
      <4> QED BY <1>1, <2>1, <3>1, <4>1
    <3>2. CASE q # p
      BY <1>1, <2>1, <3>2 DEF ListInv, HoldApart
    <3> QED BY <3>1, <3>2
  <2> QED BY <2>1 DEF HoldApart
<1>4. OnFile(own2, nx2)'
  BY ChangeOnFile
<1>5. Shape(own2, nx2, rank2)'
  BY DEF Shape
<1> QED BY <1>2, <1>3, <1>4, <1>5 DEF ListInv

-----------------------------------------------------------------------------
(* The steps that write the index file.                                     *)

\* _db_writeidx with the blanked key: the record leaves its chain.
LEMMA DelIdxLists ==
  ASSUME NEW p \in Proc, LockInv, FileInv, NEW own, NEW nx, NEW rank, ListInv(own, nx, rank), DelIdx(p),
         NEW r, NEW y, NEW c, r = db[p].idxoff, y = db[p].ptroff, c = chainoff(p)
  PROVE  ListInv([own EXCEPT ![r] = NoList], [nx EXCEPT ![y] = nx[r]], rank)'
<1> DEFINE own2 == [own EXCEPT ![r] = NoList]
           nx2 == [nx EXCEPT ![y] = nx[r]]
           h == [db[p] EXCEPT !.ptrval = db[p].head]
<1>1. pc[p] = "delidx" /\ pc[p] \in DelLabels \cup StoreLabels /\ pc[p] \in FoundLabels /\ ~Torn(p)
      /\ pc[p] \in RecordLabels
  BY DEF DelIdx, DelLabels, FoundLabels, Torn, RecordLabels
<1>t. /\ db \in [Proc -> Handles] /\ pc \in [Proc -> Labels] /\ db[p] \in Handles /\ FileType
      /\ ptr \in [Offsets -> Offsets] /\ DOMAIN rec = Records
      /\ own \in [Offsets -> NoList .. NHash] /\ nx \in [Offsets -> Offsets] /\ rank \in [Offsets -> Nat]
  BY <1>1, AtWork
<1>c. /\ InChain(p) /\ call[p].op # "fetch" /\ call[p].key \in Keys
      /\ c \in Chains /\ c \in 0 .. NHash /\ c \in Offsets /\ c # FREE_OFF /\ c # NoList /\ c \notin Records
      /\ own[c] = c /\ own[FREE_OFF] = FREE_OFF
      /\ FREE_OFF \in Offsets /\ FREE_OFF \notin Records /\ FREE_OFF # NoList /\ FREE_OFF \in 0 .. NHash
  BY <1>1, AtWork
<1>p. /\ Shape(own, nx, rank) /\ OnFile(own, nx)
      /\ FindPlace(p, own, nx, rank) /\ DeletePlace(p, own, nx) /\ StorePlace(p, own, nx)
      /\ db[p].ptroff \in Offsets /\ db[p].save \in Offsets
  BY <1>1, AtWork
<1>2. r \in Written /\ r \in Records /\ r \in Offsets /\ r # 0 /\ r < idxsize
  <2>1. r \in Written
    BY <1>1 DEF FileInv, HandleOK
  <2>2. r \in Records /\ r \in Offsets
    BY <2>1, WrittenOffsets DEF FileInv
  <2>3. r < idxsize
    BY <2>1, FileSizes, Sizes DEF Written, FileInv
  <2> QED BY <2>1, <2>2, <2>3, Places
<1>3. /\ own[y] = c /\ nx[y] = r /\ rec[r].key = call[p].key /\ db[p].ptrval = nx[r]
      /\ db[p].save = nx[r] /\ db[p].head = nx[FREE_OFF]
  BY <1>1, <1>t, <1>c, <1>p DEF FindPlace, DeletePlace
<1>4. own[r] = c /\ r # y /\ y \in Offsets /\ c # NoList /\ c # FREE_OFF /\ y # FREE_OFF
  <2>1. own[y] = c /\ nx[y] = r /\ r # 0 /\ c \in 0 .. NHash /\ y \in Offsets
    BY <1>2, <1>3, <1>c, <1>p
  <2>2. own[r] = c /\ r # y
    BY <2>1, <1>p, FollowingOne
  <2> QED BY <2>1, <2>2, <1>c
<1>5. /\ ptr' = [ptr EXCEPT ![r] = db[p].head]
      /\ rec' = [rec EXCEPT ![r] = [key |-> Blank, klen |-> KeyLen[call[p].key],
                                    datoff |-> db[p].datoff, datlen |-> db[p].datlen]]
      /\ idxsize' = idxsize /\ call' = call
      /\ pc' = [pc EXCEPT ![p] = "delhead"] /\ db' = [db EXCEPT ![p] = h]
  BY <1>2 DEF DelIdx, WriteIdx, Goto
<1>6. /\ h.ptroff = y /\ h.idxoff = r /\ h.save = nx[r] /\ h.head = nx[FREE_OFF]
      /\ rec'[r].key = Blank /\ ptr'[r] = nx[FREE_OFF] /\ Written' = Written
      /\ \A o \in Offsets \ {r} : ptr'[o] = ptr[o]
      /\ \A o \in Records \ {r} : rec'[o] = rec[o]
  <2>1. h.ptroff = y /\ h.idxoff = r /\ h.save = nx[r] /\ h.head = nx[FREE_OFF]
    BY <1>1, <1>3, <1>t, <1>c, <1>p DEF Handles
  <2>2. /\ rec'[r].key = Blank /\ ptr'[r] = nx[FREE_OFF]
        /\ \A o \in Offsets \ {r} : ptr'[o] = ptr[o]
        /\ \A o \in Records \ {r} : rec'[o] = rec[o]
    BY <1>1, <1>2, <1>3, <1>5, <1>t, <1>c, <1>p
  <2> QED BY <1>5, <2>1, <2>2 DEF Written
<1>7. /\ own2[r] = NoList /\ nx2[y] = nx[r] /\ own2[y] = c /\ nx2[FREE_OFF] = nx[FREE_OFF]
      /\ \A o \in Offsets \ {r} : own2[o] = own[o]
      /\ \A o \in Offsets \ {y} : nx2[o] = nx[o]
  BY <1>1, <1>2, <1>3, <1>4, <1>t, <1>c, <1>p
<1>8. pc'[p] = "delhead" /\ db'[p] = h /\ chainoff(p)' = c
  BY <1>1, <1>5, <1>t, <1>c, <1>p DEF chainoff
<1>9. Shape(own2, nx2, rank)
  BY <1>1, <1>2, <1>3, <1>4, <1>t, <1>c, <1>p, ShapeRemove
<1> HIDE DEF own2, nx2, h
<1>10. ptr[y] = r
  <2>1. own[y] = chainoff(p) /\ y \in Offsets /\ nx[y] = r /\ InChain(p) /\ ~Torn(p)
    BY <1>1, <1>3, <1>4, <1>c
  <2>2. ptr[y] = nx[y]
    BY <1>t, <2>1, ChainReal
  <2> QED BY <2>1, <2>2
<1>11. Place(p, own2, nx2, rank)'
  <2>1. \A o \in Records : own2[o] = c => rec'[o].key # call[p].key
    <3> SUFFICES ASSUME NEW o \in Records, own2[o] = c PROVE rec'[o].key # call[p].key
      OBVIOUS
    <3>1. o # r /\ own[o] = c /\ rec'[o] = rec[o]
      BY <1>4, <1>6, <1>7, Places
    <3>2. \A s, q \in Records : own[s] \in Chains /\ own[q] = own[s] /\ rec[q].key = rec[s].key => q = s
      BY <1>p DEF OnFile
    <3>3. c \in Chains
      BY <1>c
    <3> QED BY <1>2, <1>3, <1>4, <3>1, <3>2, <3>3
  <2>2. FindPlace(p, own2, nx2, rank)'
    BY <1>5, <1>8, <2>1 DEF FindPlace, FoundLabels
  <2>3. DeletePlace(p, own2, nx2)'
    <3>1. own2[y] = c /\ nx2[y] = h.save /\ ptr'[y] = r
      BY <1>4, <1>6, <1>7, <1>10
    <3> QED BY <1>6, <1>7, <1>8, <3>1 DEF DeletePlace
  <2>4. StorePlace(p, own2, nx2)'
    BY <1>6, <1>7, <1>8 DEF StorePlace, HeadLabels, StoreLabels, TakenLabels, NewLabels
  <2> QED BY <2>2, <2>3, <2>4 DEF Place
<1>12. Change(p, "delhead", h, r, y, c)
  <2>1. \A q \in Proc \ {p} : pc[q] \in HoldLabels => db[q].idxoff \notin {r, y}
    <3> SUFFICES ASSUME NEW q \in Proc \ {p}, pc[q] \in HoldLabels PROVE db[q].idxoff \notin {r, y}
      OBVIOUS
    <3>1. \A o \in Offsets : own[o] # NoList => db[q].idxoff # o
      BY HoldElsewhere
    <3> QED BY <1>2, <1>3, <1>4, <3>1
  <2>2. c \in 0 .. NHash /\ InChain(p) /\ call[p].op # "fetch"
    BY <1>c
  <2>3. Written \subseteq Written' /\ (\A o \in Offsets \ {r, y} : ptr'[o] = ptr[o])
        /\ (\A o \in Records \ {r} : rec'[o] = rec[o]) /\ h.idxoff = r
    BY <1>6
  <2>4. r \in Offsets /\ y \in Offsets /\ ~Torn(p)
    BY <1>1, <1>2, <1>4
  <2> QED BY <1>5, <2>1, <2>2, <2>3, <2>4 DEF Change
<1>13. ListChange(r, y, c, own, nx, rank, own2, nx2, rank)
  BY <1>3, <1>4, <1>7 DEF ListChange
<1>14. FileChange("delhead", h, r, y, own, own2, nx2)
  BY <1>6, <1>7 DEF FileChange
<1>15. ListInv(own2, nx2, rank)'
  BY <1>9, <1>11, <1>12, <1>13, <1>14, ChangeLists
<1> QED BY <1>15 DEF own2, nx2

\* The free list pointer: the record becomes the head of the free list.
LEMMA DelHeadLists ==
  ASSUME NEW p \in Proc, LockInv, FileInv, NEW own, NEW nx, NEW rank, ListInv(own, nx, rank), DelHead(p),
         NEW r, NEW y, NEW c, r = db[p].idxoff, y = db[p].ptroff, c = chainoff(p)
  PROVE  ListInv([own EXCEPT ![r] = FREE_OFF], [nx EXCEPT ![FREE_OFF] = r, ![r] = nx[FREE_OFF]],
                 [rank EXCEPT ![r] = rank[FREE_OFF], ![FREE_OFF] = rank[FREE_OFF] + 1])'
<1> DEFINE own2 == [own EXCEPT ![r] = FREE_OFF]
           nx2 == [nx EXCEPT ![FREE_OFF] = r, ![r] = nx[FREE_OFF]]
           rank2 == [rank EXCEPT ![r] = rank[FREE_OFF], ![FREE_OFF] = rank[FREE_OFF] + 1]
<1>1. /\ pc[p] = "delhead" /\ pc[p] \in DelLabels \cup StoreLabels /\ Torn(p)
      /\ pc[p] \in HoldLabels /\ pc[p] \in MissLabels /\ ChangesFree(p)
  BY DEF DelHead, DelLabels, HoldLabels, MissLabels, Torn, ChangesFree, FreeLabels
<1>t. /\ db \in [Proc -> Handles] /\ pc \in [Proc -> Labels] /\ db[p] \in Handles /\ FileType
      /\ ptr \in [Offsets -> Offsets] /\ DOMAIN rec = Records
      /\ own \in [Offsets -> NoList .. NHash] /\ nx \in [Offsets -> Offsets] /\ rank \in [Offsets -> Nat]
  BY <1>1, AtWork
<1>c. /\ InChain(p) /\ call[p].op # "fetch" /\ call[p].key \in Keys
      /\ c \in Chains /\ c \in 0 .. NHash /\ c \in Offsets /\ c # FREE_OFF /\ c # NoList /\ c \notin Records
      /\ own[c] = c /\ own[FREE_OFF] = FREE_OFF
      /\ FREE_OFF \in Offsets /\ FREE_OFF \notin Records /\ FREE_OFF # NoList /\ FREE_OFF \in 0 .. NHash
  BY <1>1, AtWork
<1>p. /\ Shape(own, nx, rank) /\ OnFile(own, nx)
      /\ FindPlace(p, own, nx, rank) /\ DeletePlace(p, own, nx) /\ StorePlace(p, own, nx)
      /\ db[p].ptroff \in Offsets /\ db[p].save \in Offsets
  BY <1>1, AtWork
<1>2. r \in Written /\ r \in Records /\ r \in Offsets /\ r # FREE_OFF
  BY <1>1, HoldRecord, <1>t, <1>c, <1>p
<1>3. /\ own[y] = c /\ nx[y] = db[p].save /\ ptr[y] = r /\ own[r] = NoList
      /\ db[p].head = nx[FREE_OFF] /\ ptr[r] = nx[FREE_OFF] /\ rec[r].key = Blank
  BY <1>1, <1>t, <1>c, <1>p DEF DeletePlace, StorePlace
<1>4. y \in Offsets /\ y # r /\ y # FREE_OFF /\ c # NoList /\ c # FREE_OFF
  BY <1>1, <1>3, <1>t, <1>c, <1>p
<1>5. /\ ptr' = [ptr EXCEPT ![FREE_OFF] = r] /\ rec' = rec /\ idxsize' = idxsize /\ call' = call
      /\ pc' = [pc EXCEPT ![p] = "delunlink"] /\ db' = [db EXCEPT ![p] = db[p]]
  BY <1>1, <1>t, <1>c, <1>p DEF DelHead, WritePtr, Goto
<1>6. ptr'[FREE_OFF] = r /\ Written' = Written /\ \A o \in Offsets \ {FREE_OFF} : ptr'[o] = ptr[o]
  BY <1>1, <1>5, <1>t, <1>c, <1>p DEF Written
<1>7. /\ own2[r] = FREE_OFF /\ own2[FREE_OFF] = FREE_OFF /\ nx2[FREE_OFF] = r /\ nx2[r] = nx[FREE_OFF]
      /\ \A o \in Offsets \ {r, FREE_OFF} : own2[o] = own[o] /\ nx2[o] = nx[o] /\ rank2[o] = rank[o]
  BY <1>1, <1>2, <1>t, <1>c, <1>p
<1>8. pc'[p] = "delunlink" /\ db'[p] = db[p] /\ chainoff(p)' = c
  BY <1>1, <1>5, <1>t, <1>c, <1>p DEF chainoff
<1>9. Shape(own2, nx2, rank2)
  BY <1>1, <1>2, <1>3, <1>t, <1>c, <1>p, ShapeInsert
<1> HIDE DEF own2, nx2, rank2
<1>10. Place(p, own2, nx2, rank2)'
  <2>1. \A o \in Records : own2[o] = c => rec'[o].key # call[p].key
    <3>1. \A o \in Records : own2[o] = c => own[o] = c
      BY <1>4, <1>7, Places
    <3>2. \A o \in Records : own[o] = c => rec[o].key # call[p].key
      BY <1>1, <1>p DEF FindPlace
    <3> QED BY <1>5, <3>1, <3>2
  <2>2. FindPlace(p, own2, nx2, rank2)'
    BY <1>5, <1>8, <2>1 DEF FindPlace, FoundLabels
  <2>3. DeletePlace(p, own2, nx2)'
    <3>1. own2[y] = c /\ nx2[y] = db[p].save /\ ptr'[y] = r
      BY <1>3, <1>4, <1>6, <1>7
    <3>2. pc'[p] # "delidx" /\ pc'[p] # "delhead"
      BY <1>8
    <3> QED BY <1>8, <3>1, <3>2 DEF DeletePlace
  <2>4. StorePlace(p, own2, nx2)'
    <3>1. pc'[p] \notin HeadLabels \cup TakenLabels \cup NewLabels \cup HoldLabels
          /\ pc'[p] \notin {"freerec", "freetake", "freeunlock"}
      BY <1>8 DEF HeadLabels, StoreLabels, TakenLabels, NewLabels, HoldLabels
    <3> QED BY <3>1 DEF StorePlace
  <2> QED BY <2>2, <2>3, <2>4 DEF Place
<1>11. Change(p, "delunlink", db[p], r, FREE_OFF, FREE_OFF)
  <2>1. \A q \in Proc \ {p} : pc[q] \in HoldLabels => db[q].idxoff \notin {r, FREE_OFF}
    <3> SUFFICES ASSUME NEW q \in Proc \ {p}, pc[q] \in HoldLabels PROVE db[q].idxoff \notin {r, FREE_OFF}
      OBVIOUS
    <3>1. (\A o \in Offsets : own[o] # NoList => db[q].idxoff # o) /\ db[q].idxoff # r
      BY <1>1, HoldElsewhere
    <3>2. own[FREE_OFF] # NoList /\ FREE_OFF \in Offsets
      BY <1>c
    <3> QED BY <3>1, <3>2
  <2>2. "delunlink" \notin HoldLabels
    BY DEF HoldLabels, TakenLabels, NewLabels
  <2>3. FREE_OFF \in Offsets /\ FREE_OFF \in 0 .. NHash /\ InChain(p) /\ call[p].op # "fetch"
    BY <1>c
  <2>4. Written \subseteq Written' /\ (\A o \in Offsets \ {r, FREE_OFF} : ptr'[o] = ptr[o])
        /\ (\A o \in Records \ {r} : rec'[o] = rec[o]) /\ ChangesFree(p) /\ r \in Offsets
    BY <1>1, <1>2, <1>5, <1>6
  <2> QED BY <1>5, <2>1, <2>2, <2>3, <2>4 DEF Change
<1>12. ListChange(r, FREE_OFF, FREE_OFF, own, nx, rank, own2, nx2, rank2)
  <2>1. own[FREE_OFF] = FREE_OFF
    BY <1>c
  <2> QED BY <1>3, <1>7, <2>1 DEF ListChange
<1>13. FileChange("delunlink", db[p], r, FREE_OFF, own, own2, nx2)
  <2>1. ptr'[FREE_OFF] = nx2[FREE_OFF] /\ ptr'[r] = nx2[r]
    BY <1>2, <1>3, <1>6, <1>7
  <2>2. r \in Written' /\ own2[r] = FREE_OFF /\ rec'[r].key = Blank
    BY <1>2, <1>3, <1>5, <1>6, <1>7
  <2> QED BY <2>1, <2>2 DEF FileChange
<1>14. ListInv(own2, nx2, rank2)'
  BY <1>9, <1>10, <1>11, <1>12, <1>13, ChangeLists
<1> QED BY <1>14 DEF own2, nx2, rank2

\* The pointer before the record: the chain on the file is again as it is meant.
LEMMA DelUnlinkLists ==
  ASSUME NEW p \in Proc, LockInv, FileInv, NEW own, NEW nx, NEW rank, ListInv(own, nx, rank), DelUnlink(p),
         NEW y, NEW c, y = db[p].ptroff, c = chainoff(p)
  PROVE  ListInv(own, nx, rank)'
<1>1. /\ pc[p] = "delunlink" /\ pc[p] \in DelLabels \cup StoreLabels /\ Torn(p) /\ pc[p] \in MissLabels
  BY DEF DelUnlink, DelLabels, MissLabels, Torn
<1>t. /\ db \in [Proc -> Handles] /\ pc \in [Proc -> Labels] /\ db[p] \in Handles /\ FileType
      /\ ptr \in [Offsets -> Offsets] /\ DOMAIN rec = Records
      /\ own \in [Offsets -> NoList .. NHash] /\ nx \in [Offsets -> Offsets] /\ rank \in [Offsets -> Nat]
  BY <1>1, AtWork
<1>c. /\ InChain(p) /\ call[p].op # "fetch" /\ call[p].key \in Keys
      /\ c \in Chains /\ c \in 0 .. NHash /\ c \in Offsets /\ c # FREE_OFF /\ c # NoList /\ c \notin Records
      /\ own[c] = c /\ own[FREE_OFF] = FREE_OFF
      /\ FREE_OFF \in Offsets /\ FREE_OFF \notin Records /\ FREE_OFF # NoList /\ FREE_OFF \in 0 .. NHash
  BY <1>1, AtWork
<1>p. /\ Shape(own, nx, rank) /\ OnFile(own, nx)
      /\ FindPlace(p, own, nx, rank) /\ DeletePlace(p, own, nx) /\ StorePlace(p, own, nx)
      /\ db[p].ptroff \in Offsets /\ db[p].save \in Offsets
  BY <1>1, AtWork
<1>2. own[y] = c /\ nx[y] = db[p].save /\ y \in Offsets /\ c # NoList
  BY <1>1, <1>t, <1>c, <1>p DEF DeletePlace
<1>3. PICK h : /\ db' = [db EXCEPT ![p] = h] /\ pc' = [pc EXCEPT ![p] = "delunlock"]
               /\ ptr' = [ptr EXCEPT ![y] = db[p].save] /\ rec' = rec /\ idxsize' = idxsize /\ call' = call
  <2>1. /\ pc' = [pc EXCEPT ![p] = "delunlock"]
        /\ ptr' = [ptr EXCEPT ![y] = db[p].save] /\ rec' = rec /\ idxsize' = idxsize /\ call' = call
    BY DEF DelUnlink, WritePtr, Goto
  <2>2. \E h : db' = [db EXCEPT ![p] = h]
    <3>1. db = [db EXCEPT ![p] = db[p]]
      BY <1>1, <1>t, <1>c, <1>p
    <3> QED BY <3>1 DEF DelUnlink
  <2> QED BY <2>1, <2>2
<1>4. /\ pc'[p] = "delunlock" /\ chainoff(p)' = c /\ Written' = Written
      /\ ptr'[y] = nx[y] /\ \A o \in Offsets \ {y} : ptr'[o] = ptr[o]
  BY <1>1, <1>2, <1>3, <1>t, <1>c, <1>p DEF chainoff, Written
<1>5. "delunlock" \notin HoldLabels
  BY DEF HoldLabels, TakenLabels, NewLabels
<1>6. Place(p, own, nx, rank)'
  <2>1. FindPlace(p, own, nx, rank)'
    <3>1. \A o \in Records : own[o] = c => rec'[o].key # call[p].key
      BY <1>1, <1>3, <1>p DEF FindPlace
    <3> QED BY <1>3, <1>4, <3>1 DEF FindPlace, FoundLabels
  <2>2. DeletePlace(p, own, nx)' /\ StorePlace(p, own, nx)'
    BY <1>4, <1>5 DEF DeletePlace, StorePlace, Torn, HeadLabels, StoreLabels, TakenLabels, NewLabels
  <2> QED BY <2>1, <2>2 DEF Place
<1>7. Change(p, "delunlock", h, y, y, c)
  <2>1. \A q \in Proc \ {p} : pc[q] \in HoldLabels => db[q].idxoff \notin {y, y}
    <3> SUFFICES ASSUME NEW q \in Proc \ {p}, pc[q] \in HoldLabels PROVE db[q].idxoff # y
      OBVIOUS
    <3>1. \A o \in Offsets : own[o] # NoList => db[q].idxoff # o
      BY HoldElsewhere
    <3> QED BY <1>2, <3>1
  <2>2. c \in 0 .. NHash /\ InChain(p) /\ call[p].op # "fetch"
    BY <1>c
  <2>3. Written \subseteq Written' /\ \A o \in Offsets \ {y, y} : ptr'[o] = ptr[o]
    BY <1>4
  <2> QED BY <1>2, <1>3, <1>5, <2>1, <2>2, <2>3 DEF Change
<1>8. ListChange(y, y, c, own, nx, rank, own, nx, rank)
  BY <1>2 DEF ListChange
<1>9. FileChange("delunlock", h, y, y, own, own, nx)
  BY <1>1, <1>2, <1>3, <1>4, <1>t, <1>c, <1>p DEF FileChange, OnFile
<1>10. Shape(own, nx, rank)
  BY <1>p
<1> QED BY <1>6, <1>7, <1>8, <1>9, <1>10, ChangeLists

\* _db_findfree takes the record off the free list.
LEMMA FreeTakeLists ==
  ASSUME NEW p \in Proc, LockInv, FileInv, NEW own, NEW nx, NEW rank, ListInv(own, nx, rank), FreeTake(p),
         NEW r, NEW y, NEW c, r = db[p].idxoff, y = db[p].save, c = chainoff(p)
  PROVE  ListInv([own EXCEPT ![r] = NoList], [nx EXCEPT ![y] = nx[r]], rank)'
<1> DEFINE own2 == [own EXCEPT ![r] = NoList]
           nx2 == [nx EXCEPT ![y] = nx[r]]
<1>1. /\ pc[p] = "freetake" /\ pc[p] \in DelLabels \cup StoreLabels /\ ~Torn(p) /\ ChangesFree(p)
      /\ pc[p] \in MissLabels /\ pc[p] \in HeadLabels /\ pc[p] \in RecordLabels
  BY DEF FreeTake, StoreLabels, MissLabels, HeadLabels, Torn, ChangesFree, FreeLabels, RecordLabels
<1>t. /\ db \in [Proc -> Handles] /\ pc \in [Proc -> Labels] /\ db[p] \in Handles /\ FileType
      /\ ptr \in [Offsets -> Offsets] /\ DOMAIN rec = Records
      /\ own \in [Offsets -> NoList .. NHash] /\ nx \in [Offsets -> Offsets] /\ rank \in [Offsets -> Nat]
  BY <1>1, AtWork
<1>c. /\ InChain(p) /\ call[p].op # "fetch" /\ call[p].key \in Keys
      /\ c \in Chains /\ c \in 0 .. NHash /\ c \in Offsets /\ c # FREE_OFF /\ c # NoList /\ c \notin Records
      /\ own[c] = c /\ own[FREE_OFF] = FREE_OFF
      /\ FREE_OFF \in Offsets /\ FREE_OFF \notin Records /\ FREE_OFF # NoList /\ FREE_OFF \in 0 .. NHash
  BY <1>1, AtWork
<1>p. /\ Shape(own, nx, rank) /\ OnFile(own, nx)
      /\ FindPlace(p, own, nx, rank) /\ DeletePlace(p, own, nx) /\ StorePlace(p, own, nx)
      /\ db[p].ptroff \in Offsets /\ db[p].save \in Offsets
  BY <1>1, AtWork
<1>2. r \in Written /\ r \in Records /\ r \in Offsets /\ r # 0
  <2>1. r \in Written
    BY <1>1 DEF FileInv, HandleOK
  <2> QED BY <2>1, WrittenOffsets, Places DEF FileInv
<1>3. /\ own[y] = FREE_OFF /\ nx[y] = r /\ db[p].offset = r /\ db[p].ptrval = nx[r]
      /\ db[p].head = nx[c] /\ y \in Offsets
  BY <1>1, <1>t, <1>c, <1>p DEF StorePlace
<1>4. own[r] = FREE_OFF /\ r # y /\ y # c /\ FREE_OFF # NoList
  <2>1. own[r] = FREE_OFF /\ r # y
    <3>1. own[y] = FREE_OFF /\ nx[y] = r /\ r # 0 /\ FREE_OFF \in 0 .. NHash /\ y \in Offsets
      BY <1>2, <1>3, <1>c
    <3> QED BY <3>1, <1>p, FollowingOne
  <2> QED BY <1>3, <2>1, <1>c, <1>p
<1>5. /\ ptr' = [ptr EXCEPT ![y] = nx[r]] /\ rec' = rec /\ idxsize' = idxsize /\ call' = call
      /\ pc' = [pc EXCEPT ![p] = "freeunlock"] /\ db' = [db EXCEPT ![p] = db[p]]
  BY <1>1, <1>3, <1>t, <1>c, <1>p DEF FreeTake, WritePtr, Goto
<1>6. ptr'[y] = nx[r] /\ Written' = Written /\ \A o \in Offsets \ {y} : ptr'[o] = ptr[o]
  BY <1>1, <1>3, <1>5, <1>t, <1>c, <1>p DEF Written
<1>7. /\ own2[r] = NoList /\ own2[y] = FREE_OFF /\ nx2[y] = nx[r]
      /\ \A o \in Offsets \ {r} : own2[o] = own[o]
      /\ \A o \in Offsets \ {y} : nx2[o] = nx[o]
  BY <1>1, <1>2, <1>3, <1>4, <1>t, <1>c, <1>p
<1>8. pc'[p] = "freeunlock" /\ db'[p] = db[p] /\ chainoff(p)' = c
  BY <1>1, <1>5, <1>t, <1>c, <1>p DEF chainoff
<1>9. Shape(own2, nx2, rank)
  BY <1>1, <1>2, <1>3, <1>4, <1>t, <1>c, <1>p, ShapeRemove
<1> HIDE DEF own2, nx2
<1>10. Place(p, own2, nx2, rank)'
  <2>1. \A o \in Records : own2[o] = c => rec'[o].key # call[p].key
    <3>1. \A o \in Records : own2[o] = c => own[o] = c
      <4>1. c # NoList
        BY <1>c
      <4> QED BY <1>7, <4>1, Places
    <3>2. \A o \in Records : own[o] = c => rec[o].key # call[p].key
      BY <1>1, <1>p DEF FindPlace
    <3> QED BY <1>5, <3>1, <3>2
  <2>2. FindPlace(p, own2, nx2, rank)'
    BY <1>5, <1>8, <2>1 DEF FindPlace, FoundLabels
  <2>3. DeletePlace(p, own2, nx2)'
    BY <1>8 DEF DeletePlace, Torn
  <2>4. rec'[r].key = Blank /\ db[p].head = nx2[c] /\ db[p].offset # 0
    <3>1. rec[r].key = Blank
      BY <1>2, <1>4, <1>p DEF OnFile
    <3>2. nx2[c] = nx[c]
      BY <1>4, <1>7, <1>c
    <3> QED BY <1>2, <1>3, <1>5, <3>1, <3>2
  <2>5. StorePlace(p, own2, nx2)'
    BY <1>7, <1>8, <2>4 DEF StorePlace, NewLabels
  <2> QED BY <2>2, <2>3, <2>5 DEF Place
<1>11. Change(p, "freeunlock", db[p], r, y, FREE_OFF)
  <2>1. \A q \in Proc \ {p} : pc[q] \in HoldLabels => db[q].idxoff \notin {r, y}
    <3> SUFFICES ASSUME NEW q \in Proc \ {p}, pc[q] \in HoldLabels PROVE db[q].idxoff \notin {r, y}
      OBVIOUS
    <3>1. \A o \in Offsets : own[o] # NoList => db[q].idxoff # o
      BY HoldElsewhere
    <3> QED BY <1>2, <1>3, <1>4, <3>1
  <2>2. FREE_OFF \in 0 .. NHash /\ InChain(p) /\ call[p].op # "fetch" /\ ChangesFree(p) /\ ~Torn(p)
    BY <1>1, <1>c
  <2>3. Written \subseteq Written' /\ (\A o \in Offsets \ {r, y} : ptr'[o] = ptr[o])
        /\ (\A o \in Records \ {r} : rec'[o] = rec[o]) /\ r \in Offsets /\ y \in Offsets
    BY <1>2, <1>3, <1>5, <1>6
  <2> QED BY <1>5, <2>1, <2>2, <2>3 DEF Change
<1>12. ListChange(r, y, FREE_OFF, own, nx, rank, own2, nx2, rank)
  BY <1>3, <1>4, <1>7 DEF ListChange
<1>13. FileChange("freeunlock", db[p], r, y, own, own2, nx2)
  BY <1>6, <1>7 DEF FileChange
<1>14. ListInv(own2, nx2, rank)'
  BY <1>9, <1>10, <1>11, <1>12, <1>13, ChangeLists
<1> QED BY <1>14 DEF own2, nx2

\* The index record of the new key, over a free record or at the end of the file.
LEMMA WriteIdxLists ==
  ASSUME NEW p \in Proc, LockInv, FileInv, NEW own, NEW nx, NEW rank, ListInv(own, nx, rank),
         IdxRewrite(p) \/ IdxAppend(p), NEW r, NEW c, r = db[p].idxoff, c = chainoff(p)
  PROVE  ListInv(own, nx, rank)'
<1>1. /\ pc[p] \in {"idxrewrite", "idxwrite"} /\ pc[p] \in DelLabels \cup StoreLabels /\ ~Torn(p)
      /\ pc[p] \in MissLabels /\ pc[p] \in HeadLabels
  BY DEF IdxRewrite, IdxAppend, StoreLabels, MissLabels, HeadLabels, Torn
<1>t. /\ db \in [Proc -> Handles] /\ pc \in [Proc -> Labels] /\ db[p] \in Handles /\ FileType
      /\ ptr \in [Offsets -> Offsets] /\ DOMAIN rec = Records
      /\ own \in [Offsets -> NoList .. NHash] /\ nx \in [Offsets -> Offsets] /\ rank \in [Offsets -> Nat]
  BY <1>1, AtWork
<1>c. /\ InChain(p) /\ call[p].op # "fetch" /\ call[p].key \in Keys
      /\ c \in Chains /\ c \in 0 .. NHash /\ c \in Offsets /\ c # FREE_OFF /\ c # NoList /\ c \notin Records
      /\ own[c] = c /\ own[FREE_OFF] = FREE_OFF
      /\ FREE_OFF \in Offsets /\ FREE_OFF \notin Records /\ FREE_OFF # NoList /\ FREE_OFF \in 0 .. NHash
  BY <1>1, AtWork
<1>p. /\ Shape(own, nx, rank) /\ OnFile(own, nx)
      /\ FindPlace(p, own, nx, rank) /\ DeletePlace(p, own, nx) /\ StorePlace(p, own, nx)
      /\ db[p].ptroff \in Offsets /\ db[p].save \in Offsets
  BY <1>1, AtWork
<1>2. idxsize \in Int /\ RecOff \in Int /\ RecOff <= idxsize /\ IdxCap \in Int /\ RecOff \in Nat
  BY FileSizes, Sizes DEF FileInv
<1>3. /\ r \in Records /\ r \in Offsets /\ Written \subseteq Written' /\ own[r] = NoList
      /\ \A q \in Proc \ {p} : pc[q] \in HoldLabels => db[q].idxoff # r
  <2>1. CASE IdxRewrite(p)
    <3>1. pc[p] = "idxrewrite" /\ pc[p] \in HoldLabels
      BY <2>1 DEF IdxRewrite, HoldLabels, TakenLabels
    <3>2. r \in Written /\ r \in Records /\ r \in Offsets
      BY <3>1, HoldRecord
    <3>3. r < idxsize
      BY <1>2, <3>2 DEF Written
    <3>4. idxsize' = idxsize
      BY <2>1, <3>3 DEF IdxRewrite, WriteIdx
    <3>5. own[r] = NoList
      BY <1>1, <3>1, <1>t, <1>c, <1>p DEF StorePlace
    <3> QED BY <3>1, <3>2, <3>4, <3>5, HoldElsewhere DEF Written
  <2>2. CASE IdxAppend(p)
    <3>1. r = idxsize /\ r <= IdxCap
      BY <2>2 DEF IdxAppend, FileInv, HandleOK
    <3>2. r \in Records /\ r \in Offsets /\ r \notin Written
      BY <1>2, <3>1 DEF Records, Offsets, Written
    <3>3. idxsize' = idxsize + 1
      BY <1>2, <2>2, <3>1 DEF IdxAppend, WriteIdx
    <3>4. Written \subseteq Written'
      BY <1>2, <3>3 DEF Written
    <3>5. own[r] = NoList
      BY <1>1, <3>2, <1>t, <1>c, <1>p DEF OnFile
    <3> QED BY <3>2, <3>4, <3>5, HoldRecord
  <2> QED BY <2>1, <2>2
<1>4. PICK l \in NewLabels :
        /\ pc' = [pc EXCEPT ![p] = l] /\ db' = [db EXCEPT ![p] = db[p]] /\ call' = call
        /\ ptr' = [ptr EXCEPT ![r] = db[p].head]
        /\ rec' = [rec EXCEPT ![r] = [key |-> call[p].key, klen |-> KeyLen[call[p].key],
                                      datoff |-> db[p].datoff, datlen |-> db[p].datlen]]
  <2>1. db = [db EXCEPT ![p] = db[p]]
    BY <1>1, <1>t, <1>c, <1>p
  <2>2. "link" \in NewLabels /\ "idxunlock" \in NewLabels
    BY DEF NewLabels
  <2> QED BY <2>1, <2>2 DEF IdxRewrite, IdxAppend, WriteIdx, Goto
<1>5. /\ pc'[p] = l /\ db'[p] = db[p] /\ chainoff(p)' = c
      /\ ptr'[r] = db[p].head /\ rec'[r].key = call[p].key
      /\ \A o \in Offsets \ {r} : ptr'[o] = ptr[o]
      /\ \A o \in Records \ {r} : rec'[o] = rec[o]
  BY <1>1, <1>3, <1>4, <1>t, <1>c, <1>p DEF chainoff
<1>6. Place(p, own, nx, rank)'
  <2>1. \A o \in Records : own[o] = c => rec'[o].key # call[p].key
    <3>1. \A o \in Records : own[o] = c => rec[o].key # call[p].key
      BY <1>1, <1>t, <1>c, <1>p DEF FindPlace
    <3>2. own[r] # c
      BY <1>1, <1>3, <1>t, <1>c, <1>p
    <3> QED BY <1>5, <3>1, <3>2
  <2>2. FindPlace(p, own, nx, rank)'
    <3>1. pc'[p] \notin FoundLabels \cup {"findptr", "findrec"}
      BY <1>5 DEF FoundLabels, NewLabels
    <3> QED BY <1>4, <1>5, <2>1, <3>1 DEF FindPlace
  <2>3. DeletePlace(p, own, nx)'
    BY <1>5 DEF DeletePlace, Torn, NewLabels
  <2>4. db[p].head = nx[c]
    BY <1>1, <1>t, <1>c, <1>p DEF StorePlace
  <2>5. StorePlace(p, own, nx)'
    BY <1>3, <1>4, <1>5, <2>4 DEF StorePlace, TakenLabels, NewLabels
  <2> QED BY <2>2, <2>3, <2>5 DEF Place
<1>7. Change(p, l, db[p], r, r, c)
  <2>1. c \in 0 .. NHash /\ InChain(p) /\ call[p].op # "fetch" /\ ~Torn(p)
    BY <1>1, <1>c
  <2>2. (\A o \in Offsets \ {r, r} : ptr'[o] = ptr[o]) /\ \A o \in Records \ {r} : rec'[o] = rec[o]
    BY <1>5
  <2>3. \A q \in Proc \ {p} : pc[q] \in HoldLabels => db[q].idxoff \notin {r, r}
    BY <1>3
  <2> QED BY <1>3, <1>4, <2>1, <2>2, <2>3 DEF Change
<1>8. ListChange(r, r, c, own, nx, rank, own, nx, rank)
  BY <1>3 DEF ListChange
<1>9. FileChange(l, db[p], r, r, own, own, nx)
  BY <1>3 DEF FileChange
<1>10. Shape(own, nx, rank)
  BY <1>p
<1> QED BY <1>6, <1>7, <1>8, <1>9, <1>10, ChangeLists

\* The chain pointer: the record becomes the head of its chain.
LEMMA LinkLists ==
  ASSUME NEW p \in Proc, LockInv, FileInv, NEW own, NEW nx, NEW rank, ListInv(own, nx, rank), Link(p),
         NEW r, NEW c, r = db[p].idxoff, c = chainoff(p)
  PROVE  ListInv([own EXCEPT ![r] = c], [nx EXCEPT ![c] = r, ![r] = nx[c]],
                 [rank EXCEPT ![r] = rank[c], ![c] = rank[c] + 1])'
<1> DEFINE own2 == [own EXCEPT ![r] = c]
           nx2 == [nx EXCEPT ![c] = r, ![r] = nx[c]]
           rank2 == [rank EXCEPT ![r] = rank[c], ![c] = rank[c] + 1]
<1>1. /\ pc[p] = "link" /\ pc[p] \in DelLabels \cup StoreLabels /\ ~Torn(p)
      /\ pc[p] \in HoldLabels /\ pc[p] \in MissLabels /\ pc[p] \in HeadLabels /\ pc[p] \in NewLabels
  BY DEF Link, StoreLabels, HoldLabels, MissLabels, HeadLabels, NewLabels, Torn
<1>t. /\ db \in [Proc -> Handles] /\ pc \in [Proc -> Labels] /\ db[p] \in Handles /\ FileType
      /\ ptr \in [Offsets -> Offsets] /\ DOMAIN rec = Records
      /\ own \in [Offsets -> NoList .. NHash] /\ nx \in [Offsets -> Offsets] /\ rank \in [Offsets -> Nat]
  BY <1>1, AtWork
<1>c. /\ InChain(p) /\ call[p].op # "fetch" /\ call[p].key \in Keys
      /\ c \in Chains /\ c \in 0 .. NHash /\ c \in Offsets /\ c # FREE_OFF /\ c # NoList /\ c \notin Records
      /\ own[c] = c /\ own[FREE_OFF] = FREE_OFF
      /\ FREE_OFF \in Offsets /\ FREE_OFF \notin Records /\ FREE_OFF # NoList /\ FREE_OFF \in 0 .. NHash
  BY <1>1, AtWork
<1>p. /\ Shape(own, nx, rank) /\ OnFile(own, nx)
      /\ FindPlace(p, own, nx, rank) /\ DeletePlace(p, own, nx) /\ StorePlace(p, own, nx)
      /\ db[p].ptroff \in Offsets /\ db[p].save \in Offsets
  BY <1>1, AtWork
<1>2. r \in Written /\ r \in Records /\ r \in Offsets /\ r # c
  BY <1>1, HoldRecord, <1>t, <1>c, <1>p
<1>3. /\ own[r] = NoList /\ db[p].head = nx[c] /\ ptr[r] = nx[c] /\ rec[r].key = call[p].key
      /\ Hash[call[p].key] = c /\ \A o \in Records : own[o] = c => rec[o].key # call[p].key
  BY <1>1, <1>t, <1>c, <1>p DEF StorePlace, FindPlace, chainoff
<1>4. /\ ptr' = [ptr EXCEPT ![c] = r] /\ rec' = rec /\ idxsize' = idxsize /\ call' = call
      /\ pc' = [pc EXCEPT ![p] = "unlock"] /\ db' = [db EXCEPT ![p] = db[p]]
  BY <1>1, <1>t, <1>c, <1>p DEF Link, WritePtr, Goto
<1>5. ptr'[c] = r /\ Written' = Written /\ \A o \in Offsets \ {c} : ptr'[o] = ptr[o]
  BY <1>1, <1>4, <1>t, <1>c, <1>p DEF Written
<1>6. /\ own2[r] = c /\ own2[c] = c /\ nx2[c] = r /\ nx2[r] = nx[c]
      /\ \A o \in Offsets \ {r, c} : own2[o] = own[o] /\ nx2[o] = nx[o] /\ rank2[o] = rank[o]
  BY <1>1, <1>2, <1>t, <1>c, <1>p
<1>7. pc'[p] = "unlock"
  BY <1>1, <1>4, <1>t, <1>c, <1>p
<1>8. Shape(own2, nx2, rank2)
  BY <1>1, <1>2, <1>3, <1>t, <1>c, <1>p, ShapeInsert
<1> HIDE DEF own2, nx2, rank2
<1>9. Place(p, own2, nx2, rank2)'
  BY <1>7, FreePlace
<1>10. Change(p, "unlock", db[p], r, c, c)
  <2>1. \A q \in Proc \ {p} : pc[q] \in HoldLabels => db[q].idxoff \notin {r, c}
    <3> SUFFICES ASSUME NEW q \in Proc \ {p}, pc[q] \in HoldLabels PROVE db[q].idxoff \notin {r, c}
      OBVIOUS
    <3>1. (\A o \in Offsets : own[o] # NoList => db[q].idxoff # o) /\ db[q].idxoff # r
      BY <1>1, HoldElsewhere
    <3>2. own[c] # NoList /\ c \in Offsets
      BY <1>c
    <3> QED BY <3>1, <3>2
  <2>2. "unlock" \notin HoldLabels
    BY DEF HoldLabels, TakenLabels, NewLabels
  <2>3. c \in Offsets /\ c \in 0 .. NHash /\ InChain(p) /\ call[p].op # "fetch" /\ ~Torn(p)
    BY <1>1, <1>c
  <2>4. Written \subseteq Written' /\ (\A o \in Offsets \ {r, c} : ptr'[o] = ptr[o])
        /\ (\A o \in Records \ {r} : rec'[o] = rec[o]) /\ r \in Offsets
    BY <1>2, <1>4, <1>5
  <2> QED BY <1>4, <2>1, <2>2, <2>3, <2>4 DEF Change
<1>11. ListChange(r, c, c, own, nx, rank, own2, nx2, rank2)
  <2>1. own[c] = c
    BY <1>c
  <2> QED BY <1>3, <1>6, <2>1 DEF ListChange
<1>12. FileChange("unlock", db[p], r, c, own, own2, nx2)
  <2>1. ptr'[c] = nx2[c] /\ ptr'[r] = nx2[r]
    BY <1>2, <1>3, <1>5, <1>6
  <2>2. own2[r] \in Chains /\ rec'[r].key \in Keys /\ Hash[rec'[r].key] = own2[r]
    BY <1>3, <1>4, <1>6, <1>c
  <2>3. \A o \in Records : own[o] = own2[r] => rec[o].key # rec'[r].key
    BY <1>3, <1>4, <1>6
  <2> QED BY <1>2, <1>5, <2>1, <2>2, <2>3 DEF FileChange
<1>13. ListInv(own2, nx2, rank2)'
  BY <1>8, <1>9, <1>10, <1>11, <1>12, ChangeLists
<1> QED BY <1>13 DEF own2, nx2, rank2

-----------------------------------------------------------------------------
(* The invariant holds.                                                     *)

\* The steps that move a record from one list to another, or to or from none.
Moving(p) == DelIdx(p) \/ DelHead(p) \/ FreeTake(p) \/ Link(p)

\* Every other step leaves the lists as they are meant.
LEMMA StillLists ==
  ASSUME NEW p \in Proc, LockInv, FileInv, NEW own, NEW nx, NEW rank, ListInv(own, nx, rank),
         Begin(p) \/ Step(p) \/ Reopen(p) \/ (~Torn(p) /\ Crash(p)), ~Moving(p)
  PROVE  ListInv(own, nx, rank)'
<1>1. CASE Crash(p) /\ ~Torn(p)
  BY <1>1, ExitLists DEF Crash
<1>2. CASE Begin(p) \/ Reopen(p) \/ UnlockChain(p) \/ ScanStep(p) \/ FetchData(p)
  BY <1>2, OutStepLists
<1>3. CASE FindStep(p)
  BY <1>3, FindLists
<1>4. CASE DeleteStep(p)
  <2>1. CASE DelUnlink(p)
    BY <2>1, DelUnlinkLists
  <2>2. CASE DelLock(p) \/ DelBlank(p) \/ DelFree(p) \/ DelUnlock(p)
    BY <2>2, DeleteLookLists
  <2> QED BY <1>4, <2>1, <2>2 DEF DeleteStep, Moving
<1>5. CASE FreeStep(p)
  <2>1. CASE FreePtr(p) \/ FreeNext(p) \/ FreeFound(p)
    BY <2>1, FreeLookLists
  <2>2. CASE FreeLock(p)
    BY <2>2, StoreLookLists
  <2>3. CASE FreeUnlock(p)
    <3>1. pc[p] = "freerec" \/ pc[p] = "freeunlock"
      BY <2>3 DEF FreeUnlock
    <3> QED BY <2>3, <3>1, StoreLookLists, HoldLookLists
  <2> QED BY <1>5, <2>1, <2>2, <2>3 DEF FreeStep, Moving
<1>6. CASE StoreStep(p)
  <2>1. CASE ReadHead(p) \/ DatLock(p) \/ DatSeek(p) \/ DatAppend(p) \/ DatUnlock(p) \/ IdxLock(p) \/ IdxSeek(p)
    BY <2>1, StoreLookLists
  <2>2. CASE DatFull(p) \/ IdxFull(p) \/ LinkRefused(p)
    BY <2>2, StoreExitLists
  <2>3. CASE Overwrite(p)
    BY <2>3, OutStepLists
  <2>4. CASE Reuse(p) \/ IdxUnlock(p)
    BY <2>4, HoldLookLists
  <2>5. CASE IdxRewrite(p) \/ IdxAppend(p)
    BY <2>5, WriteIdxLists
  <2> QED BY <1>6, <2>1, <2>2, <2>3, <2>4, <2>5 DEF StoreStep, Moving
<1> QED BY <1>1, <1>2, <1>3, <1>4, <1>5, <1>6 DEF Step

Lists == \E own, nx, rank : ListInv(own, nx, rank)

LEMMA StepLists ==
  ASSUME NEW p \in Proc, LockInv, FileInv, Lists,
         Begin(p) \/ Step(p) \/ Reopen(p) \/ (~Torn(p) /\ Crash(p))
  PROVE  Lists'
<1>1. PICK own, nx, rank : ListInv(own, nx, rank)
  BY DEF Lists
<1>2. PICK r, y, s, c : r = db[p].idxoff /\ y = db[p].ptroff /\ s = db[p].save /\ c = chainoff(p)
  OBVIOUS
<1>3. CASE DelIdx(p)
  <2>1. ListInv([own EXCEPT ![r] = NoList], [nx EXCEPT ![y] = nx[r]], rank)'
    BY <1>1, <1>2, <1>3, DelIdxLists
  <2> QED BY <2>1 DEF Lists
<1>4. CASE DelHead(p)
  <2>1. ListInv([own EXCEPT ![r] = FREE_OFF], [nx EXCEPT ![FREE_OFF] = r, ![r] = nx[FREE_OFF]],
                [rank EXCEPT ![r] = rank[FREE_OFF], ![FREE_OFF] = rank[FREE_OFF] + 1])'
    BY <1>1, <1>2, <1>4, DelHeadLists
  <2> QED BY <2>1 DEF Lists
<1>5. CASE FreeTake(p)
  <2>1. ListInv([own EXCEPT ![r] = NoList], [nx EXCEPT ![s] = nx[r]], rank)'
    BY <1>1, <1>2, <1>5, FreeTakeLists
  <2> QED BY <2>1 DEF Lists
<1>6. CASE Link(p)
  <2>1. ListInv([own EXCEPT ![r] = c], [nx EXCEPT ![c] = r, ![r] = nx[c]],
                [rank EXCEPT ![r] = rank[c], ![c] = rank[c] + 1])'
    BY <1>1, <1>2, <1>6, LinkLists
  <2> QED BY <2>1 DEF Lists
<1>7. CASE ~Moving(p)
  <2>1. ListInv(own, nx, rank)'
    BY <1>1, <1>7, StillLists
  <2> QED BY <2>1 DEF Lists
<1> QED BY <1>3, <1>4, <1>5, <1>6, <1>7 DEF Moving

\* In a new database every list is empty.
LEMMA InitLists == Init => Lists
<1> SUFFICES ASSUME Init PROVE Lists
  OBVIOUS
<1> DEFINE own == [o \in Offsets |-> IF o \in 0 .. NHash THEN o ELSE NoList]
           nx == [o \in Offsets |-> 0]
<1>1. 0 \in Offsets /\ \A a \in 0 .. NHash : a \in NoList .. NHash
  BY Places DEF NoList
<1>2. /\ own \in [Offsets -> NoList .. NHash] /\ nx \in [Offsets -> Offsets]
      /\ \A o \in 0 .. NHash : own[o] = o
      /\ \A o \in Records : own[o] = NoList
      /\ \A o \in Offsets : nx[o] = 0
  BY <1>1, Places
<1>3. \A o, q \in Offsets : own[o] # NoList /\ own[q] = own[o] => q = o
  BY Places
<1> HIDE DEF own
<1>4. Shape(own, nx, nx)
  BY <1>1, <1>2, <1>3 DEF Shape
<1> HIDE DEF nx
<1>5. OnFile(own, nx)
  <2>1. \A o \in Offsets : ptr[o] = 0
    BY DEF Init
  <2>2. \A a \in Chains : a # NoList
    BY Places
  <2> QED BY <1>2, <2>1, <2>2, Places DEF OnFile
<1>6. \A p \in Proc : pc[p] = "idle"
  BY DEF Init
<1>7. HoldApart
  BY <1>6 DEF HoldApart, HoldLabels, TakenLabels, NewLabels
<1>8. ASSUME NEW p \in Proc PROVE Place(p, own, nx, nx)
  <2>1. pc[p] = "idle" /\ ~Torn(p)
    BY <1>6 DEF Torn
  <2>2. "idle" \notin FoundLabels /\ "idle" \notin MissLabels /\ "idle" \notin HeadLabels
        /\ "idle" \notin TakenLabels /\ "idle" \notin NewLabels /\ "idle" \notin HoldLabels
    BY DEF FoundLabels, MissLabels, HeadLabels, TakenLabels, NewLabels, HoldLabels, StoreLabels
  <2> QED BY <2>1, <2>2 DEF Place, FindPlace, DeletePlace, StorePlace
<1>9. ListInv(own, nx, nx)
  BY <1>4, <1>5, <1>7, <1>8 DEF ListInv
<1> QED BY <1>9 DEF Lists

LEMMA SameLists ==
  ASSUME NEW own, NEW nx, NEW rank, ListInv(own, nx, rank), UNCHANGED vars
  PROVE  ListInv(own, nx, rank)'
<1>1. UNCHANGED <<ptr, rec, idxsize, pc, db, call>>
  BY DEF vars, files
<1>2. OnFile(own, nx)' /\ HoldApart'
  BY <1>1 DEF ListInv, OnFile, HoldApart, Torn, Written
<1>3. ASSUME NEW p \in Proc PROVE Place(p, own, nx, rank)'
  <2>1. Place(p, own, nx, rank) /\ chainoff(p)' = chainoff(p)
    BY <1>1 DEF ListInv, chainoff
  <2>2. FindPlace(p, own, nx, rank)'
    BY <1>1, <2>1 DEF Place, FindPlace
  <2>3. DeletePlace(p, own, nx)' /\ StorePlace(p, own, nx)'
    BY <1>1, <2>1 DEF Place, DeletePlace, StorePlace, Torn
  <2> QED BY <2>2, <2>3 DEF Place
<1>4. Shape(own, nx, rank)'
  BY DEF ListInv, Shape
<1> QED BY <1>2, <1>3, <1>4 DEF ListInv

LEMMA NextLists == LockInv /\ FileInv /\ Lists /\ [CrashNext]_vars => Lists'
<1> SUFFICES ASSUME LockInv, FileInv, Lists, [CrashNext]_vars PROVE Lists'
  OBVIOUS
<1>1. CASE CrashNext
  <2>1. PICK p \in Proc : Begin(p) \/ Step(p) \/ Reopen(p) \/ (~Torn(p) /\ Crash(p))
    BY <1>1 DEF CrashNext, Next
  <2> QED BY <2>1, StepLists
<1>2. CASE UNCHANGED vars
  <2>1. PICK own, nx, rank : ListInv(own, nx, rank)
    BY DEF Lists
  <2>2. ListInv(own, nx, rank)'
    BY <1>2, <2>1, SameLists
  <2> QED BY <2>2 DEF Lists
<1> QED BY <1>1, <1>2

=============================================================================
